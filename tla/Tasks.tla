------------------------------- MODULE Tasks -------------------------------
(***************************************************************************)
(* Tasks of one env and the dependencies between them (tasks/api.py,       *)
(* tasks/cycles.py, and relations.py for depends_on edges).                *)
(*                                                                         *)
(* Every call is a READ COMMITTED transaction.  The calls that add a       *)
(* dependency take an advisory lock of the env after they have read the    *)
(* tasks, look for a cycle in what is committed, and insert the edge; the  *)
(* lock goes with the transaction.  A status change holds no lock and      *)
(* relies on the version of the row.                                       *)
(***************************************************************************)
EXTENDS Naturals, FiniteSets

CONSTANTS
    Callers,      \* concurrent calls
    MaxTasks,     \* bound: task ids handed out
    Priority,     \* Priority[t]: smaller is more urgent
    StatusCalls,  \* <<task, status>> that callers of task_status_set ask for
    MaxChanges    \* bound: status changes begun

TaskIds == 1..MaxTasks
TaskStatuses == {"pending", "in_progress", "blocked", "done", "cancelled"}

ASSUME TaskPriorities == Priority \in [TaskIds -> Nat]
ASSUME TaskBounds == MaxTasks \in Nat /\ MaxChanges \in Nat
ASSUME TaskTargets == StatusCalls \subseteq TaskIds \X TaskStatuses

VARIABLES
    task,       \* task[t]: status and version; "none" before it is created
    deps,       \* committed depends_on edges <<src, dst>>
    depLock,    \* calls that hold pg_advisory_xact_lock of the env
    call,       \* call[c]: the transaction of caller c
    changes     \* status changes so far

taskVars == <<task, deps, depLock, call, changes>>

NoTask == [status |-> "none", ver |-> 0]
NewTask == [status |-> "pending", ver |-> 1]
NoTx == [at |-> "idle", op |-> "none", src |-> 0, dst |-> 0, to |-> "none", ver |-> 0]

Created == {t \in TaskIds : task[t].status # "none"}
FreeIds == TaskIds \ Created
NextIds == {t \in FreeIds : \A u \in FreeIds : t <= u}

TaskTransitions ==
    [pending     |-> {"in_progress", "blocked", "cancelled"},
     in_progress |-> {"blocked", "done", "cancelled", "pending"},
     blocked     |-> {"pending", "in_progress", "cancelled"},
     done        |-> {},
     cancelled   |-> {}]
TerminalDep == {"done", "cancelled"}

ValidChange(s, t) == s = t \/ t \in TaskTransitions[s]

----------------------------------------------------------------------------
(* The dependency graph *)

Closed(S, E) == \A e \in E : e[1] \in S => e[2] \in S

\* The walk of would_cycle along outgoing edges from a meets b: b is in every
\* set that contains a and is closed under the edges.
Reaches(E, a, b) ==
    \A S \in SUBSET TaskIds : a \in S /\ Closed(S, E) => b \in S

\* would_cycle: src is reachable from dst.
WouldCycle(E, src, dst) == Reaches(E, dst, src)

----------------------------------------------------------------------------
(* Calls *)

Begin(c, tx) == call[c] = NoTx /\ call' = [call EXCEPT ![c] = tx]
Goes(c, at) == call' = [call EXCEPT ![c].at = at]
Ends(c) == /\ call' = [call EXCEPT ![c] = NoTx]
           /\ depLock' = depLock \ {c}

\* task_create: one transaction, on rows nobody else sees yet.
TaskCreate ==
    /\ \E t \in NextIds : task' = [task EXCEPT ![t] = NewTask]
    /\ UNCHANGED <<deps, depLock, call, changes>>

\* task_substep: the parent is read, the subtask and its node are inserted.
BeginSubstep(c, t) ==
    /\ t \in Created
    /\ Begin(c, [NoTx EXCEPT !.at = "waiting", !.op = "substep", !.src = t])
    /\ UNCHANGED <<task, deps, depLock, changes>>

\* task_dep_link, or relation_link with type depends_on: both tasks are read.
BeginDepLink(c, s, d) ==
    /\ s \in Created /\ d \in Created /\ s # d
    /\ Begin(c, [NoTx EXCEPT !.at = "waiting", !.op = "link", !.src = s, !.dst = d])
    /\ UNCHANGED <<task, deps, depLock, changes>>

\* Mutant: the calls of two tools take locks of their own.
LockFreeFor_Any(c) == TRUE

LockFreeFor(c) == depLock = {}

AcquireDepLock(c) ==
    /\ call[c].at = "waiting" /\ LockFreeFor(c)
    /\ depLock' = depLock \cup {c}
    /\ Goes(c, "locked")
    /\ UNCHANGED <<task, deps, changes>>

\* The cycle check passes.  A subtask that nobody sees has no edges.
CheckCycle(c) ==
    /\ call[c].at = "locked"
    /\ call[c].op = "link" => ~WouldCycle(deps, call[c].src, call[c].dst)
    /\ Goes(c, "checked")
    /\ UNCHANGED <<task, deps, depLock, changes>>

\* CycleDetectedError rolls the transaction back.
RefuseCycle(c) ==
    /\ call[c].at = "locked" /\ call[c].op = "link"
    /\ WouldCycle(deps, call[c].src, call[c].dst)
    /\ Ends(c)
    /\ UNCHANGED <<task, deps, changes>>

\* The edge, if it is new, becomes visible with the commit, which frees the lock.
CommitLink(c) ==
    /\ call[c].at = "checked" /\ call[c].op = "link"
    /\ deps' = deps \cup {<<call[c].src, call[c].dst>>}
    /\ Ends(c)
    /\ UNCHANGED <<task, changes>>

CommitSubstep(c) ==
    /\ call[c].at = "checked" /\ call[c].op = "substep"
    /\ \E t \in NextIds : /\ task' = [task EXCEPT ![t] = NewTask]
                          /\ deps' = deps \cup {<<call[c].src, t>>}
    /\ Ends(c)
    /\ UNCHANGED changes

\* task_status_set reads the row and checks the transition and the caller's
\* expected_version against what it read.
BeginStatusSet(c, t, s) ==
    /\ t \in Created /\ <<t, s>> \in StatusCalls /\ changes < MaxChanges
    /\ ValidChange(task[t].status, s)
    /\ Begin(c, [NoTx EXCEPT !.at = "update", !.op = "status", !.src = t,
                             !.to = s, !.ver = task[t].ver])
    /\ UNCHANGED <<task, deps, depLock, changes>>

\* Mutant: UPDATE ... WHERE id = :task_id alone.
StillAt_Always(t, v) == TRUE

StillAt(t, v) == task[t].ver = v

\* UPDATE ... WHERE version = expected_version: done, or VersionConflictError.
CommitStatusSet(c) ==
    LET t == call[c].src
    IN  /\ call[c].at = "update"
        /\ task' = IF StillAt(t, call[c].ver)
                   THEN [task EXCEPT ![t] = [status |-> call[c].to, ver |-> call[c].ver + 1]]
                   ELSE task
        /\ changes' = IF StillAt(t, call[c].ver) THEN changes + 1 ELSE changes
        /\ Ends(c)
        /\ UNCHANGED deps

\* A dropped connection: rolled back.
Rollback(c) ==
    /\ call[c].at # "idle"
    /\ Ends(c)
    /\ UNCHANGED <<task, deps, changes>>

----------------------------------------------------------------------------
(* task_next *)

OpenDeps(t) == {d \in TaskIds : <<t, d>> \in deps /\ task[d].status \notin TerminalDep}

\* Mutant: a cancelled dependency still holds its dependents.
Ready_DoneOnly ==
    {t \in TaskIds : task[t].status = "pending"
                       /\ \A d \in TaskIds : <<t, d>> \in deps => task[d].status = "done"}

Ready == {t \in TaskIds : task[t].status = "pending" /\ OpenDeps(t) = {}}

\* ORDER BY priority, created_at, id LIMIT 1
NextTask ==
    {t \in Ready : \A u \in Ready : Priority[t] < Priority[u]
                                      \/ (Priority[t] = Priority[u] /\ t <= u)}

----------------------------------------------------------------------------
TasksInit ==
    /\ task = [t \in TaskIds |-> NoTask]
    /\ deps = {}
    /\ depLock = {}
    /\ call = [c \in Callers |-> NoTx]
    /\ changes = 0

\* MaxTasks is reached.
NoIdLeft(c) == FreeIds = {} /\ call[c].at = "checked" /\ call[c].op = "substep"

\* What a call does by itself.
Proceed(c) == \/ CheckCycle(c)    \/ RefuseCycle(c)     \/ CommitLink(c)
              \/ CommitSubstep(c) \/ CommitStatusSet(c)
              \/ NoIdLeft(c) /\ Rollback(c)

TasksNext ==
    \/ TaskCreate
    \/ \E c \in Callers :
          \/ \E t \in TaskIds : \/ BeginSubstep(c, t)
                                \/ \E u \in TaskIds : BeginDepLink(c, t, u)
                                \/ \E s \in TaskStatuses : BeginStatusSet(c, t, s)
          \/ AcquireDepLock(c)
          \/ Proceed(c)
          \/ Rollback(c)

(* A transaction goes on, and Postgres queues the waiters of a lock, so a   *)
(* waiter gets the lock if it is freed again and again. Nothing makes a     *)
(* connection drop.                                                         *)
TasksFairness == \A c \in Callers : /\ WF_taskVars(Proceed(c))
                                    /\ SF_taskVars(AcquireDepLock(c))
TasksSpec == TasksInit /\ [][TasksNext]_taskVars /\ TasksFairness

----------------------------------------------------------------------------
(* Properties *)

TaskTx == [at : {"idle", "waiting", "locked", "checked", "update"},
           op : {"none", "link", "substep", "status"},
           src : Nat, dst : Nat, to : TaskStatuses \cup {"none"}, ver : Nat]

(* Types; edges join created tasks, and a link call is about two of them.   *)
TasksTypeOK ==
    /\ task \in [TaskIds -> [status : TaskStatuses \cup {"none"}, ver : Nat]]
    /\ deps \in SUBSET (TaskIds \X TaskIds)
    /\ depLock \in SUBSET Callers
    /\ call \in [Callers -> TaskTx]
    /\ changes \in Nat
    /\ \A e \in deps : e[1] \in Created /\ e[2] \in Created
    /\ \A c \in Callers :
          /\ call[c].op = "link" => {call[c].src, call[c].dst} \subseteq Created
          /\ call[c].op = "substep" => call[c].src \in Created
          /\ call[c].at \in {"waiting", "locked", "checked"} => call[c].op \in {"link", "substep"}
          /\ call[c].at = "update" => call[c].src \in Created /\ call[c].to \in TaskStatuses

(* Dependencies never form a cycle, however calls that add them interleave: *)
(* each saw only committed edges when it looked.                            *)
Acyclic == \A e \in deps : ~Reaches(deps, e[2], e[1])

(* What makes Acyclic inductive: the lock has one holder, and what a holder *)
(* found is still so when it inserts.                                       *)
ChecksHold ==
    /\ \A c, d \in depLock : c = d
    /\ \A c \in Callers :
          /\ call[c].at \in {"locked", "checked"} => c \in depLock
          /\ call[c].at = "checked" /\ call[c].op = "link"
                => ~Reaches(deps, call[c].dst, call[c].src)

TasksInv == TasksTypeOK /\ ChecksHold /\ Acyclic

(* Work never waits on itself: while some task is pending and every other   *)
(* one is pending or over, task_next has a task to offer.                   *)
PendingWorkIsOffered ==
    (\E t \in TaskIds : task[t].status = "pending")
      /\ (\A t \in Created : task[t].status \in TerminalDep \cup {"pending"})
    => NextTask # {}

(* Two status changes of one task never both build on the same state: a     *)
(* task that is done or cancelled stays so, and others move by the matrix.  *)
MovesLegally ==
    \A t \in Created : /\ ValidChange(task[t].status, task'[t].status)
                       /\ task'[t].ver \in {task[t].ver, task[t].ver + 1}
                       /\ task'[t].status # task[t].status => task'[t].ver = task[t].ver + 1
TaskMovesAreLegal == [][MovesLegally]_taskVars
=============================================================================
