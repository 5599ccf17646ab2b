---------------------------- MODULE TasksProofs ----------------------------
(***************************************************************************)
(* Proofs about Tasks, for any callers, number of tasks, priorities,       *)
(* status calls and bound on changes: dependencies stay free of cycles,    *)
(* and no status change builds on a status that another one replaced.      *)
(***************************************************************************)
EXTENDS Tasks, FiniteSetTheorems, TLAPS

----------------------------------------------------------------------------
(* Cycles *)

(* An edge whose end does not reach its start closes no cycle, neither      *)
(* through itself nor through an edge that was there: what would_cycle      *)
(* checks before the insert is enough.                                      *)
LEMMA SafeEdge ==
    ASSUME NEW E \in SUBSET (TaskIds \X TaskIds),
           NEW s \in TaskIds, NEW d \in TaskIds,
           ~Reaches(E, d, s),
           \A e \in E : ~Reaches(E, e[2], e[1])
    PROVE  \A e \in E \cup {<<s, d>>} : ~Reaches(E \cup {<<s, d>>}, e[2], e[1])
  <1> DEFINE F == E \cup {<<s, d>>}
  <1>1. PICK S \in SUBSET TaskIds : d \in S /\ Closed(S, E) /\ s \notin S
    BY DEF Reaches
  \* A closed set without s is closed under the new edge too.
  <1>2. ASSUME NEW T \in SUBSET TaskIds, Closed(T, E), s \notin T PROVE Closed(T, F)
    BY <1>2 DEF Closed
  \* So is one with d.
  <1>3. ASSUME NEW T \in SUBSET TaskIds, Closed(T, E), d \in T PROVE Closed(T, F)
    BY <1>3 DEF Closed
  <1>4. ~Reaches(F, d, s)
    BY <1>1, <1>2 DEF Reaches
  <1>5. ASSUME NEW e \in E PROVE ~Reaches(F, e[2], e[1])
    <2>1. e[1] \in TaskIds /\ e[2] \in TaskIds
      OBVIOUS
    <2>2. PICK T \in SUBSET TaskIds : e[2] \in T /\ Closed(T, E) /\ e[1] \notin T
      BY DEF Reaches
    <2>3. CASE s \notin T
      BY <1>2, <2>2, <2>3 DEF Reaches
    <2>4. CASE e[1] \notin S
      <3>1. Closed(T \cup S, E)
        BY <1>1, <2>2 DEF Closed
      <3>2. Closed(T \cup S, F)
        BY <1>1, <1>3, <3>1
      <3> QED BY <1>1, <2>2, <2>4, <3>2 DEF Reaches
    <2>5. CASE e[1] \in S
      <3>1. e[2] \in S
        BY <1>1, <2>5 DEF Closed
      <3>2. Closed(T \cap S, E)
        BY <1>1, <2>2 DEF Closed
      <3>3. Closed(T \cap S, F)
        BY <1>1, <1>2, <3>2
      <3> QED BY <2>2, <3>1, <3>3 DEF Reaches
    <2> QED BY <2>3, <2>4, <2>5
  <1>6. ASSUME NEW e \in F PROVE ~Reaches(F, e[2], e[1])
    <2>1. CASE e \in E
      BY <1>5, <2>1
    <2>2. CASE e = <<s, d>>
      <3>1. e[1] = s /\ e[2] = d
        BY <2>2
      <3> QED BY <1>4, <3>1
    <2> QED BY <2>1, <2>2
  <1> QED BY <1>6

(* A task without dependencies reaches no other: the new task of            *)
(* task_substep can be a dependency of its parent unchecked.                *)
LEMMA FreshEnd ==
    ASSUME NEW E, NEW t \in TaskIds, NEW s, s # t, \A e \in E : e[1] # t
    PROVE  ~Reaches(E, t, s)
  <1>1. Closed({t}, E)
    BY DEF Closed
  <1> QED BY <1>1 DEF Reaches

----------------------------------------------------------------------------
(* The inductive invariant *)

(* A status change that could still commit (the task has the version it     *)
(* read) asks for a legal change of the status the task has.                *)
ChangesFit ==
    \A c \in Callers :
        call[c].at = "update" =>
            /\ call[c].ver <= task[call[c].src].ver
            /\ StillAt(call[c].src, call[c].ver)
                 => ValidChange(task[call[c].src].status, call[c].to)

TasksIInv == TasksInv /\ ChangesFit

LEMMA TasksInitInv == TasksInit => TasksIInv
  <1> SUFFICES ASSUME TasksInit PROVE TasksIInv
    OBVIOUS
  <1>1. NoTx \in TaskTx
    BY DEF NoTx, TaskTx
  <1>2. NoTask \in [status : TaskStatuses \cup {"none"}, ver : Nat]
    BY DEF NoTask
  <1>3. TasksTypeOK
    BY <1>1, <1>2 DEF TasksInit, TasksTypeOK, NoTx
  <1>4. ChecksHold /\ Acyclic /\ ChangesFit
    BY DEF TasksInit, ChecksHold, Acyclic, ChangesFit, NoTx
  <1> QED BY <1>3, <1>4 DEF TasksIInv, TasksInv

(* A caller that begins a call: nothing is locked, checked or changed.      *)
LEMMA BeginKeeps ==
    ASSUME TasksIInv, NEW c \in Callers, NEW tx \in TaskTx,
           call' = [call EXCEPT ![c] = tx], UNCHANGED <<task, deps, depLock>>,
           changes' = changes,
           \/ tx.at = "waiting" /\ tx.op = "link" /\ {tx.src, tx.dst} \subseteq Created
           \/ tx.at = "waiting" /\ tx.op = "substep" /\ tx.src \in Created
           \/ /\ tx.at = "update" /\ tx.op = "status" /\ tx.src \in Created
              /\ tx.to \in TaskStatuses /\ tx.ver = task[tx.src].ver
              /\ ValidChange(task[tx.src].status, tx.to)
    PROVE  TasksIInv'
  <1>1. Created' = Created
    BY DEF Created
  <1>2. call' \in [Callers -> TaskTx]
    BY DEF TasksIInv, TasksInv, TasksTypeOK
  <1>3. \A x \in Callers : x # c => call'[x] = call[x]
    BY DEF TasksIInv, TasksInv, TasksTypeOK
  <1>4. call'[c] = tx
    BY DEF TasksIInv, TasksInv, TasksTypeOK
  <1>5. TasksTypeOK'
    BY <1>1, <1>2, <1>3, <1>4 DEF TasksIInv, TasksInv, TasksTypeOK
  <1>6. ChecksHold' /\ Acyclic'
    BY <1>3, <1>4 DEF TasksIInv, TasksInv, ChecksHold, Acyclic
  <1>7. ASSUME tx.at = "update" PROVE tx.ver <= task[tx.src].ver
    <2>1. tx.ver \in Nat /\ tx.ver = task[tx.src].ver
      BY <1>7 DEF TaskTx
    <2> QED BY <2>1
  <1>8. ChangesFit'
    BY <1>3, <1>4, <1>7 DEF TasksIInv, ChangesFit, StillAt
  <1> QED BY <1>5, <1>6, <1>8 DEF TasksIInv, TasksInv

(* A caller whose call ends gives up the lock.                              *)
LEMMA EndKeeps ==
    ASSUME TasksIInv, NEW c \in Callers, Ends(c), UNCHANGED <<task, deps>>,
           changes' = changes
    PROVE  TasksIInv'
  <1>1. Created' = Created
    BY DEF Created
  <1>2. NoTx \in TaskTx
    BY DEF NoTx, TaskTx
  <1>3. call' \in [Callers -> TaskTx] /\ call'[c] = NoTx
    BY <1>2 DEF Ends, TasksIInv, TasksInv, TasksTypeOK
  <1>4. \A x \in Callers : x # c => call'[x] = call[x]
    BY DEF Ends, TasksIInv, TasksInv, TasksTypeOK
  <1>5. depLock' = depLock \ {c}
    BY DEF Ends
  <1>6. TasksTypeOK'
    BY <1>1, <1>3, <1>4, <1>5 DEF TasksIInv, TasksInv, TasksTypeOK, NoTx
  <1>7. ChecksHold' /\ Acyclic'
    BY <1>3, <1>4, <1>5 DEF TasksIInv, TasksInv, ChecksHold, Acyclic, NoTx
  <1>8. ChangesFit'
    BY <1>3, <1>4 DEF TasksIInv, ChangesFit, StillAt, NoTx
  <1> QED BY <1>6, <1>7, <1>8 DEF TasksIInv, TasksInv

(* A task that is created is pending, and no edge or call is about it yet.  *)
LEMMA CreateKeeps ==
    ASSUME TasksIInv, NEW t \in FreeIds, task' = [task EXCEPT ![t] = NewTask]
    PROVE  /\ task' \in [TaskIds -> [status : TaskStatuses \cup {"none"}, ver : Nat]]
           /\ Created' = Created \cup {t}
           /\ \A u \in Created : task'[u] = task[u]
           /\ \A e \in deps : e[1] # t
  <1>1. NewTask \in [status : TaskStatuses \cup {"none"}, ver : Nat] /\ NewTask.status # "none"
    BY DEF NewTask, TaskStatuses
  <1>2. t \in TaskIds /\ t \notin Created
    BY DEF FreeIds
  <1>3. task \in [TaskIds -> [status : TaskStatuses \cup {"none"}, ver : Nat]]
    BY DEF TasksIInv, TasksInv, TasksTypeOK
  <1>4. task'[t] = NewTask /\ \A u \in TaskIds : u # t => task'[u] = task[u]
    BY <1>2, <1>3
  <1>5. task' \in [TaskIds -> [status : TaskStatuses \cup {"none"}, ver : Nat]]
    BY <1>1, <1>2, <1>3
  <1>6. Created' = Created \cup {t}
    BY <1>1, <1>2, <1>4 DEF Created
  <1>7. \A u \in Created : task'[u] = task[u]
    BY <1>2, <1>4 DEF Created
  <1>8. \A e \in deps : e[1] # t
    BY <1>2 DEF TasksIInv, TasksInv, TasksTypeOK
  <1> QED BY <1>5, <1>6, <1>7, <1>8

(* What remains to be shown of a call that ends with a change: that the     *)
(* tasks are well formed, and that each task a call is about still fits it. *)
LEMMA EndRest ==
    ASSUME TasksIInv, NEW c \in Callers, Ends(c), UNCHANGED changes,
           call[c].at = "checked",
           task' \in [TaskIds -> [status : TaskStatuses \cup {"none"}, ver : Nat]],
           Created \subseteq Created',
           \A u \in Created : task'[u] = task[u],
           deps' \in SUBSET (TaskIds \X TaskIds),
           \A e \in deps' : e[1] \in Created' /\ e[2] \in Created'
    PROVE  TasksTypeOK' /\ ChecksHold' /\ ChangesFit'
  <1>1. NoTx \in TaskTx
    BY DEF NoTx, TaskTx
  <1>2. call' \in [Callers -> TaskTx] /\ call'[c] = NoTx
    BY <1>1 DEF Ends, TasksIInv, TasksInv, TasksTypeOK
  <1>3. \A x \in Callers : x # c => call'[x] = call[x]
    BY DEF Ends, TasksIInv, TasksInv, TasksTypeOK
  <1>4. depLock' = depLock \ {c}
    BY DEF Ends
  <1>5. TasksTypeOK'
    BY <1>2, <1>3, <1>4 DEF TasksIInv, TasksInv, TasksTypeOK, NoTx
  \* The lock had one holder, so no other call is between check and insert.
  <1>6. \A x \in Callers : x # c => call[x].at \notin {"locked", "checked"}
    BY DEF TasksIInv, TasksInv, ChecksHold
  <1>7. ChecksHold'
    BY <1>2, <1>3, <1>4, <1>6 DEF TasksIInv, TasksInv, ChecksHold, NoTx
  <1>8. ASSUME NEW x \in Callers, call'[x].at = "update"
        PROVE  call'[x] = call[x] /\ task'[call[x].src] = task[call[x].src]
    BY <1>2, <1>3, <1>8 DEF TasksIInv, TasksInv, TasksTypeOK, NoTx
  <1>9. ChangesFit'
    BY <1>8 DEF TasksIInv, ChangesFit, StillAt
  <1> QED BY <1>5, <1>7, <1>9

(* A status change whose version still fits: it raises the version, so no   *)
(* other change that read the same version fits any more.                   *)
LEMMA ChangeKeeps ==
    ASSUME TasksIInv, NEW c \in Callers, NEW t \in TaskIds, t \in Created,
           Ends(c), UNCHANGED deps, changes' = changes + 1,
           call[c].at = "update", call[c].to \in TaskStatuses,
           task' = [task EXCEPT ![t] = [status |-> call[c].to, ver |-> task[t].ver + 1]]
    PROVE  TasksIInv'
  <1>1. task[t].ver \in Nat
    BY DEF TasksIInv, TasksInv, TasksTypeOK
  <1>2. task' \in [TaskIds -> [status : TaskStatuses \cup {"none"}, ver : Nat]]
    BY <1>1 DEF TasksIInv, TasksInv, TasksTypeOK
  <1>3. \A u \in TaskIds : u # t => task'[u] = task[u]
    BY DEF TasksIInv, TasksInv, TasksTypeOK
  <1>4. task'[t].status = call[c].to /\ task'[t].ver = task[t].ver + 1
    BY DEF TasksIInv, TasksInv, TasksTypeOK
  <1>5. "none" \notin TaskStatuses
    BY DEF TaskStatuses
  <1>6. Created' = Created
    BY <1>3, <1>4, <1>5 DEF Created
  <1>7. NoTx \in TaskTx
    BY DEF NoTx, TaskTx
  <1>8. call' \in [Callers -> TaskTx] /\ call'[c] = NoTx
    BY <1>7 DEF Ends, TasksIInv, TasksInv, TasksTypeOK
  <1>9. \A x \in Callers : x # c => call'[x] = call[x]
    BY DEF Ends, TasksIInv, TasksInv, TasksTypeOK
  <1>10. depLock' = depLock \ {c} /\ c \notin depLock' /\ changes' \in Nat
    BY DEF Ends, TasksIInv, TasksInv, TasksTypeOK
  <1>11. TasksTypeOK'
    BY <1>2, <1>6, <1>8, <1>9, <1>10 DEF TasksIInv, TasksInv, TasksTypeOK, NoTx
  <1>12. ChecksHold' /\ Acyclic'
    BY <1>8, <1>9, <1>10 DEF TasksIInv, TasksInv, ChecksHold, Acyclic, NoTx
  <1>13. ASSUME NEW x \in Callers, call'[x].at = "update"
         PROVE  /\ call'[x].ver <= task'[call'[x].src].ver
                /\ task'[call'[x].src].ver = call'[x].ver
                     => ValidChange(task'[call'[x].src].status, call'[x].to)
    <2>1. x # c /\ call'[x] = call[x] /\ call[x].at = "update"
      BY <1>8, <1>9, <1>13 DEF NoTx
    <2>2. /\ call[x].src \in TaskIds /\ call[x].ver \in Nat
          /\ call[x].ver <= task[call[x].src].ver
          /\ task[call[x].src].ver \in Nat
      BY <2>1 DEF TasksIInv, TasksInv, TasksTypeOK, ChangesFit, Created, TaskTx
    <2>3. CASE call[x].src = t
      BY <1>1, <1>4, <2>1, <2>2, <2>3
    <2>4. CASE call[x].src # t
      <3>1. task'[call[x].src] = task[call[x].src]
        BY <1>3, <2>2, <2>4
      <3>2. task[call[x].src].ver = call[x].ver
              => ValidChange(task[call[x].src].status, call[x].to)
        BY <2>1 DEF TasksIInv, ChangesFit, StillAt
      <3> QED BY <2>1, <2>2, <3>1, <3>2
    <2> QED BY <2>3, <2>4
  <1>14. ChangesFit'
    BY <1>13 DEF ChangesFit, StillAt
  <1> QED BY <1>11, <1>12, <1>14 DEF TasksIInv, TasksInv

LEMMA TasksNextInv == TasksIInv /\ [TasksNext]_taskVars => TasksIInv'
  <1> SUFFICES ASSUME TasksIInv, [TasksNext]_taskVars PROVE TasksIInv'
    OBVIOUS
  <1> USE TaskBounds
  <1>0. TaskIds \subseteq Nat
    BY DEF TaskIds
  <1>1. CASE TaskCreate
    <2>1. PICK t \in FreeIds : task' = [task EXCEPT ![t] = NewTask]
      BY <1>1 DEF TaskCreate, NextIds
    <2>2. UNCHANGED <<deps, depLock, call, changes>>
      BY <1>1 DEF TaskCreate
    <2>3. TasksTypeOK'
      <3>1. /\ task' \in [TaskIds -> [status : TaskStatuses \cup {"none"}, ver : Nat]]
            /\ Created' = Created \cup {t} /\ TasksTypeOK
        BY <2>1, CreateKeeps DEF TasksIInv, TasksInv
      <3> QED BY <2>2, <3>1 DEF TasksTypeOK
    <2>4. ChecksHold' /\ Acyclic'
      BY <2>2 DEF TasksIInv, TasksInv, ChecksHold, Acyclic
    <2>5. ASSUME NEW c \in Callers, call[c].at = "update"
          PROVE  task'[call[c].src] = task[call[c].src]
      BY <2>1, <2>5, CreateKeeps DEF TasksIInv, TasksInv, TasksTypeOK
    <2>6. ChangesFit'
      BY <2>2, <2>5 DEF TasksIInv, ChangesFit, StillAt
    <2> QED BY <2>3, <2>4, <2>6 DEF TasksIInv, TasksInv
  <1>2. ASSUME NEW c \in Callers, NEW t \in TaskIds, BeginSubstep(c, t) PROVE TasksIInv'
    <2> DEFINE tx == [NoTx EXCEPT !.at = "waiting", !.op = "substep", !.src = t]
    <2>1. /\ tx \in TaskTx /\ tx.at = "waiting" /\ tx.op = "substep"
          /\ tx.src \in Created
      BY <1>0, <1>2 DEF BeginSubstep, TaskTx, NoTx
    <2>2. call' = [call EXCEPT ![c] = tx] /\ UNCHANGED <<task, deps, depLock>> /\ changes' = changes
      BY <1>2 DEF BeginSubstep, Begin
    <2> HIDE DEF tx
    <2> QED BY <2>1, <2>2, BeginKeeps
  <1>3. ASSUME NEW c \in Callers, NEW s \in TaskIds, NEW d \in TaskIds, BeginDepLink(c, s, d)
        PROVE  TasksIInv'
    <2> DEFINE tx == [NoTx EXCEPT !.at = "waiting", !.op = "link", !.src = s, !.dst = d]
    <2>1. /\ tx \in TaskTx /\ tx.at = "waiting" /\ tx.op = "link"
          /\ {tx.src, tx.dst} \subseteq Created
      BY <1>0, <1>3 DEF BeginDepLink, TaskTx, NoTx
    <2>2. call' = [call EXCEPT ![c] = tx] /\ UNCHANGED <<task, deps, depLock>> /\ changes' = changes
      BY <1>3 DEF BeginDepLink, Begin
    <2> HIDE DEF tx
    <2> QED BY <2>1, <2>2, BeginKeeps
  <1>4. ASSUME NEW c \in Callers, NEW t \in TaskIds, NEW s \in TaskStatuses,
               BeginStatusSet(c, t, s)
        PROVE  TasksIInv'
    <2> DEFINE tx == [NoTx EXCEPT !.at = "update", !.op = "status", !.src = t,
                                  !.to = s, !.ver = task[t].ver]
    <2>1. task[t].ver \in Nat
      BY DEF TasksIInv, TasksInv, TasksTypeOK
    <2>2. /\ tx \in TaskTx /\ tx.at = "update" /\ tx.op = "status" /\ tx.src = t
          /\ tx.to = s /\ tx.ver = task[t].ver
      BY <1>0, <2>1 DEF TaskTx, NoTx
    <2>3. call' = [call EXCEPT ![c] = tx] /\ UNCHANGED <<task, deps, depLock>> /\ changes' = changes
      BY <1>4 DEF BeginStatusSet, Begin
    <2>4. t \in Created /\ ValidChange(task[t].status, s)
      BY <1>4 DEF BeginStatusSet
    <2> HIDE DEF tx
    <2> QED BY <2>2, <2>3, <2>4, BeginKeeps
  <1>5. ASSUME NEW c \in Callers, AcquireDepLock(c) PROVE TasksIInv'
    <2>1. call' = [call EXCEPT ![c].at = "locked"] /\ call[c].at = "waiting"
      BY <1>5 DEF AcquireDepLock, Goes
    <2>2. depLock = {} /\ depLock' = {c} /\ UNCHANGED <<task, deps, changes>>
      BY <1>5 DEF AcquireDepLock, LockFreeFor
    <2>3. \A x \in Callers : x # c => call'[x] = call[x]
      BY <2>1 DEF TasksIInv, TasksInv, TasksTypeOK
    <2>4. call'[c] = [call[c] EXCEPT !.at = "locked"] /\ call[c] \in TaskTx
      BY <2>1 DEF TasksIInv, TasksInv, TasksTypeOK
    <2>5. /\ call' \in [Callers -> TaskTx] /\ call'[c].at = "locked"
          /\ call'[c].op = call[c].op /\ call'[c].src = call[c].src /\ call'[c].dst = call[c].dst
      BY <2>1, <2>4 DEF TasksIInv, TasksInv, TasksTypeOK, TaskTx
    <2>6. Created' = Created
      BY <2>2 DEF Created
    <2>7. call[c].op \in {"link", "substep"}
      BY <2>1 DEF TasksIInv, TasksInv, TasksTypeOK
    <2>8. TasksTypeOK'
      BY <2>2, <2>3, <2>5, <2>6, <2>7 DEF TasksIInv, TasksInv, TasksTypeOK
    <2>9. ChecksHold' /\ Acyclic'
      BY <2>2, <2>3, <2>5 DEF TasksIInv, TasksInv, ChecksHold, Acyclic
    <2>10. ChangesFit'
      BY <2>2, <2>3, <2>5 DEF TasksIInv, ChangesFit, StillAt
    <2> QED BY <2>8, <2>9, <2>10 DEF TasksIInv, TasksInv
  <1>6. ASSUME NEW c \in Callers, CheckCycle(c) PROVE TasksIInv'
    <2>1. call' = [call EXCEPT ![c].at = "checked"] /\ call[c].at = "locked"
      BY <1>6 DEF CheckCycle, Goes
    <2>2. UNCHANGED <<task, deps, depLock, changes>>
      BY <1>6 DEF CheckCycle
    <2>3. \A x \in Callers : x # c => call'[x] = call[x]
      BY <2>1 DEF TasksIInv, TasksInv, TasksTypeOK
    <2>4. call'[c] = [call[c] EXCEPT !.at = "checked"] /\ call[c] \in TaskTx
      BY <2>1 DEF TasksIInv, TasksInv, TasksTypeOK
    <2>5. /\ call' \in [Callers -> TaskTx] /\ call'[c].at = "checked"
          /\ call'[c].op = call[c].op /\ call'[c].src = call[c].src /\ call'[c].dst = call[c].dst
      BY <2>1, <2>4 DEF TasksIInv, TasksInv, TasksTypeOK, TaskTx
    <2>6. Created' = Created
      BY <2>2 DEF Created
    <2>7. call[c].op \in {"link", "substep"} /\ c \in depLock
      BY <2>1 DEF TasksIInv, TasksInv, TasksTypeOK, ChecksHold
    <2>8. call[c].op = "link" => ~Reaches(deps, call[c].dst, call[c].src)
      BY <1>6 DEF CheckCycle, WouldCycle
    <2>9. TasksTypeOK'
      BY <2>2, <2>3, <2>5, <2>6, <2>7 DEF TasksIInv, TasksInv, TasksTypeOK
    <2>10. ChecksHold' /\ Acyclic'
      BY <2>2, <2>3, <2>5, <2>7, <2>8 DEF TasksIInv, TasksInv, ChecksHold, Acyclic
    <2>11. ChangesFit'
      BY <2>2, <2>3, <2>5 DEF TasksIInv, ChangesFit, StillAt
    <2> QED BY <2>9, <2>10, <2>11 DEF TasksIInv, TasksInv
  <1>7. ASSUME NEW c \in Callers, RefuseCycle(c) \/ Rollback(c) PROVE TasksIInv'
    BY <1>7, EndKeeps DEF RefuseCycle, Rollback
  <1>8. ASSUME NEW c \in Callers, CommitLink(c) PROVE TasksIInv'
    <2> DEFINE s == call[c].src
               d == call[c].dst
    <2>1. call[c].at = "checked" /\ call[c].op = "link" /\ Ends(c)
      BY <1>8 DEF CommitLink
    <2>2. deps' = deps \cup {<<s, d>>} /\ UNCHANGED <<task, changes>>
      BY <1>8 DEF CommitLink
    <2>3. s \in Created /\ d \in Created /\ s \in TaskIds /\ d \in TaskIds
      BY <2>1 DEF TasksIInv, TasksInv, TasksTypeOK, Created
    <2>4. deps \in SUBSET (TaskIds \X TaskIds) /\ ~Reaches(deps, d, s)
      BY <2>1 DEF TasksIInv, TasksInv, TasksTypeOK, ChecksHold
    <2>5. \A e \in deps : ~Reaches(deps, e[2], e[1])
      BY DEF TasksIInv, TasksInv, Acyclic
    <2> HIDE DEF s, d
    <2>6. \A e \in deps \cup {<<s, d>>} : ~Reaches(deps \cup {<<s, d>>}, e[2], e[1])
      BY <2>3, <2>4, <2>5, SafeEdge
    <2>7. Acyclic'
      BY <2>2, <2>6 DEF Acyclic
    <2>8. Created' = Created
      BY <2>2 DEF Created
    <2>9. deps' \in SUBSET (TaskIds \X TaskIds) /\ \A e \in deps' : e[1] \in Created /\ e[2] \in Created
      BY <2>2, <2>3 DEF TasksIInv, TasksInv, TasksTypeOK
    <2>10. /\ task' \in [TaskIds -> [status : TaskStatuses \cup {"none"}, ver : Nat]]
           /\ Created \subseteq Created' /\ \A u \in Created : task'[u] = task[u]
           /\ \A e \in deps' : e[1] \in Created' /\ e[2] \in Created'
      BY <2>2, <2>8, <2>9 DEF TasksIInv, TasksInv, TasksTypeOK
    <2>11. UNCHANGED changes
      BY <2>2
    <2>12. TasksTypeOK' /\ ChecksHold' /\ ChangesFit'
      BY <2>1, <2>9, <2>10, <2>11, EndRest
    <2> QED BY <2>7, <2>12 DEF TasksIInv, TasksInv
  <1>9. ASSUME NEW c \in Callers, CommitSubstep(c) PROVE TasksIInv'
    <2> DEFINE s == call[c].src
    <2>1. call[c].at = "checked" /\ call[c].op = "substep" /\ Ends(c) /\ UNCHANGED changes
      BY <1>9 DEF CommitSubstep
    <2>2. PICK t \in FreeIds : task' = [task EXCEPT ![t] = NewTask] /\ deps' = deps \cup {<<s, t>>}
      BY <1>9 DEF CommitSubstep, NextIds
    <2>3. s \in Created /\ s \in TaskIds /\ t \in TaskIds /\ s # t
      BY <2>1 DEF TasksIInv, TasksInv, TasksTypeOK, Created, FreeIds
    <2>4. /\ task' \in [TaskIds -> [status : TaskStatuses \cup {"none"}, ver : Nat]]
          /\ Created' = Created \cup {t}
          /\ \A u \in Created : task'[u] = task[u]
          /\ \A e \in deps : e[1] # t
      BY <2>2, CreateKeeps
    <2>5. deps \in SUBSET (TaskIds \X TaskIds) /\ \A e \in deps : ~Reaches(deps, e[2], e[1])
      BY DEF TasksIInv, TasksInv, TasksTypeOK, Acyclic
    <2> HIDE DEF s
    <2>6. ~Reaches(deps, t, s)
      BY <2>3, <2>4, FreshEnd
    <2>7. \A e \in deps \cup {<<s, t>>} : ~Reaches(deps \cup {<<s, t>>}, e[2], e[1])
      BY <2>3, <2>5, <2>6, SafeEdge
    <2>8. Acyclic'
      BY <2>2, <2>7 DEF Acyclic
    <2>9. deps' \in SUBSET (TaskIds \X TaskIds)
             /\ \A e \in deps' : e[1] \in Created' /\ e[2] \in Created'
      BY <2>2, <2>3, <2>4 DEF TasksIInv, TasksInv, TasksTypeOK
    <2>10. TasksTypeOK' /\ ChecksHold' /\ ChangesFit'
      BY <2>1, <2>4, <2>9, EndRest
    <2> QED BY <2>8, <2>10 DEF TasksIInv, TasksInv
  <1>10. ASSUME NEW c \in Callers, CommitStatusSet(c) PROVE TasksIInv'
    <2> DEFINE t == call[c].src
    <2>1. call[c].at = "update" /\ Ends(c) /\ UNCHANGED deps
      BY <1>10 DEF CommitStatusSet
    <2>2. CASE StillAt(t, call[c].ver)
      <3>1. /\ task' = [task EXCEPT ![t] = [status |-> call[c].to, ver |-> task[t].ver + 1]]
            /\ changes' = changes + 1
        BY <1>10, <2>2 DEF CommitStatusSet, StillAt
      <3>2. t \in Created /\ t \in TaskIds /\ call[c].to \in TaskStatuses
        BY <2>1 DEF TasksIInv, TasksInv, TasksTypeOK, Created
      <3> HIDE DEF t
      <3>3. QED
        BY <2>1, <3>1, <3>2, ChangeKeeps
    <2>3. CASE ~StillAt(t, call[c].ver)
      <3>1. UNCHANGED <<task, deps>> /\ changes' = changes
        BY <1>10, <2>3 DEF CommitStatusSet
      <3> QED BY <2>1, <3>1, EndKeeps
    <2> QED BY <2>2, <2>3
  <1>11. CASE UNCHANGED taskVars
    <2>1. UNCHANGED <<task, deps, depLock, call, changes>>
      BY <1>11 DEF taskVars
    <2>2. Created' = Created
      BY <2>1 DEF Created
    <2>3. TasksTypeOK'
      BY <2>1, <2>2 DEF TasksIInv, TasksInv, TasksTypeOK
    <2>4. ChecksHold' /\ Acyclic' /\ ChangesFit'
      BY <2>1 DEF TasksIInv, TasksInv, ChecksHold, Acyclic, ChangesFit, StillAt
    <2> QED BY <2>3, <2>4 DEF TasksIInv, TasksInv
  <1> QED BY <1>1, <1>2, <1>3, <1>4, <1>5, <1>6, <1>7, <1>8, <1>9, <1>10, <1>11
          DEF TasksNext, Proceed

----------------------------------------------------------------------------
(* What task_next has to offer *)

(* A set of natural numbers has a smallest one.                             *)
LEMMA Smallest ==
    ASSUME NEW S, S \subseteq Nat, S # {}
    PROVE  \E n \in S : \A k \in S : n <= k
  <1>1. PICK n \in S : \A k \in S : ~(<<k, n>> \in OpToRel(<, Nat))
    BY NatLessThanWellFounded, WFMin
  <1>2. \A k \in S : ~(k < n)
    BY <1>1 DEF OpToRel
  <1>3. \A k \in S : n <= k
    BY <1>2
  <1> QED BY <1>3

\* The tasks below t: those it depends on, directly or not, and itself.
Below(t) == {u \in TaskIds : Reaches(deps, t, u)}

(* A dependency has fewer tasks below it: it reaches what its dependent     *)
(* reaches, and not the dependent itself.                                   *)
LEMMA DependenciesAreLower ==
    ASSUME TasksTypeOK, Acyclic, NEW t \in TaskIds, NEW d \in TaskIds, <<t, d>> \in deps
    PROVE  Cardinality(Below(d)) < Cardinality(Below(t))
  <1>1. Reaches(deps, t, t) /\ ~Reaches(deps, d, t)
    BY DEF Acyclic, Reaches
  <1>2. \A u \in TaskIds : Reaches(deps, d, u) => Reaches(deps, t, u)
    BY DEF Reaches, Closed
  <1>3. Below(d) \subseteq Below(t) /\ Below(d) # Below(t)
    BY <1>1, <1>2 DEF Below
  <1>4. IsFiniteSet(Below(t)) /\ IsFiniteSet(Below(d))
    <2>1. IsFiniteSet(TaskIds)
      BY TaskBounds, FS_Interval DEF TaskIds
    <2> QED BY <2>1, FS_Subset DEF Below
  <1>5. /\ Cardinality(Below(d)) <= Cardinality(Below(t))
        /\ Cardinality(Below(d)) # Cardinality(Below(t))
    BY <1>3, <1>4, FS_Subset
  <1>6. Cardinality(Below(d)) \in Nat /\ Cardinality(Below(t)) \in Nat
    BY <1>4, FS_CardinalityType
  <1> QED BY <1>5, <1>6

(* ORDER BY priority, created_at, id LIMIT 1 finds a row if there is one.   *)
LEMMA NextOfReady ==
    ASSUME Ready # {}
    PROVE  NextTask # {}
  <1>1. Ready \subseteq TaskIds /\ TaskIds \subseteq Nat /\ \A t \in TaskIds : Priority[t] \in Nat
    BY TaskPriorities DEF Ready, TaskIds
  <1>2. PICK p \in {Priority[t] : t \in Ready} : \A q \in {Priority[t] : t \in Ready} : p <= q
    BY <1>1, Smallest
  <1>3. PICK t \in {u \in Ready : Priority[u] = p} : \A u \in {u \in Ready : Priority[u] = p} : t <= u
    <2>1. {u \in Ready : Priority[u] = p} # {} /\ {u \in Ready : Priority[u] = p} \subseteq Nat
      BY <1>1, <1>2
    <2> QED BY <2>1, Smallest
  <1>4. ASSUME NEW u \in Ready
        PROVE  Priority[t] < Priority[u] \/ (Priority[t] = Priority[u] /\ t <= u)
    <2>1. p <= Priority[u] /\ p \in Nat /\ Priority[u] \in Nat
      BY <1>1, <1>2
    <2> QED BY <1>3, <2>1
  <1>5. t \in NextTask
    BY <1>3, <1>4 DEF NextTask
  <1> QED BY <1>5

(* A pending task with the fewest tasks below it waits for none.            *)
LEMMA SomeTaskIsReady ==
    ASSUME TasksInv
    PROVE  PendingWorkIsOffered
  <1> DEFINE Pending == {t \in TaskIds : task[t].status = "pending"}
             Sizes == {Cardinality(Below(t)) : t \in Pending}
  <1> SUFFICES ASSUME Pending # {},
                      \A t \in Created : task[t].status \in TerminalDep \cup {"pending"}
               PROVE  NextTask # {}
    BY DEF PendingWorkIsOffered
  <1>1. TasksTypeOK /\ Acyclic
    BY DEF TasksInv
  <1>2. \A t \in TaskIds : Cardinality(Below(t)) \in Nat
    <2>1. IsFiniteSet(TaskIds)
      BY TaskBounds, FS_Interval DEF TaskIds
    <2>2. \A t \in TaskIds : IsFiniteSet(Below(t))
      BY <2>1, FS_Subset DEF Below
    <2> QED BY <2>2, FS_CardinalityType
  <1>3. PICK n \in Sizes : \A k \in Sizes : n <= k
    <2>1. Sizes \subseteq Nat /\ Sizes # {}
      BY <1>2
    <2> HIDE DEF Sizes
    <2> QED BY <2>1, Smallest
  <1>4. PICK t \in Pending : n = Cardinality(Below(t))
    OBVIOUS
  <1>5. ASSUME NEW d \in TaskIds, <<t, d>> \in deps PROVE task[d].status \in TerminalDep
    <2>1. d \in Created
      BY <1>1, <1>5 DEF TasksTypeOK
    <2>2. d \notin Pending
      <3>1. SUFFICES ASSUME d \in Pending PROVE FALSE
        OBVIOUS
      <3>2. Cardinality(Below(d)) < Cardinality(Below(t))
        BY <1>1, <1>5, DependenciesAreLower
      <3>3. Cardinality(Below(t)) <= Cardinality(Below(d))
        BY <1>3, <1>4, <3>1
      <3> QED BY <1>2, <3>2, <3>3
    <2> QED BY <2>1, <2>2
  <1>6. t \in Ready
    BY <1>4, <1>5 DEF Ready, OpenDeps
  <1> QED BY <1>6, NextOfReady

----------------------------------------------------------------------------
(* Theorems *)

(* Dependencies of tasks never form a cycle, whatever calls of              *)
(* task_dep_link, task_substep and relation_link run at once: the advisory  *)
(* lock of the env makes the check of would_cycle hold until the insert.    *)
THEOREM DependenciesStayAcyclic == TasksSpec => []TasksInv
  <1>1. TasksIInv => TasksInv
    BY DEF TasksIInv
  <1> QED BY TasksInitInv, TasksNextInv, <1>1, PTL DEF TasksSpec

(* A status change that commits is a legal one of the status the task has   *)
(* at that moment, though it was checked against an earlier read: the       *)
(* version in the WHERE clause of task_status_set.                          *)
THEOREM StatusChangesAreLegal == TasksSpec => TaskMovesAreLegal
  <1>1. TasksIInv /\ [TasksNext]_taskVars => [MovesLegally]_taskVars
    <2> SUFFICES ASSUME TasksIInv, TasksNext PROVE MovesLegally
      BY DEF MovesLegally, taskVars
    <2>1. CASE TaskCreate
      <3>1. PICK t \in FreeIds : task' = [task EXCEPT ![t] = NewTask]
        BY <2>1 DEF TaskCreate, NextIds
      <3>2. \A u \in Created : task'[u] = task[u]
        BY <3>1, CreateKeeps
      <3> QED BY <3>2 DEF MovesLegally, ValidChange
    <2>2. CASE \E c \in Callers : CommitSubstep(c)
      <3>1. PICK c \in Callers, t \in FreeIds : task' = [task EXCEPT ![t] = NewTask]
        BY <2>2 DEF CommitSubstep, NextIds
      <3>2. \A u \in Created : task'[u] = task[u]
        BY <3>1, CreateKeeps
      <3> QED BY <3>2 DEF MovesLegally, ValidChange
    <2>3. ASSUME NEW c \in Callers, CommitStatusSet(c), StillAt(call[c].src, call[c].ver)
          PROVE  MovesLegally
      <3> DEFINE t == call[c].src
      <3>1. /\ call[c].at = "update"
            /\ task' = [task EXCEPT ![t] = [status |-> call[c].to, ver |-> task[t].ver + 1]]
        BY <2>3 DEF CommitStatusSet, StillAt
      <3>2. t \in Created /\ t \in TaskIds /\ ValidChange(task[t].status, call[c].to)
        BY <2>3, <3>1 DEF TasksIInv, TasksInv, TasksTypeOK, ChangesFit, Created
      <3> HIDE DEF t
      <3>3. \A u \in TaskIds : u # t => task'[u] = task[u]
        BY <3>1, <3>2 DEF TasksIInv, TasksInv, TasksTypeOK
      <3>4. task'[t] = [status |-> call[c].to, ver |-> task[t].ver + 1]
        BY <3>1, <3>2 DEF TasksIInv, TasksInv, TasksTypeOK
      <3>5. task'[t].status = call[c].to /\ task'[t].ver = task[t].ver + 1
        BY <3>4
      <3> QED BY <3>2, <3>3, <3>5 DEF MovesLegally, ValidChange, Created
    <2>4. CASE UNCHANGED task
      BY <2>4 DEF MovesLegally, ValidChange
    <2> QED BY <2>1, <2>2, <2>3, <2>4
            DEF TasksNext, Proceed, BeginSubstep, BeginDepLink, BeginStatusSet, AcquireDepLock,
                CheckCycle, RefuseCycle, CommitLink, CommitStatusSet, Rollback
  <1> QED BY TasksInitInv, TasksNextInv, <1>1, PTL DEF TasksSpec, TaskMovesAreLegal

(* While nothing is in progress or blocked, task_next offers a pending task *)
(* as long as there is one: an acyclic graph of dependencies has a lowest   *)
(* pending task.                                                            *)
THEOREM WorkIsOffered == TasksSpec => []PendingWorkIsOffered
  <1>1. TasksInv => PendingWorkIsOffered
    BY SomeTaskIsReady
  <1> QED BY <1>1, DependenciesStayAcyclic, PTL
============================================================================
