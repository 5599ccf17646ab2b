---------------------------- MODULE MemoryStore ----------------------------
(***************************************************************************)
(* The canonical store of memories (memories.py) under concurrent callers. *)
(*                                                                         *)
(* A tool call is a READ COMMITTED transaction that reads rows without     *)
(* locks, decides, and writes later: a Begin step and a Commit step, with   *)
(* the commits of other calls in between.  The commit step re-reads what   *)
(* the statements of the call re-read, and meets the constraints of the    *)
(* tables: the check on superseded_by, the foreign keys of superseded_by   *)
(* (RESTRICT) and lineage (CASCADE), the version trigger, and the unique   *)
(* (aggregate, version) of the outbox.  Bodies, tags, audit rows and envs  *)
(* are left out: no guard below depends on them.                           *)
(***************************************************************************)
EXTENDS Naturals, FiniteSets

CONSTANTS
    MaxMemories,    \* bound: memory ids handed out
    MaxVersion,     \* bound: versions of one memory
    Clients,        \* concurrent callers
    Tools,          \* the tools they call, a subset of AllTools
    Patches,        \* statuses a memory_update may ask for
    CopyLineage,    \* what callers pass for copy_lineage, a subset of BOOLEAN
    Imported,       \* ids that an import left behind: rows without events
    MaxDepth,       \* max_cascade_depth
    MaxCount        \* max_cascade_count

AllTools == {"write", "update", "supersede", "copy", "move", "move_delete",
             "hard_delete", "cascade"}
Memories == 1..MaxMemories
None == 0
Statuses == {"proposed", "active", "stale", "archived", "superseded", "retired"}

ASSUME StoreBounds == /\ MaxMemories \in Nat /\ MaxVersion \in Nat
                      /\ MaxDepth \in Nat /\ MaxCount \in Nat
ASSUME ToolsAssumption == Tools \subseteq AllTools /\ Patches \subseteq Statuses
ASSUME ImportedAssumption == Imported \subseteq Memories

VARIABLES
    row,        \* row[m]: status, version and superseded_by; also "unused", "gone"
    lineage,    \* memory_lineage: pairs <<parent, child>>
    nodes,      \* memories that have a row in graph_nodes
    events,     \* outbox rows of memories
    tx,         \* tx[c]: the call c has begun and not finished
    failed      \* callers whose last call ended in a database error, which no
                \* tool declares

tables == <<row, lineage, nodes, events>>
storeVars == <<row, lineage, nodes, events, tx, failed>>

Rows == [status : Statuses \cup {"unused", "gone"}, ver : Nat, sup : Memories \cup {None}]
Unused == [status |-> "unused", ver |-> 0, sup |-> None]
Fresh == [status |-> "active", ver |-> 1, sup |-> None]
NoCall == [tool |-> "none"]

----------------------------------------------------------------------------
(* Lifecycle *)

Transitions ==
    [proposed   |-> {"active", "retired"},
     active     |-> {"stale", "archived", "superseded", "retired"},
     stale      |-> {"active", "archived", "superseded", "retired"},
     archived   |-> {"active", "superseded", "retired"},
     superseded |-> {"retired"},
     retired    |-> {}]

\* Mutant: no transition is refused.
IsValidTransition_Any(s, t) == TRUE

IsValidTransition(s, t) == s = t \/ t \in Transitions[s]

\* Mutant: archived memories count as visible.
OpFor_ShowArchived(s) ==
    IF s \in {"proposed", "active", "stale", "archived"} THEN "upsert" ELSE "tombstone"

\* _outbox_op_for; "update" is an upsert to every handler.
OpFor(s) == IF s \in {"proposed", "active", "stale"} THEN "upsert" ELSE "tombstone"

----------------------------------------------------------------------------
(* The tables and their constraints *)

Live == {m \in Memories : row[m].status \in Statuses}

Room == \E m \in Memories : row[m] = Unused
NextId == CHOOSE m \in Memories : row[m] = Unused

Event(m, v, op) == [agg |-> m, ver |-> v, op |-> op]

\* Mutant: an outbox without UNIQUE(aggregate_type, aggregate_id, version).
Taken_Never(m, v) == FALSE

Taken(m, v) == \E e \in events : e.agg = m /\ e.ver = v

StatusCheck(r) == r.status = "superseded" <=> r.sup # None

\* Mutant: superseded_by without a foreign key.
Holders_None(m) == {}

\* Rows whose superseded_by is m: the foreign key forbids deleting m.
Holders(m) == {n \in Live : row[n].sup = m}

\* Mutant: the guard forgets memory_lineage.
Referenced_NotLineage(m) == Holders(m) # {} \/ m \in nodes

\* _ensure_memory_hard_delete_allowed raises.
Referenced(m) == \/ \E p \in lineage : p[1] = m \/ p[2] = m
                 \/ Holders(m) # {}
                 \/ m \in nodes

\* Deleting the rows S: lineage and graph_nodes cascade.
Delete(S) ==
    /\ row' = [m \in Memories |->
                 IF m \in S /\ m \in Live
                 THEN [status |-> "gone", ver |-> row[m].ver, sup |-> None] ELSE row[m]]
    /\ lineage' = {p \in lineage : p[1] \notin S /\ p[2] \notin S}
    /\ nodes' = nodes \ S

\* The deleted row's last version, for its tombstone.
TombstoneVersion(v) == v + 1

----------------------------------------------------------------------------
(* Calls *)

Begin(c, call) == /\ tx[c] = NoCall
                  /\ call.tool \in Tools
                  /\ tx' = [tx EXCEPT ![c] = call]
                  /\ UNCHANGED <<tables, failed>>

Return(c) == tx' = [tx EXCEPT ![c] = NoCall] /\ failed' = failed \ {c}

\* An exception leaves session_scope and everything is rolled back: an error
\* the tool declares, or one of the database.
Refuse(c) == Return(c) /\ UNCHANGED tables
Fail(c) == /\ tx' = [tx EXCEPT ![c] = NoCall]
           /\ failed' = failed \cup {c}
           /\ UNCHANGED tables

\* The row is still the one the call read, under its expected_version.
Current(t) == t.id \in Live /\ row[t.id].ver = t.ver

\* memory_write: one insert, with a graph node if it has entity links.
MemoryWrite(c) ==
    /\ tx[c] = NoCall /\ "write" \in Tools /\ Room
    /\ row' = [row EXCEPT ![NextId] = Fresh]
    /\ \E linked \in BOOLEAN : nodes' = IF linked THEN nodes \cup {NextId} ELSE nodes
    /\ events' = events \cup {Event(NextId, 1, OpFor("active"))}
    /\ failed' = failed \ {c}
    /\ UNCHANGED <<lineage, tx>>

\* memory_update, memory_archive, memory_retire up to the UPDATE.
BeginUpdate(c, m) ==
    /\ row[m].ver < MaxVersion
    /\ \E to \in Patches \cup {row[m].status} :
          /\ IsValidTransition(row[m].status, to)
          /\ Begin(c, [tool |-> "update", id |-> m, ver |-> row[m].ver, to |-> to])

CommitUpdate(c) ==
    LET t == tx[c]
        new == [status |-> t.to, ver |-> t.ver + 1, sup |-> row[t.id].sup]
        meetsConstraints == StatusCheck(new) /\ ~Taken(t.id, new.ver)
    IN  /\ t.tool = "update"
        /\ \/ ~Current(t) /\ Refuse(c)
           \/ Current(t) /\ ~meetsConstraints /\ Fail(c)
           \/ /\ Current(t) /\ meetsConstraints
              /\ row' = [row EXCEPT ![t.id] = new]
              /\ events' = events \cup {Event(t.id, new.ver, OpFor(new.status))}
              /\ Return(c) /\ UNCHANGED <<lineage, nodes>>

\* memory_supersede up to its first write.
BeginSupersede(c, m) ==
    /\ row[m].ver < MaxVersion
    /\ IsValidTransition(row[m].status, "superseded")
    /\ Begin(c, [tool |-> "supersede", id |-> m, ver |-> row[m].ver])

\* Two events in one transaction: the heir's first and the old row's last.
CommitSupersede(c) ==
    LET t == tx[c]
    IN  /\ t.tool = "supersede"
        /\ \/ ~Current(t) /\ Refuse(c)
           \/ Current(t) /\ Taken(t.id, t.ver + 1) /\ Fail(c)
           \/ /\ Current(t) /\ ~Taken(t.id, t.ver + 1) /\ Room
              /\ row' = [row EXCEPT ![NextId] = Fresh,
                                    ![t.id] = [status |-> "superseded",
                                               ver |-> t.ver + 1, sup |-> NextId]]
              /\ lineage' = lineage \cup {<<t.id, NextId>>}
              /\ events' = events \cup {Event(NextId, 1, OpFor("active")),
                                        Event(t.id, t.ver + 1, OpFor("superseded"))}
              /\ Return(c) /\ UNCHANGED nodes

\* _copy_memory_in_session reads the source, whatever its status.
BeginCopy(c, m) ==
    \E tool \in {"copy", "move", "move_delete"},
       edge \in BOOLEAN, all \in CopyLineage :
        /\ tool = "copy" \/ row[m].ver < MaxVersion
        /\ Begin(c, [tool |-> tool, id |-> m, ver |-> row[m].ver,
                     edge |-> edge,     \* create_lineage_edge
                     all  |-> all])     \* copy_lineage

\* The lineage of the copy n of t.id.
EdgesOfCopy(t, n) ==
    (IF t.edge THEN {<<t.id, n>>} ELSE {})
      \cup (IF t.all THEN {<<n, p[2]>> : p \in {q \in lineage : q[1] = t.id}}
                            \cup {<<p[1], n>> : p \in {q \in lineage : q[2] = t.id}}
            ELSE {})

\* mem_copy; the new edge needs its source (foreign key).
CommitCopy(c) ==
    LET t == tx[c]
        sourceMissing == t.edge /\ t.id \notin Live
    IN  /\ t.tool = "copy"
        /\ \/ sourceMissing /\ Fail(c)
           \/ /\ ~sourceMissing /\ Room
              /\ row' = [row EXCEPT ![NextId] = Fresh]
              /\ lineage' = lineage \cup EdgesOfCopy(t, NextId)
              /\ events' = events \cup {Event(NextId, 1, OpFor("active"))}
              /\ Return(c) /\ UNCHANGED nodes

\* mem_move, redirect_source: the source is updated by id alone; only the
\* trigger, a missing row and the outbox can stop it.
CommitMove(c) ==
    LET t == tx[c]
        stopped == \/ t.id \notin Live
                   \/ row[t.id].ver > t.ver + 1
                   \/ Taken(t.id, t.ver + 1)
    IN  /\ t.tool = "move"
        /\ \/ stopped /\ Fail(c)
           \/ /\ ~stopped /\ Room
              /\ row' = [row EXCEPT ![NextId] = Fresh,
                                    ![t.id] = [status |-> "superseded",
                                               ver |-> t.ver + 1, sup |-> NextId]]
              /\ lineage' = lineage \cup EdgesOfCopy(t, NextId)
              /\ events' = events \cup {Event(NextId, 1, OpFor("active")),
                                        Event(t.id, t.ver + 1, OpFor("superseded"))}
              /\ Return(c) /\ UNCHANGED nodes

\* mem_move, redirect_source = False: the guard sees the copy's own edges, and
\* the tombstone takes the version of the row itself.
CommitMoveDelete(c) ==
    LET t == tx[c]
        sourceMissing == t.edge /\ t.id \notin Live
        refs == Referenced(t.id) \/ t.edge
    IN  /\ t.tool = "move_delete"
        /\ \/ sourceMissing /\ Fail(c)
           \/ ~sourceMissing /\ refs /\ Refuse(c)
           \/ ~sourceMissing /\ ~refs /\ Taken(t.id, t.ver) /\ Fail(c)
           \/ /\ ~sourceMissing /\ ~refs /\ ~Taken(t.id, t.ver) /\ Room
              /\ row' = [row EXCEPT ![NextId] = Fresh,
                                    ![t.id] = IF t.id \in Live
                                              THEN [status |-> "gone", ver |-> @.ver,
                                                    sup |-> None] ELSE @]
              /\ lineage' = lineage \cup EdgesOfCopy(t, NextId)
              /\ events' = events \cup {Event(NextId, 1, OpFor("active")),
                                        Event(t.id, t.ver, "tombstone")}
              /\ Return(c) /\ UNCHANGED nodes

\* memory_hard_delete without cascade: the row is read, then the guard, ...
BeginHardDelete(c, m) ==
    Begin(c, [tool |-> "hard_delete", id |-> m, ver |-> row[m].ver, guarded |-> FALSE])

GuardHardDelete(c) ==
    LET t == tx[c]
    IN  /\ t.tool = "hard_delete" /\ ~t.guarded
        /\ \/ Referenced(t.id) /\ Refuse(c)
           \/ /\ ~Referenced(t.id)
              /\ tx' = [tx EXCEPT ![c] = [tool |-> "hard_delete", id |-> t.id, ver |-> t.ver,
                                           guarded |-> TRUE]]
              /\ UNCHANGED <<tables, failed>>

\* ... then the tombstone event and the DELETE, which re-checks nothing.
CommitHardDelete(c) ==
    LET t == tx[c]
        stopped == Taken(t.id, TombstoneVersion(t.ver)) \/ Holders(t.id) # {}
    IN  /\ t.tool = "hard_delete" /\ t.guarded
        /\ \/ stopped /\ Fail(c)
           \/ /\ ~stopped
              /\ Delete({t.id})
              /\ events' = events \cup {Event(t.id, TombstoneVersion(t.ver), "tombstone")}
              /\ Return(c)

\* Memories derived from one of S: children in the lineage, and what S supersedes.
Dependents(S) ==
    {n \in Live : \E p \in S : <<p, n>> \in lineage \/ row[n].sup = p}

\* Rounds(m)[k]: what the breadth-first search has visited at depth k.
Rounds(m) ==
    LET visited[k \in 0..MaxMemories] ==
            IF k = 0 THEN {m} ELSE visited[k - 1] \cup Dependents(visited[k - 1])
    IN  visited

DepthOf(m, x) == CHOOSE k \in 0..MaxMemories :
                    x \in Rounds(m)[k] /\ \A j \in 0..(k - 1) : x \notin Rounds(m)[j]

\* First transaction of a cascade: collect what depends on m, within the caps.
PlanCascade(c, m) ==
    LET affected == {x \in Live : x \in Rounds(m)[MaxMemories]}
    IN  /\ \A x \in affected : DepthOf(m, x) <= MaxDepth
        /\ Cardinality(affected) <= MaxCount
        /\ Begin(c, [tool |-> "cascade", id |-> m,
                     plan |-> [x \in affected |->
                                 [ver |-> row[x].ver, depth |-> DepthOf(m, x)]]])

\* Second transaction: lock, check and delete each row, the deepest first and
\* rows of one depth in the order of their random ids.
CommitCascade(c) ==
    LET t == tx[c]
        plan == DOMAIN t.plan
        stale == \E x \in plan : x \notin Live \/ row[x].ver # t.plan[x].ver
        taken == \E x \in plan : Taken(x, TombstoneVersion(t.plan[x].ver))
        \* x is still there, and holds y, when y is deleted
        holds(x, y) == row[x].sup = y /\ (x \in plan => t.plan[x].depth < t.plan[y].depth)
        mayHold(x, y) == row[x].sup = y /\ (x \in plan => t.plan[x].depth <= t.plan[y].depth)
    IN  /\ t.tool = "cascade"
        /\ \/ stale /\ Refuse(c)
           \/ /\ ~stale /\ (taken \/ \E x \in Live, y \in plan : mayHold(x, y))
              /\ Fail(c)
           \/ /\ ~stale /\ ~taken /\ ~\E x \in Live, y \in plan : holds(x, y)
              /\ Delete(plan)
              /\ events' = events \cup
                   {Event(x, TombstoneVersion(t.plan[x].ver), "tombstone") : x \in plan}
              /\ Return(c)

----------------------------------------------------------------------------
StoreInit ==
    /\ row \in [Memories -> [status : Statuses \ {"superseded"}, ver : {1}, sup : {None}]
                              \cup {Unused}]
    /\ \A m \in Memories : row[m] = Unused <=> m \notin Imported
    /\ lineage = {} /\ nodes = {} /\ events = {}
    /\ tx = [c \in Clients |-> NoCall]
    /\ failed = {}

BeginCall(c) ==
    \/ MemoryWrite(c)
    \/ \E m \in Live : \/ BeginUpdate(c, m)
                       \/ BeginSupersede(c, m)
                       \/ BeginCopy(c, m)
                       \/ BeginHardDelete(c, m)
                       \/ PlanCascade(c, m)

CommitCall(c) ==
    \/ CommitUpdate(c)    \/ CommitSupersede(c)
    \/ CommitCopy(c)      \/ CommitMove(c)       \/ CommitMoveDelete(c)
    \/ GuardHardDelete(c) \/ CommitHardDelete(c) \/ CommitCascade(c)

StoreNext == \E c \in Clients : BeginCall(c) \/ CommitCall(c)

StoreSpec == StoreInit /\ [][StoreNext]_storeVars

----------------------------------------------------------------------------
(* Properties *)

(* Rows, lineage and events have their types; a row is superseded exactly   *)
(* when it names an heir, and the heir and both ends of a lineage edge      *)
(* exist.                                                                   *)
StoreTypeOK ==
    /\ row \in [Memories -> Rows]
    /\ lineage \subseteq Live \X Live
    /\ nodes \subseteq Live
    /\ events \subseteq [agg : Memories, ver : Nat \ {0}, op : {"upsert", "tombstone"}]
    /\ \A m \in Live : /\ row[m].status = "superseded" <=> row[m].sup # None
                       /\ row[m].sup # None => row[m].sup \in Live \ {m}
    /\ failed \subseteq Clients

(* The outbox tells the whole history of a row: one event for each version  *)
(* that a call committed, without a gap, and the last one shows the row if  *)
(* it is to be seen and buries it if it is hidden or gone.  It is what the  *)
(* workers rely on, who never look at the row.                              *)
HistoryIsComplete ==
    \A m \in Memories :
        LET mine == {e \in events : e.agg = m}
            last(e) == \A f \in mine : f.ver <= e.ver
        IN  /\ m \notin Imported /\ row[m] # Unused => \E e \in mine : e.ver = 1
            /\ \A e, f \in mine : e.ver = f.ver => e = f
            /\ \A e \in mine : last(e) \/ \E f \in mine : f.ver = e.ver + 1
            /\ \A e \in mine : last(e) =>
                  /\ e.op = "upsert" <=> row[m].status \in {"proposed", "active", "stale"}
                  /\ m \in Live => e.ver = row[m].ver

(* No update is lost: whatever changes a row moves it to the next version,  *)
(* although mem_move updates by id alone.                                   *)
VersionCountsChanges ==
    [][\A m \in Memories :
          row[m] # row'[m] /\ m \in Live /\ m \in Live' => row'[m].ver = row[m].ver + 1]_storeVars

(* The lifecycle matrix holds for every path that changes a status.         *)
TransitionsAreLegal ==
    [][\A m \in Memories :
          m \in Live /\ m \in Live' /\ row'[m].status # row[m].status
             => row'[m].status \in Transitions[row[m].status]]_storeVars

(* Hard deletes leave no orphan: an edge disappears only with the memory    *)
(* derived by it.  The guard refuses what others cite, a cascade takes the  *)
(* derived memories along.                                                  *)
NoOrphanedMemory ==
    [][\A p \in lineage \ lineage' : p[2] \notin Live']_storeVars

(* A call that nobody interferes with ends in success or in an error it     *)
(* declares, never in a violated constraint.                                *)
NoDatabaseError == failed = {}
============================================================================
