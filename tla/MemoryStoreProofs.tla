-------------------------- MODULE MemoryStoreProofs --------------------------
(***************************************************************************)
(* Proofs about MemoryStore, for any number of memories, versions, callers *)
(* and cascades, and any set of tools but where a theorem says otherwise;  *)
(* and about EnvOps, for any environments and operations.                  *)
(*                                                                         *)
(* A call carries what it read into a later step.  What keeps the tables   *)
(* sound is that what it read stays a lower bound: rows are never handed   *)
(* out again and versions never fall (CallsKnow), and that a version above *)
(* the first always has its event, so that the unique key of the outbox    *)
(* stops whoever comes late (VersionsHaveEvents).                          *)
(***************************************************************************)
EXTENDS MemoryStore, EnvOps, FiniteSetTheorems, TLAPS

----------------------------------------------------------------------------
(* The inductive invariant *)

Used(m) == row[m].status # "unused"

\* A row the call read at version v.
Known(m, v) == m \in Memories /\ v \in Nat \ {0} /\ Used(m) /\ v <= row[m].ver

OneRowTools == {"update", "supersede", "copy", "move", "move_delete", "hard_delete"}

CallKnows(t) ==
    /\ t.tool \in OneRowTools => Known(t.id, t.ver)
    /\ t.tool = "update" => t.to \in Statuses
    /\ t.tool = "cascade" => \A x \in DOMAIN t.plan : Known(x, t.plan[x].ver)

CallsKnow == /\ tx = [c \in Clients |-> tx[c]]
             /\ \A c \in Clients : CallKnows(tx[c])

VersionsHaveEvents ==
    \A m \in Memories : /\ Used(m) => row[m].ver >= 1
                        /\ m \in Live => \A v \in 2..row[m].ver : Taken(m, v)

StoreInv == StoreTypeOK /\ VersionsHaveEvents /\ CallsKnow

\* No step forgets a row or takes a version back.
Grows == \A m \in Memories : Used(m) => Used(m)' /\ row[m].ver <= row'[m].ver

----------------------------------------------------------------------------
(* Calls *)

(* The statuses of a row are neither "unused" nor "gone".                   *)
LEMMA LiveFacts ==
    ASSUME NEW m
    PROVE  /\ m \in Live <=> m \in Memories /\ row[m].status \in Statuses
           /\ m \in Live => Used(m)
  BY DEF Live, Used, Statuses

(* Every row has a version that counts.                                     *)
LEMMA RowFacts ==
    ASSUME StoreTypeOK, NEW m \in Memories
    PROVE  row[m] \in Rows /\ row[m].ver \in Nat
  <1>1. row[m] \in Rows
    BY DEF StoreTypeOK
  <1> QED BY <1>1 DEF Rows

(* An id that is handed out belongs to no row.                              *)
LEMMA NextIdIsFree == Room => NextId \in Memories /\ row[NextId] = Unused
  BY DEF Room, NextId

(* What a call has read stays true of it while rows only grow.              *)
LEMMA KnowledgeLasts ==
    ASSUME StoreInv, StoreTypeOK', Grows, NEW t, CallKnows(t)
    PROVE  CallKnows(t)'
  <1>1. \A m, v : Known(m, v) => Known(m, v)'
    <2> SUFFICES ASSUME NEW m, NEW v, Known(m, v) PROVE Known(m, v)'
      OBVIOUS
    <2>1. row[m].ver \in Nat /\ row'[m].ver \in Nat
      <3>1. m \in Memories
        BY DEF Known
      <3>2. row[m].ver \in Nat
        BY <3>1, RowFacts DEF StoreInv
      <3>3. row'[m] \in Rows
        BY <3>1 DEF StoreTypeOK
      <3> QED BY <3>2, <3>3 DEF Rows
    <2> QED BY <2>1 DEF Known, Grows
  <1> QED BY <1>1 DEF CallKnows

(* One call moves on, to something it knows; the others stay.               *)
LEMMA CallMovesOn ==
    ASSUME StoreInv, StoreTypeOK', Grows, NEW c \in Clients, NEW call,
           CallKnows(call)', tx' = [tx EXCEPT ![c] = call]
    PROVE  CallsKnow'
  <1>1. tx' = [d \in Clients |-> tx'[d]]
    BY DEF StoreInv, CallsKnow
  <1>2. ASSUME NEW d \in Clients PROVE CallKnows(tx[d])'
    <2>1. CASE d = c
      <3>1. tx'[d] = call
        BY <2>1 DEF StoreInv, CallsKnow
      <3> QED BY <3>1 DEF CallKnows, Known, Used
    <2>2. CASE d # c
      <3>1. PICK t : t = tx[d]
        OBVIOUS
      <3>2. tx'[d] = t
        BY <2>2, <3>1 DEF StoreInv, CallsKnow
      <3>3. CallKnows(t)
        BY <3>1 DEF StoreInv, CallsKnow
      <3>4. CallKnows(t)'
        BY <3>3, KnowledgeLasts
      <3> QED BY <3>2, <3>4 DEF CallKnows, Known, Used
    <2> QED BY <2>1, <2>2
  <1> QED BY <1>1, <1>2 DEF CallsKnow

(* session_scope ends the call.                                             *)
LEMMA CallEnds ==
    ASSUME StoreInv, StoreTypeOK', VersionsHaveEvents', Grows, NEW c \in Clients,
           tx' = [tx EXCEPT ![c] = NoCall]
    PROVE  StoreInv'
  <1>1. CallKnows(NoCall)'
    BY DEF CallKnows, NoCall, OneRowTools
  <1> QED BY <1>1, CallMovesOn DEF StoreInv

(* A call that touches no table, but may begin, go on or fail.              *)
LEMMA TablesUnchanged ==
    ASSUME StoreInv, UNCHANGED tables, failed' \subseteq Clients
    PROVE  StoreTypeOK' /\ VersionsHaveEvents' /\ Grows
  <1>1. row' = row /\ lineage' = lineage /\ nodes' = nodes /\ events' = events
    BY DEF tables
  <1>2. Live' = Live
    BY <1>1 DEF Live
  <1>3. \A m, v : Taken(m, v)' <=> Taken(m, v)
    BY <1>1 DEF Taken
  <1>4. Grows
    BY <1>1, RowFacts DEF Grows, Used, StoreInv
  <1> QED BY <1>1, <1>2, <1>3, <1>4 DEF StoreInv, StoreTypeOK, VersionsHaveEvents, Used

(* A call begins with what it has just read.                                *)
LEMMA CallBegins ==
    ASSUME StoreInv, NEW c \in Clients, NEW call, CallKnows(call), Begin(c, call)
    PROVE  StoreInv'
  <1>1. StoreTypeOK' /\ VersionsHaveEvents' /\ Grows
    BY TablesUnchanged DEF Begin, StoreInv, StoreTypeOK
  <1>2. CallKnows(call)'
    BY <1>1, KnowledgeLasts
  <1> QED BY <1>1, <1>2, CallMovesOn DEF Begin, StoreInv

----------------------------------------------------------------------------
(* What a commit does to the tables *)

(* A new row, and edges and nodes of rows that exist (memory_write,         *)
(* mem_copy).                                                               *)
LEMMA Creating ==
    ASSUME StoreInv, Room, failed' \subseteq Clients,
           row' = [row EXCEPT ![NextId] = Fresh],
           lineage' \subseteq (Live \cup {NextId}) \X (Live \cup {NextId}),
           nodes' \subseteq Live \cup {NextId},
           events' = events \cup {Event(NextId, 1, OpFor("active"))}
    PROVE  StoreTypeOK' /\ VersionsHaveEvents' /\ Grows
  <1>1. PICK n : n = NextId
    OBVIOUS
  <1>2. n \in Memories /\ row[n] = Unused /\ ~Used(n) /\ n \notin Live
    BY <1>1, NextIdIsFree, LiveFacts DEF Unused, Used
  <1>3. row' = [row EXCEPT ![n] = Fresh] /\ events' = events \cup {Event(n, 1, OpFor("active"))}
    BY <1>1
  <1>3a. Fresh \in Rows
    BY DEF Fresh, Statuses, Rows
  <1>4. row' \in [Memories -> Rows]
    BY <1>2, <1>3, <1>3a DEF StoreInv, StoreTypeOK
  <1>5. \A m \in Memories : row'[m] = IF m = n THEN Fresh ELSE row[m]
    BY <1>2, <1>3 DEF StoreInv, StoreTypeOK
  <1>6. Live' = Live \cup {n}
    BY <1>2, <1>5 DEF Live, Fresh, Statuses
  <1>7. events' \subseteq [agg : Memories, ver : Nat \ {0}, op : {"upsert", "tombstone"}]
    BY <1>2, <1>3 DEF StoreInv, StoreTypeOK, Event, OpFor
  <1>8. StoreTypeOK'
    <2>1. n # None
      BY <1>2, StoreBounds DEF Memories, None
    <2>2. \A m \in Live' : /\ row'[m].status = "superseded" <=> row'[m].sup # None
                           /\ row'[m].sup # None => row'[m].sup \in Live' \ {m}
      BY <1>2, <1>5, <1>6 DEF StoreInv, StoreTypeOK, Fresh, Live, Statuses
    <2> QED BY <1>1, <1>4, <1>6, <1>7, <2>2 DEF StoreTypeOK
  <1>9. Grows
    BY <1>2, <1>5, RowFacts DEF Grows, Used, StoreInv
  <1>10. VersionsHaveEvents'
    <2>1. \A m \in Memories : \A v : Taken(m, v) => Taken(m, v)'
      BY <1>3 DEF Taken
    <2>2. ASSUME NEW m \in Memories
          PROVE  /\ Used(m)' => row'[m].ver >= 1
                 /\ m \in Live' => \A v \in 2..row'[m].ver : Taken(m, v)'
      <3>1. CASE m = n
        BY <3>1, <1>5 DEF Fresh
      <3>2. CASE m # n
        BY <3>2, <1>5, <1>6, <2>1 DEF StoreInv, VersionsHaveEvents, Used
      <3> QED BY <3>1, <3>2
    <2> QED BY <2>2 DEF VersionsHaveEvents
  <1> QED BY <1>8, <1>9, <1>10

(* A row changes under its next version, with the event of that version     *)
(* (memory_update).                                                         *)
LEMMA Updating ==
    ASSUME StoreInv, NEW id \in Live, NEW to \in Statuses, NEW r, r = row[id], failed' \subseteq Clients,
           row' = [row EXCEPT ![id] = [status |-> to, ver |-> r.ver + 1, sup |-> r.sup]],
           to = "superseded" <=> r.sup # None,
           lineage' = lineage, nodes' = nodes,
           events' = events \cup {Event(id, r.ver + 1, OpFor(to))}
    PROVE  StoreTypeOK' /\ VersionsHaveEvents' /\ Grows
  <1>1. id \in Memories /\ Used(id)
    BY LiveFacts
  <1>2. r \in Rows /\ r.ver \in Nat
    BY <1>1 DEF StoreInv, StoreTypeOK, Rows
  <1> DEFINE new == [status |-> to, ver |-> r.ver + 1, sup |-> r.sup]
  <1>3. /\ new \in Rows
        /\ new.status = to /\ new.ver = r.ver + 1 /\ new.sup = r.sup
    BY <1>2 DEF Rows
  <1>4. \A m \in Memories : row'[m] = IF m = id THEN new ELSE row[m]
    BY <1>1 DEF StoreInv, StoreTypeOK
  <1> HIDE DEF new
  <1>5. row' \in [Memories -> Rows]
    BY <1>1, <1>3 DEF StoreInv, StoreTypeOK, new
  <1>6. Live' = Live
    BY <1>1, <1>3, <1>4 DEF Live
  <1>7. events' \subseteq [agg : Memories, ver : Nat \ {0}, op : {"upsert", "tombstone"}]
    BY <1>1, <1>2 DEF StoreInv, StoreTypeOK, Event, OpFor
  <1>8. StoreTypeOK'
    <2>1. \A m \in Live' : /\ row'[m].status = "superseded" <=> row'[m].sup # None
                           /\ row'[m].sup # None => row'[m].sup \in Live' \ {m}
      BY <1>1, <1>3, <1>4, <1>6, LiveFacts DEF StoreInv, StoreTypeOK
    <2> QED BY <1>5, <1>6, <1>7, <2>1 DEF StoreInv, StoreTypeOK
  <1>9. Grows
    BY <1>1, <1>2, <1>3, <1>4, RowFacts DEF Grows, Used, StoreInv, Statuses
  <1>10. VersionsHaveEvents'
    <2>1. \A m \in Memories : \A v : Taken(m, v) => Taken(m, v)'
      BY DEF Taken
    <2>2. Taken(id, r.ver + 1)'
      <3> DEFINE e == Event(id, r.ver + 1, OpFor(to))
      <3>1. e \in events' /\ e.agg = id /\ e.ver = r.ver + 1
        BY DEF Event
      <3> QED BY <3>1 DEF Taken
    <2>3. ASSUME NEW m \in Memories
          PROVE  /\ Used(m)' => row'[m].ver >= 1
                 /\ m \in Live' => \A v \in 2..row'[m].ver : Taken(m, v)'
      <3>1. CASE m = id
        <4>1. row'[m].ver = r.ver + 1 /\ r.ver \in Nat
          BY <3>1, <1>2, <1>3, <1>4
        <4>2. ASSUME NEW v \in 2..row'[m].ver PROVE Taken(m, v)'
          <5>1. CASE v = r.ver + 1
            BY <5>1, <2>2, <3>1
          <5>2. CASE v # r.ver + 1
            <6>1. v \in 2..r.ver
              BY <5>2, <4>1
            <6> QED BY <6>1, <2>1, <3>1 DEF StoreInv, VersionsHaveEvents
          <5> QED BY <5>1, <5>2
        <4> QED BY <4>1, <4>2
      <3>2. CASE m # id
        BY <3>2, <1>4, <1>6, <2>1 DEF StoreInv, VersionsHaveEvents, Used
      <3> QED BY <3>1, <3>2
    <2> QED BY <2>3 DEF VersionsHaveEvents
  <1> QED BY <1>8, <1>9, <1>10

(* A row is superseded by a new one, both with their events                 *)
(* (memory_supersede, mem_move).                                            *)
LEMMA Replacing ==
    ASSUME StoreInv, Room, NEW id \in Live, NEW v, v = row[id].ver + 1, failed' \subseteq Clients,
           row' = [row EXCEPT ![NextId] = Fresh,
                              ![id] = [status |-> "superseded", ver |-> v, sup |-> NextId]],
           lineage' \subseteq (Live \cup {NextId}) \X (Live \cup {NextId}),
           nodes' = nodes,
           events' = events \cup {Event(NextId, 1, OpFor("active")),
                                  Event(id, v, OpFor("superseded"))}
    PROVE  StoreTypeOK' /\ VersionsHaveEvents' /\ Grows
  <1>1. PICK n : n = NextId
    OBVIOUS
  <1>2. /\ n \in Memories /\ row[n] = Unused /\ ~Used(n) /\ n \notin Live
        /\ id \in Memories /\ Used(id) /\ id # n
    BY <1>1, NextIdIsFree, LiveFacts DEF Unused, Used
  <1>3. row[id].ver \in Nat /\ v \in Nat \ {0}
    BY <1>2, RowFacts DEF StoreInv
  <1> DEFINE old == [status |-> "superseded", ver |-> v, sup |-> n]
  <1>4. /\ Fresh \in Rows /\ Fresh.status = "active" /\ Fresh.sup = None /\ Fresh.ver = 1
        /\ old \in Rows /\ old.status = "superseded" /\ old.ver = v /\ old.sup = n
    BY <1>2, <1>3 DEF Fresh, Statuses, Rows
  <1>5. /\ row'[n] = Fresh /\ row'[id] = old
        /\ \A m \in Memories \ {n, id} : row'[m] = row[m]
    BY <1>1, <1>2 DEF StoreInv, StoreTypeOK
  <1>6. row' \in [Memories -> Rows]
    BY <1>1, <1>2, <1>4 DEF StoreInv, StoreTypeOK
  <1> HIDE DEF old
  <1>7. Live' = Live \cup {n}
    <2>1. n \in Live' /\ id \in Live'
      BY <1>2, <1>4, <1>5 DEF Live, Statuses
    <2>2. ASSUME NEW m \in Memories, m # n, m # id
          PROVE  m \in Live' <=> m \in Live
      <3>1. row'[m] = row[m]
        BY <2>2, <1>5
      <3> QED BY <2>2, <3>1 DEF Live
    <2>3. Live' \subseteq Memories /\ Live \subseteq Memories
      BY DEF Live
    <2> QED BY <2>1, <2>2, <2>3
  <1>8. events' \subseteq [agg : Memories, ver : Nat \ {0}, op : {"upsert", "tombstone"}]
    BY <1>1, <1>2, <1>3 DEF StoreInv, StoreTypeOK, Event, OpFor
  <1>9. StoreTypeOK'
    <2>1. n # None
      BY <1>2, StoreBounds DEF Memories, None
    <2>2. \A m \in Live' : /\ row'[m].status = "superseded" <=> row'[m].sup # None
                           /\ row'[m].sup # None => row'[m].sup \in Live' \ {m}
      BY <1>2, <1>4, <1>5, <1>7, <2>1, LiveFacts DEF StoreInv, StoreTypeOK
    <2> QED BY <1>1, <1>6, <1>7, <1>8, <2>2 DEF StoreInv, StoreTypeOK
  <1>10. Grows
    <2>1. row'[id].status # "unused" /\ row[id].ver <= row'[id].ver
      BY <1>3, <1>4, <1>5
    <2>2. ASSUME NEW m \in Memories, Used(m)
          PROVE  Used(m)' /\ row[m].ver <= row'[m].ver
      <3>1. CASE m = id
        BY <2>1, <3>1 DEF Used
      <3>2. CASE m # id
        <4>1. row'[m] = row[m]
          BY <1>2, <1>5, <2>2, <3>2
        <4> QED BY <2>2, <4>1, RowFacts DEF Used, StoreInv
      <3> QED BY <3>1, <3>2
    <2> QED BY <2>2 DEF Grows
  <1>11. VersionsHaveEvents'
    <2>1. \A m \in Memories : \A w : Taken(m, w) => Taken(m, w)'
      BY DEF Taken
    <2>2. Taken(id, v)'
      <3> DEFINE e == Event(id, v, OpFor("superseded"))
      <3>1. e \in events' /\ e.agg = id /\ e.ver = v
        BY DEF Event
      <3> QED BY <3>1 DEF Taken
    <2>3. ASSUME NEW m \in Memories
          PROVE  /\ Used(m)' => row'[m].ver >= 1
                 /\ m \in Live' => \A w \in 2..row'[m].ver : Taken(m, w)'
      <3>1. CASE m = n
        <4>1. row'[m].ver = 1
          BY <3>1, <1>4, <1>5
        <4>2. ASSUME NEW w \in 2..1 PROVE Taken(m, w)'
          OBVIOUS
        <4>3. 1 >= 1
          OBVIOUS
        <4> QED BY <4>1, <4>2, <4>3
      <3>2. CASE m = id
        <4>1. row'[m].ver = v
          BY <3>2, <1>2, <1>4, <1>5
        <4>2. ASSUME NEW w \in 2..v PROVE Taken(m, w)'
          <5>1. CASE w = v
            BY <5>1, <2>2, <3>2
          <5>2. CASE w # v
            <6>1. w \in 2..row[id].ver
              BY <5>2, <1>3
            <6> QED BY <6>1, <1>2, <2>1, <3>2 DEF StoreInv, VersionsHaveEvents
          <5> QED BY <5>1, <5>2
        <4>3. v >= 1
          BY <1>3
        <4> QED BY <4>1, <4>2, <4>3
      <3>3. CASE m # id /\ m # n
        BY <3>3, <1>5, <1>7, <2>1 DEF StoreInv, VersionsHaveEvents, Used
      <3> QED BY <3>1, <3>2, <3>3
    <2> QED BY <2>3 DEF VersionsHaveEvents
  <1> QED BY <1>9, <1>10, <1>11

(* Rows that no other row names as its heir go, with their edges and nodes  *)
(* (memory_hard_delete).                                                    *)
LEMMA Deleting ==
    ASSUME StoreInv, NEW S \in SUBSET Memories, Delete(S), failed' \subseteq Clients,
           \A m \in Live \ S : row[m].sup \notin S,
           events \subseteq events',
           events' \subseteq [agg : Memories, ver : Nat \ {0}, op : {"upsert", "tombstone"}]
    PROVE  StoreTypeOK' /\ VersionsHaveEvents' /\ Grows
  <1> DEFINE gone(m) == [status |-> "gone", ver |-> row[m].ver, sup |-> None]
  <1>1. \A m \in Memories : row'[m] = IF m \in S /\ m \in Live THEN gone(m) ELSE row[m]
    BY DEF Delete
  <1>2. \A m \in Memories : /\ gone(m) \in Rows /\ gone(m).status = "gone"
                            /\ gone(m).ver = row[m].ver
    BY RowFacts DEF Rows, StoreInv
  <1>3. row' \in [Memories -> Rows]
    <2>1. \A m \in Memories : row'[m] \in Rows
      BY <1>1, <1>2, RowFacts DEF StoreInv
    <2>2. row' = [m \in Memories |-> row'[m]]
      BY DEF Delete
    <2> QED BY <2>1, <2>2
  <1> HIDE DEF gone
  <1>4. Live' = Live \ S
    BY <1>1, <1>2 DEF Live, Statuses
  <1>5. StoreTypeOK'
    <2>1. \A m \in Live' : /\ row'[m].status = "superseded" <=> row'[m].sup # None
                           /\ row'[m].sup # None => row'[m].sup \in Live' \ {m}
      BY <1>1, <1>4, LiveFacts DEF StoreInv, StoreTypeOK
    <2>2. lineage' \subseteq Live' \X Live' /\ nodes' \subseteq Live'
      BY <1>4 DEF Delete, StoreInv, StoreTypeOK
    <2> QED BY <1>3, <2>1, <2>2 DEF StoreTypeOK
  <1>6. Grows
    BY <1>1, <1>2, RowFacts DEF Grows, Used, StoreInv
  <1>7. VersionsHaveEvents'
    <2>1. \A m \in Memories : \A v : Taken(m, v) => Taken(m, v)'
      BY DEF Taken
    <2>2. \A m \in Live : Used(m)
      BY LiveFacts
    <2> QED BY <1>1, <1>2, <1>4, <2>1, <2>2 DEF StoreInv, VersionsHaveEvents, Used
  <1> QED BY <1>5, <1>6, <1>7

----------------------------------------------------------------------------
(* The invariant *)

(* A call that is refused or fails changes nothing.                         *)
LEMMA CallStops ==
    ASSUME StoreInv, NEW c \in Clients, Refuse(c) \/ Fail(c)
    PROVE  StoreInv'
  <1>1. /\ UNCHANGED tables /\ failed' \subseteq Clients
        /\ tx' = [tx EXCEPT ![c] = NoCall]
    BY DEF Refuse, Fail, Return, StoreInv, StoreTypeOK
  <1>2. StoreTypeOK' /\ VersionsHaveEvents' /\ Grows
    BY <1>1, TablesUnchanged
  <1> QED BY <1>1, <1>2, CallEnds

(* Every begin step records what it read of rows that exist.                *)
LEMMA Beginning ==
    ASSUME StoreInv, NEW c \in Clients, NEW m \in Live,
           \/ BeginUpdate(c, m)     \/ BeginSupersede(c, m) \/ BeginCopy(c, m)
           \/ BeginHardDelete(c, m) \/ PlanCascade(c, m)
    PROVE  StoreInv'
  <1>1. PICK v : v = row[m].ver
    OBVIOUS
  <1>2. \A x \in Live : Known(x, row[x].ver)
    BY LiveFacts, RowFacts DEF Known, StoreInv, VersionsHaveEvents
  <1>3. Known(m, v)
    BY <1>1, <1>2
  <1>4. CASE BeginUpdate(c, m)
    <2>1. PICK to \in Patches \cup {row[m].status} :
             Begin(c, [tool |-> "update", id |-> m, ver |-> v, to |-> to])
      BY <1>1, <1>4 DEF BeginUpdate
    <2>2. to \in Statuses
      BY ToolsAssumption, LiveFacts
    <2> DEFINE call == [tool |-> "update", id |-> m, ver |-> v, to |-> to]
    <2>3. CallKnows(call)
      BY <1>3, <2>2 DEF CallKnows
    <2> QED BY <2>1, <2>3, CallBegins
  <1>5. CASE BeginSupersede(c, m)
    <2> DEFINE call == [tool |-> "supersede", id |-> m, ver |-> v]
    <2>1. CallKnows(call)
      BY <1>3 DEF CallKnows
    <2> QED BY <1>1, <1>5, <2>1, CallBegins DEF BeginSupersede
  <1>6. CASE BeginCopy(c, m)
    <2>1. PICK tool \in {"copy", "move", "move_delete"},
               edge \in BOOLEAN, all \in CopyLineage :
             Begin(c, [tool |-> tool, id |-> m, ver |-> v, edge |-> edge, all |-> all])
      BY <1>1, <1>6 DEF BeginCopy
    <2> DEFINE call == [tool |-> tool, id |-> m, ver |-> v, edge |-> edge, all |-> all]
    <2>2. CallKnows(call)
      BY <1>3 DEF CallKnows
    <2> QED BY <2>1, <2>2, CallBegins
  <1>7. CASE BeginHardDelete(c, m)
    <2> DEFINE call == [tool |-> "hard_delete", id |-> m, ver |-> v, guarded |-> FALSE]
    <2>1. CallKnows(call)
      BY <1>3 DEF CallKnows
    <2> QED BY <1>1, <1>7, <2>1, CallBegins DEF BeginHardDelete
  <1>8. CASE PlanCascade(c, m)
    <2>1. PICK call : /\ Begin(c, call)
                      /\ call.tool = "cascade"
                      /\ \A x \in DOMAIN call.plan : x \in Live /\ call.plan[x].ver = row[x].ver
      BY <1>8 DEF PlanCascade
    <2>2. CallKnows(call)
      BY <1>2, <2>1 DEF CallKnows, OneRowTools
    <2> QED BY <2>1, <2>2, CallBegins
  <1> QED BY <1>4, <1>5, <1>6, <1>7, <1>8

(* Edges of a copy join rows that exist, the new one included.              *)
LEMMA CopyEdgesExist ==
    ASSUME StoreInv, NEW t, NEW n, t.edge => t.id \in Live
    PROVE  EdgesOfCopy(t, n) \subseteq (Live \cup {n}) \X (Live \cup {n})
  <1>1. \A q \in lineage : q[1] \in Live /\ q[2] \in Live
    BY DEF StoreInv, StoreTypeOK
  <1> QED BY <1>1 DEF EdgesOfCopy

(* memory_write.                                                            *)
LEMMA Writing ==
    ASSUME StoreInv, NEW c \in Clients, MemoryWrite(c)
    PROVE  StoreInv'
  <1>1. /\ nodes' \subseteq Live \cup {NextId}
        /\ lineage' \subseteq (Live \cup {NextId}) \X (Live \cup {NextId})
        /\ failed' \subseteq Clients
    BY DEF MemoryWrite, StoreInv, StoreTypeOK
  <1>2. StoreTypeOK' /\ VersionsHaveEvents' /\ Grows
    BY <1>1, Creating DEF MemoryWrite
  <1>3. tx' = [tx EXCEPT ![c] = NoCall]
    BY DEF MemoryWrite, StoreInv, CallsKnow
  <1> QED BY <1>2, <1>3, CallEnds

(* memory_update.                                                           *)
LEMMA CommittingUpdate ==
    ASSUME StoreInv, NEW c \in Clients, CommitUpdate(c)
    PROVE  StoreInv'
  <1>1. PICK t : t = tx[c]
    OBVIOUS
  <1>2. CallKnows(t) /\ t.tool = "update"
    BY <1>1 DEF StoreInv, CallsKnow, CommitUpdate
  <1>3. CASE Refuse(c) \/ Fail(c)
    BY <1>3, CallStops
  <1>4. CASE ~(Refuse(c) \/ Fail(c))
    <2>1. /\ Current(t)
          /\ t.to = "superseded" <=> row[t.id].sup # None
          /\ row' = [row EXCEPT ![t.id] = [status |-> t.to, ver |-> t.ver + 1,
                                           sup |-> row[t.id].sup]]
          /\ events' = events \cup {Event(t.id, t.ver + 1, OpFor(t.to))}
          /\ Return(c) /\ UNCHANGED <<lineage, nodes>>
      BY <1>1, <1>4 DEF CommitUpdate, StatusCheck
    <2>2. PICK id, to, r : id = t.id /\ to = t.to /\ r = row[id]
      OBVIOUS
    <2>3. id \in Live /\ to \in Statuses /\ r.ver = t.ver
      BY <1>2, <2>1, <2>2 DEF CallKnows, Current
    <2>4. failed' \subseteq Clients
      BY <2>1 DEF Return, StoreInv, StoreTypeOK
    <2>5. StoreTypeOK' /\ VersionsHaveEvents' /\ Grows
      BY <2>1, <2>2, <2>3, <2>4, Updating
    <2> QED BY <2>1, <2>5, CallEnds DEF Return
  <1> QED BY <1>3, <1>4

(* memory_supersede.                                                        *)
LEMMA CommittingSupersede ==
    ASSUME StoreInv, NEW c \in Clients, CommitSupersede(c)
    PROVE  StoreInv'
  <1>1. PICK t : t = tx[c]
    OBVIOUS
  <1>2. CASE Refuse(c) \/ Fail(c)
    BY <1>2, CallStops
  <1>3. CASE ~(Refuse(c) \/ Fail(c))
    <2>1. PICK id, v : id = t.id /\ v = t.ver + 1
      OBVIOUS
    <2>2. /\ id \in Live /\ v = row[id].ver + 1 /\ Room
          /\ row' = [row EXCEPT ![NextId] = Fresh,
                                ![id] = [status |-> "superseded", ver |-> v, sup |-> NextId]]
          /\ lineage' = lineage \cup {<<id, NextId>>}
          /\ events' = events \cup {Event(NextId, 1, OpFor("active")),
                                    Event(id, v, OpFor("superseded"))}
          /\ Return(c) /\ nodes' = nodes
      BY <1>1, <1>3, <2>1 DEF CommitSupersede, Current
    <2>3. /\ lineage' \subseteq (Live \cup {NextId}) \X (Live \cup {NextId})
          /\ failed' \subseteq Clients
      BY <2>2 DEF Return, StoreInv, StoreTypeOK
    <2>4. StoreTypeOK' /\ VersionsHaveEvents' /\ Grows
      BY <2>2, <2>3, Replacing
    <2> QED BY <2>2, <2>4, CallEnds DEF Return
  <1> QED BY <1>2, <1>3

(* mem_copy.                                                                *)
LEMMA CommittingCopy ==
    ASSUME StoreInv, NEW c \in Clients, CommitCopy(c)
    PROVE  StoreInv'
  <1>1. PICK t : t = tx[c]
    OBVIOUS
  <1>2. CASE Refuse(c) \/ Fail(c)
    BY <1>2, CallStops
  <1>3. CASE ~(Refuse(c) \/ Fail(c))
    <2>1. /\ t.edge => t.id \in Live
          /\ Room /\ row' = [row EXCEPT ![NextId] = Fresh]
          /\ lineage' = lineage \cup EdgesOfCopy(t, NextId)
          /\ events' = events \cup {Event(NextId, 1, OpFor("active"))}
          /\ Return(c) /\ nodes' = nodes
      BY <1>1, <1>3 DEF CommitCopy
    <2>2. PICK n : n = NextId
      OBVIOUS
    <2>3. lineage' \subseteq (Live \cup {NextId}) \X (Live \cup {NextId})
      BY <2>1, <2>2, CopyEdgesExist DEF StoreInv, StoreTypeOK
    <2>4. nodes' \subseteq Live \cup {NextId} /\ failed' \subseteq Clients
      BY <2>1 DEF Return, StoreInv, StoreTypeOK
    <2>5. StoreTypeOK' /\ VersionsHaveEvents' /\ Grows
      BY <2>1, <2>3, <2>4, Creating
    <2> QED BY <2>1, <2>5, CallEnds DEF Return
  <1> QED BY <1>2, <1>3

(* mem_move with a redirect: that nobody came in between is what the unique *)
(* key, the trigger and VersionsHaveEvents say together.                    *)
LEMMA MoveReadTheLastVersion ==
    ASSUME StoreInv, NEW t, CallKnows(t), t.tool = "move",
           t.id \in Live, ~(row[t.id].ver > t.ver + 1), ~Taken(t.id, t.ver + 1)
    PROVE  row[t.id].ver = t.ver
  <1>1. /\ t.id \in Memories /\ t.ver \in Nat \ {0} /\ t.ver <= row[t.id].ver
        /\ row[t.id].ver \in Nat
    BY RowFacts DEF CallKnows, Known, OneRowTools, StoreInv
  <1>2. ~(t.ver + 1 \in 2..row[t.id].ver)
    BY <1>1 DEF StoreInv, VersionsHaveEvents
  <1> QED BY <1>1, <1>2

(* mem_move with a redirect.                                                *)
LEMMA CommittingMove ==
    ASSUME StoreInv, NEW c \in Clients, CommitMove(c)
    PROVE  StoreInv'
  <1>1. PICK t : t = tx[c]
    OBVIOUS
  <1>2. CallKnows(t) /\ t.tool = "move"
    BY <1>1 DEF StoreInv, CallsKnow, CommitMove
  <1>3. CASE Refuse(c) \/ Fail(c)
    BY <1>3, CallStops
  <1>4. CASE ~(Refuse(c) \/ Fail(c))
    <2>1. PICK id, v : id = t.id /\ v = t.ver + 1
      OBVIOUS
    <2>2. /\ id \in Live /\ ~(row[id].ver > v) /\ ~Taken(id, v) /\ Room
          /\ row' = [row EXCEPT ![NextId] = Fresh,
                                ![id] = [status |-> "superseded", ver |-> v, sup |-> NextId]]
          /\ lineage' = lineage \cup EdgesOfCopy(t, NextId)
          /\ events' = events \cup {Event(NextId, 1, OpFor("active")),
                                    Event(id, v, OpFor("superseded"))}
          /\ Return(c) /\ nodes' = nodes
      BY <1>1, <1>4, <2>1 DEF CommitMove
    <2>3. v = row[id].ver + 1
      BY <1>2, <2>1, <2>2, MoveReadTheLastVersion
    <2>4. PICK n : n = NextId
      OBVIOUS
    <2>5. lineage' \subseteq (Live \cup {NextId}) \X (Live \cup {NextId})
      BY <2>1, <2>2, <2>4, CopyEdgesExist DEF StoreInv, StoreTypeOK
    <2>6. failed' \subseteq Clients
      BY <2>2 DEF Return, StoreInv, StoreTypeOK
    <2>7. StoreTypeOK' /\ VersionsHaveEvents' /\ Grows
      BY <2>2, <2>3, <2>5, <2>6, Replacing
    <2> QED BY <2>2, <2>7, CallEnds DEF Return
  <1> QED BY <1>3, <1>4

(* mem_move without a redirect: only an unreferenced source goes.           *)
LEMMA CommittingMoveDelete ==
    ASSUME StoreInv, NEW c \in Clients, CommitMoveDelete(c)
    PROVE  StoreInv'
  <1>1. PICK t : t = tx[c]
    OBVIOUS
  <1>2. CallKnows(t) /\ t.tool = "move_delete"
    BY <1>1 DEF StoreInv, CallsKnow, CommitMoveDelete
  <1>3. CASE Refuse(c) \/ Fail(c)
    BY <1>3, CallStops
  <1>4. CASE ~(Refuse(c) \/ Fail(c))
    <2>1. PICK id, v, n : id = t.id /\ v = t.ver /\ n = NextId
      OBVIOUS
    <2> DEFINE gone == [status |-> "gone", ver |-> row[id].ver, sup |-> None]
    <2>2. /\ ~t.edge /\ ~Referenced(id) /\ Room
          /\ row' = [row EXCEPT ![n] = Fresh,
                                ![id] = IF id \in Live THEN [status |-> "gone", ver |-> @.ver,
                                                             sup |-> None] ELSE @]
          /\ lineage' = lineage \cup EdgesOfCopy(t, n)
          /\ events' = events \cup {Event(n, 1, OpFor("active")), Event(id, v, "tombstone")}
          /\ Return(c) /\ nodes' = nodes
      BY <1>1, <1>4, <2>1 DEF CommitMoveDelete
    <2>3. /\ n \in Memories /\ row[n] = Unused /\ n \notin Live
          /\ id \in Memories /\ v \in Nat \ {0} /\ Used(id) /\ id # n
      BY <1>2, <2>1, <2>2, NextIdIsFree, LiveFacts
         DEF CallKnows, OneRowTools, Known, Used, Unused
    <2>4. /\ Fresh \in Rows /\ Fresh.status = "active" /\ Fresh.sup = None /\ Fresh.ver = 1
          /\ gone \in Rows /\ gone.status = "gone" /\ gone.ver = row[id].ver
      BY <2>3, RowFacts DEF Fresh, Statuses, Rows, StoreInv
    <2>5. /\ row'[n] = Fresh
          /\ row'[id] = IF id \in Live THEN gone ELSE row[id]
          /\ \A m \in Memories \ {n, id} : row'[m] = row[m]
      BY <2>2, <2>3 DEF StoreInv, StoreTypeOK
    <2>6. row' \in [Memories -> Rows]
      <3>1. row' = [m \in Memories |-> row'[m]]
        BY <2>2 DEF StoreInv, StoreTypeOK
      <3>2. \A m \in Memories : row'[m] \in Rows
        BY <2>4, <2>5, RowFacts DEF StoreInv
      <3> QED BY <3>1, <3>2
    <2> HIDE DEF gone
    <2>7. Live' = (Live \ {id}) \cup {n}
      BY <2>3, <2>4, <2>5 DEF Live, Statuses
    <2>8. lineage' = lineage /\ lineage \subseteq (Live \ {id}) \X (Live \ {id})
      <3>1. /\ \A p \in lineage : p[1] # id /\ p[2] # id
            /\ lineage \subseteq Live \X Live
        BY <2>2 DEF Referenced, StoreInv, StoreTypeOK
      <3>2. EdgesOfCopy(t, n) = {}
        BY <2>1, <2>2, <3>1 DEF EdgesOfCopy
      <3> QED BY <2>2, <3>1, <3>2
    <2>9. nodes' \subseteq Live' /\ \A m \in Live : row[m].sup # id
      BY <2>2, <2>7 DEF Referenced, Holders, StoreInv, StoreTypeOK
    <2>10. events' \subseteq [agg : Memories, ver : Nat \ {0}, op : {"upsert", "tombstone"}]
      BY <2>2, <2>3 DEF StoreInv, StoreTypeOK, Event, OpFor
    <2>11. StoreTypeOK'
      <3>1. \A m \in Live' : /\ row'[m].status = "superseded" <=> row'[m].sup # None
                             /\ row'[m].sup # None => row'[m].sup \in Live' \ {m}
        BY <2>3, <2>4, <2>5, <2>7, <2>9, LiveFacts DEF StoreInv, StoreTypeOK
      <3>2. failed' \subseteq Clients
        BY <2>2 DEF Return, StoreInv, StoreTypeOK
      <3> QED BY <2>6, <2>7, <2>8, <2>9, <2>10, <3>1, <3>2 DEF StoreTypeOK
    <2>12. Grows
      <3>1. ASSUME NEW m \in Memories, Used(m)
            PROVE  Used(m)' /\ row[m].ver <= row'[m].ver
        <4>1. m # n
          BY <2>3, <3>1 DEF Used, Unused
        <4>2. row'[m].ver = row[m].ver /\ row'[m].status # "unused"
          BY <2>4, <2>5, <3>1, <4>1 DEF Used
        <4> QED BY <4>2, RowFacts DEF Used, StoreInv
      <3> QED BY <3>1 DEF Grows
    <2>13. VersionsHaveEvents'
      <3>1. \A m \in Memories : \A w : Taken(m, w) => Taken(m, w)'
        BY <2>2 DEF Taken
      <3>2. ASSUME NEW m \in Memories
            PROVE  /\ Used(m)' => row'[m].ver >= 1
                   /\ m \in Live' => \A w \in 2..row'[m].ver : Taken(m, w)'
        <4>1. CASE m = n
          <5>1. row'[m].ver = 1
            BY <4>1, <2>4, <2>5
          <5>2. ASSUME NEW w \in 2..1 PROVE Taken(m, w)'
            OBVIOUS
          <5>3. 1 >= 1
            OBVIOUS
          <5> QED BY <5>1, <5>2, <5>3
        <4>2. CASE m = id
          <5>1. m \notin Live' /\ row'[m].ver = row[id].ver
            BY <4>2, <2>3, <2>4, <2>5, <2>7
          <5> QED BY <4>2, <5>1, <2>3 DEF StoreInv, VersionsHaveEvents
        <4>3. CASE m # n /\ m # id
          BY <4>3, <2>5, <2>7, <3>1 DEF StoreInv, VersionsHaveEvents, Used
        <4> QED BY <4>1, <4>2, <4>3
      <3> QED BY <3>2 DEF VersionsHaveEvents
    <2> QED BY <2>2, <2>11, <2>12, <2>13, CallEnds DEF Return
  <1> QED BY <1>3, <1>4

(* memory_hard_delete: the guard.                                           *)
LEMMA Guarding ==
    ASSUME StoreInv, NEW c \in Clients, GuardHardDelete(c)
    PROVE  StoreInv'
  <1>1. PICK t : t = tx[c]
    OBVIOUS
  <1>2. /\ t.tool = "hard_delete" /\ Known(t.id, t.ver)
    BY <1>1 DEF StoreInv, CallsKnow, CallKnows, OneRowTools, GuardHardDelete
  <1>3. CASE Refuse(c)
    BY <1>3, CallStops
  <1>4. CASE ~Refuse(c)
    <2> DEFINE call == [tool |-> "hard_delete", id |-> t.id, ver |-> t.ver, guarded |-> TRUE]
    <2>1. tx' = [tx EXCEPT ![c] = call] /\ UNCHANGED <<tables, failed>>
      BY <1>1, <1>4 DEF GuardHardDelete
    <2>2. CallKnows(call)
      BY <1>2 DEF CallKnows
    <2>3. StoreTypeOK' /\ VersionsHaveEvents' /\ Grows
      BY <2>1, TablesUnchanged DEF StoreInv, StoreTypeOK
    <2>4. CallKnows(call)'
      BY <2>2, <2>3, KnowledgeLasts
    <2> QED BY <2>1, <2>3, <2>4, CallMovesOn DEF StoreInv
  <1> QED BY <1>3, <1>4

(* memory_hard_delete: the DELETE.                                          *)
LEMMA CommittingHardDelete ==
    ASSUME StoreInv, NEW c \in Clients, CommitHardDelete(c)
    PROVE  StoreInv'
  <1>1. PICK t : t = tx[c]
    OBVIOUS
  <1>2. t.id \in Memories /\ t.ver \in Nat
    BY <1>1 DEF StoreInv, CallsKnow, CallKnows, OneRowTools, Known, CommitHardDelete
  <1>3. CASE Refuse(c) \/ Fail(c)
    BY <1>3, CallStops
  <1>4. CASE ~(Refuse(c) \/ Fail(c))
    <2>1. /\ Holders(t.id) = {} /\ Delete({t.id})
          /\ events' = events \cup {Event(t.id, TombstoneVersion(t.ver), "tombstone")}
          /\ Return(c)
      BY <1>1, <1>4 DEF CommitHardDelete
    <2>2. PICK id : id = t.id
      OBVIOUS
    <2>3. /\ \A m \in Live \ {id} : row[m].sup \notin {id}
          /\ failed' \subseteq Clients
      BY <2>1, <2>2 DEF Holders, Return, StoreInv, StoreTypeOK
    <2>4. events' \subseteq [agg : Memories, ver : Nat \ {0}, op : {"upsert", "tombstone"}]
      BY <1>2, <2>1 DEF StoreInv, StoreTypeOK, Event, TombstoneVersion
    <2>5. StoreTypeOK' /\ VersionsHaveEvents' /\ Grows
      BY <1>2, <2>1, <2>2, <2>3, <2>4, Deleting
    <2> QED BY <2>1, <2>5, CallEnds DEF Return
  <1> QED BY <1>3, <1>4

(* memory_hard_delete with cascade: whoever is deleted takes its holders    *)
(* along, or the foreign key stops the whole.                               *)
LEMMA CommittingCascade ==
    ASSUME StoreInv, NEW c \in Clients, CommitCascade(c)
    PROVE  StoreInv'
  <1>1. PICK t : t = tx[c]
    OBVIOUS
  <1>2. t.tool = "cascade" /\ \A x \in DOMAIN t.plan : Known(x, t.plan[x].ver)
    BY <1>1 DEF StoreInv, CallsKnow, CallKnows, CommitCascade
  <1>3. CASE Refuse(c) \/ Fail(c)
    BY <1>3, CallStops
  <1>4. CASE ~(Refuse(c) \/ Fail(c))
    <2>1. PICK plan : plan = DOMAIN t.plan
      OBVIOUS
    <2>2. /\ \A x \in Live, y \in plan : row[x].sup = y => x \in plan
          /\ Delete(plan)
          /\ events' = events \cup
               {Event(x, TombstoneVersion(t.plan[x].ver), "tombstone") : x \in plan}
          /\ Return(c)
      BY <1>1, <1>4, <2>1 DEF CommitCascade
    <2>3. plan \subseteq Memories /\ \A x \in plan : t.plan[x].ver \in Nat
      BY <1>2, <2>1 DEF Known
    <2>4. /\ \A m \in Live \ plan : row[m].sup \notin plan
          /\ failed' \subseteq Clients
      BY <2>2 DEF Return, StoreInv, StoreTypeOK
    <2>5. events' \subseteq [agg : Memories, ver : Nat \ {0}, op : {"upsert", "tombstone"}]
      BY <2>2, <2>3 DEF StoreInv, StoreTypeOK, Event, TombstoneVersion
    <2>6. StoreTypeOK' /\ VersionsHaveEvents' /\ Grows
      BY <2>2, <2>3, <2>4, <2>5, Deleting
    <2> QED BY <2>2, <2>6, CallEnds DEF Return
  <1> QED BY <1>3, <1>4

(* The tables are empty but for imported rows, and nobody has called.       *)
LEMMA InvInit == StoreInit => StoreInv
  <1> SUFFICES ASSUME StoreInit PROVE StoreInv
    OBVIOUS
  <1>1. \A m \in Memories : /\ row[m] \in Rows
                            /\ row[m] = Unused \/ row[m].ver = 1
                            /\ row[m].status # "superseded" /\ row[m].sup = None
    BY DEF StoreInit, Rows, Unused, Statuses
  <1>2. row \in [Memories -> Rows]
    <2>1. row = [m \in Memories |-> row[m]]
      BY DEF StoreInit
    <2> QED BY <1>1, <2>1
  <1>3. StoreTypeOK
    BY <1>1, <1>2 DEF StoreTypeOK, StoreInit, Live
  <1>4. VersionsHaveEvents
    BY <1>1 DEF VersionsHaveEvents, Used, Live, Unused, Statuses
  <1>5. CallsKnow
    BY DEF CallsKnow, CallKnows, StoreInit, NoCall, OneRowTools
  <1> QED BY <1>3, <1>4, <1>5 DEF StoreInv

(* Every step of every call keeps the invariant.                            *)
LEMMA InvNext == StoreInv /\ [StoreNext]_storeVars => StoreInv'
  <1> SUFFICES ASSUME StoreInv, [StoreNext]_storeVars PROVE StoreInv'
    OBVIOUS
  <1>1. ASSUME NEW c \in Clients, BeginCall(c) PROVE StoreInv'
    BY <1>1, Writing, Beginning DEF BeginCall
  <1>2. ASSUME NEW c \in Clients, CommitCall(c) PROVE StoreInv'
    BY <1>2, CommittingUpdate, CommittingSupersede, CommittingCopy, CommittingMove,
       CommittingMoveDelete, Guarding, CommittingHardDelete, CommittingCascade
       DEF CommitCall
  <1>3. CASE UNCHANGED storeVars
    <2>1. UNCHANGED tables /\ failed' \subseteq Clients /\ tx' = tx
      BY <1>3 DEF storeVars, tables, StoreInv, StoreTypeOK
    <2>2. StoreTypeOK' /\ VersionsHaveEvents' /\ Grows
      BY <2>1, TablesUnchanged
    <2>3. CallsKnow'
      BY <1>3 DEF storeVars, CallsKnow, CallKnows, Known, Used, StoreInv
    <2> QED BY <2>2, <2>3 DEF StoreInv
  <1> QED BY <1>1, <1>2, <1>3 DEF StoreNext

(* Whatever the callers do, at any number and in any order: no row names an *)
(* heir that is gone, no edge or node a row that is gone, and a row is      *)
(* superseded exactly when it names an heir.                                *)
THEOREM StoreIsSound == StoreSpec => []StoreTypeOK
  <1>1. StoreInv => StoreTypeOK
    BY DEF StoreInv
  <1> QED BY <1>1, InvInit, InvNext, PTL DEF StoreSpec

----------------------------------------------------------------------------
(* No lost update *)

\* What a step may do to the row m: an update counts, and a deleted row is gone
\* for good.
Steady(m) ==
    /\ row[m] # row'[m] /\ m \in Live /\ m \in Live' => row'[m].ver = row[m].ver + 1
    /\ Used(m) /\ m \notin Live => row'[m] = row[m]

(* Rows that a call deletes or creates are no updates.                      *)
LEMMA DeletedRowsAreGone ==
    ASSUME NEW S \in SUBSET Memories, Delete(S), NEW m \in Memories
    PROVE  Steady(m)
  <1>1. m \in S /\ m \in Live => row'[m].status = "gone"
    BY DEF Delete
  <1>2. ~(m \in S /\ m \in Live) => row'[m] = row[m]
    BY DEF Delete
  <1> QED BY <1>1, <1>2 DEF Steady, Live, Statuses

(* A commit changes a row that stays under its next version, mem_move       *)
(* included.                                                                *)
LEMMA StepsAreSteady ==
    ASSUME StoreInv, [StoreNext]_storeVars, NEW m \in Memories
    PROVE  Steady(m)
  <1>1. CASE row' = row
    BY <1>1 DEF Steady
  <1>2. CASE row' # row
    <2>1. PICK c \in Clients : BeginCall(c) \/ CommitCall(c)
      BY <1>2 DEF StoreNext, storeVars
    <2>2. ~Refuse(c) /\ ~Fail(c)
      BY <1>2 DEF Refuse, Fail, tables
    <2>3. PICK t : t = tx[c]
      OBVIOUS
    <2>4. CallKnows(t)
      BY <2>3 DEF StoreInv, CallsKnow
    <2>5. PICK n : n = NextId
      OBVIOUS
    <2>6. Room => n \in Memories /\ n \notin Live /\ ~Used(n)
      BY <2>5, NextIdIsFree, LiveFacts DEF Unused, Used
    <2>7. ASSUME Room, row' = [row EXCEPT ![n] = Fresh] PROVE Steady(m)
      <3>1. m # n => row'[m] = row[m]
        BY <2>7 DEF StoreInv, StoreTypeOK
      <3> QED BY <2>6, <2>7, <3>1 DEF Steady
    <2>8. ASSUME NEW id, NEW new, new.ver = row[id].ver + 1, id \in Live, id \in Memories,
                 id # n, Room,
                 \/ row' = [row EXCEPT ![id] = new]
                 \/ row' = [row EXCEPT ![n] = Fresh, ![id] = new]
          PROVE  Steady(m)
      <3>1. row'[id] = new /\ (m # n /\ m # id => row'[m] = row[m])
        BY <2>8 DEF StoreInv, StoreTypeOK
      <3> QED BY <2>6, <2>8, <3>1 DEF Steady
    <2>9. CASE BeginCall(c)
      <3>1. MemoryWrite(c)
        BY <1>2, <2>9 DEF BeginCall, BeginUpdate, BeginSupersede, BeginCopy,
                          BeginHardDelete, PlanCascade, Begin, tables
      <3> QED BY <2>5, <2>7, <3>1 DEF MemoryWrite
    <2>10. CASE CommitUpdate(c)
      <3>1. PICK id : id = t.id
        OBVIOUS
      <3> DEFINE new == [status |-> t.to, ver |-> t.ver + 1, sup |-> row[id].sup]
      <3>2. id \in Live /\ row[id].ver = t.ver /\ row' = [row EXCEPT ![id] = new]
        BY <2>2, <2>3, <2>10, <3>1 DEF CommitUpdate, Current
      <3>3. id \in Memories /\ row'[id] = new /\ new.ver = row[id].ver + 1
        BY <3>2, LiveFacts DEF StoreInv, StoreTypeOK
      <3>4. m # id => row'[m] = row[m]
        BY <3>2 DEF StoreInv, StoreTypeOK
      <3> HIDE DEF new
      <3> QED BY <3>2, <3>3, <3>4 DEF Steady
    <2>11. CASE CommitSupersede(c) \/ CommitMove(c)
      <3>1. PICK id : id = t.id
        OBVIOUS
      <3> DEFINE new == [status |-> "superseded", ver |-> t.ver + 1, sup |-> n]
      <3>2. /\ Room /\ id \in Live /\ row[id].ver = t.ver
            /\ row' = [row EXCEPT ![n] = Fresh, ![id] = new]
        <4>1. CASE CommitSupersede(c)
          BY <4>1, <2>2, <2>3, <2>5, <3>1 DEF CommitSupersede, Current
        <4>2. CASE CommitMove(c)
          <5>1. /\ t.tool = "move" /\ t.id \in Live /\ Room
                /\ ~(row[t.id].ver > t.ver + 1) /\ ~Taken(t.id, t.ver + 1)
                /\ row' = [row EXCEPT ![n] = Fresh, ![id] = new]
            BY <4>2, <2>2, <2>3, <2>5, <3>1 DEF CommitMove
          <5> QED BY <5>1, <2>4, <3>1, MoveReadTheLastVersion
        <4> QED BY <2>11, <4>1, <4>2
      <3>3. id \in Memories /\ id # n /\ new.ver = row[id].ver + 1
        BY <2>6, <3>2, LiveFacts
      <3> HIDE DEF new
      <3> QED BY <2>8, <3>2, <3>3
    <2>12. CASE CommitCopy(c)
      BY <2>2, <2>5, <2>7, <2>12 DEF CommitCopy
    <2>13. CASE CommitMoveDelete(c)
      <3>1. PICK id : id = t.id
        OBVIOUS
      <3>2. /\ Room
            /\ row' = [row EXCEPT ![n] = Fresh,
                                  ![id] = IF id \in Live THEN [status |-> "gone", ver |-> @.ver,
                                                               sup |-> None] ELSE @]
        BY <2>2, <2>3, <2>5, <2>13, <3>1 DEF CommitMoveDelete
      <3>3. t.tool = "move_delete"
        BY <2>3, <2>13 DEF CommitMoveDelete
      <3>4. id \in Memories /\ id # n
        BY <2>4, <2>5, <3>1, <3>2, <3>3, NextIdIsFree
           DEF CallKnows, Known, OneRowTools, Used, Unused
      <3>5. /\ m # n /\ m # id => row'[m] = row[m]
            /\ id \in Live => row'[id].status = "gone"
            /\ id \notin Live => row'[id] = row[id]
        BY <3>2, <3>4 DEF StoreInv, StoreTypeOK
      <3> QED BY <2>6, <3>2, <3>5 DEF Steady, Live, Statuses
    <2>14. CASE GuardHardDelete(c)
      BY <1>2, <2>2, <2>14 DEF GuardHardDelete, tables
    <2>15. CASE CommitHardDelete(c)
      <3>1. t.id \in Memories
        BY <2>3, <2>4, <2>15 DEF CommitHardDelete, CallKnows, Known, OneRowTools
      <3>2. PICK id : id = t.id
        OBVIOUS
      <3>3. Delete({id})
        BY <2>2, <2>3, <2>15, <3>2 DEF CommitHardDelete
      <3> QED BY <3>1, <3>2, <3>3, DeletedRowsAreGone
    <2>16. CASE CommitCascade(c)
      <3>1. PICK plan : plan = DOMAIN t.plan
        OBVIOUS
      <3>2. Delete(plan)
        BY <2>2, <2>3, <2>16, <3>1 DEF CommitCascade
      <3>3. plan \subseteq Memories
        BY <2>3, <2>4, <2>16, <3>1 DEF CommitCascade, CallKnows, Known
      <3> QED BY <3>2, <3>3, DeletedRowsAreGone
    <2> QED BY <2>1, <2>9, <2>10, <2>11, <2>12, <2>13, <2>14, <2>15, <2>16 DEF CommitCall
  <1> QED BY <1>1, <1>2

(* No update is lost: every change of a row that stays takes it to its next *)
(* version, so what changed it knew the version before.  It needs the       *)
(* events, since mem_move compares no version.                              *)
THEOREM NoLostUpdate == StoreSpec => VersionCountsChanges
  <1> DEFINE step == \A m \in Memories :
                        row[m] # row'[m] /\ m \in Live /\ m \in Live'
                          => row'[m].ver = row[m].ver + 1
  <1>1. StoreInv /\ [StoreNext]_storeVars => [step]_storeVars
    BY StepsAreSteady DEF Steady
  <1> QED BY <1>1, InvInit, InvNext, PTL DEF StoreSpec, VersionCountsChanges

----------------------------------------------------------------------------
(* Legal statuses                                                           *)

\* While the row is still the one the call read, its change is a legal one.
CallMay(t) ==
    /\ t.tool \in Tools \cup {"none"}
    /\ t.tool = "update" /\ Current(t) => IsValidTransition(row[t.id].status, t.to)
    /\ t.tool = "supersede" /\ Current(t) => IsValidTransition(row[t.id].status, "superseded")

CallsMay == \A c \in Clients : CallMay(tx[c])

(* A row whose version is the one that was read has not changed since.      *)
LEMMA CurrentRowsRested ==
    ASSUME StoreInv, [StoreNext]_storeVars, NEW m, NEW v, Known(m, v),
           m \in Live', row'[m].ver = v
    PROVE  m \in Live /\ row[m].ver = v /\ row'[m] = row[m]
  <1>1. m \in Memories /\ Used(m) /\ v \in Nat /\ v <= row[m].ver /\ row[m].ver \in Nat
    BY RowFacts DEF Known, StoreInv
  <1>2. Steady(m)
    BY <1>1, StepsAreSteady
  <1>3. row'[m] = row[m]
    <2>1. CASE m \in Live
      BY <1>1, <1>2, <2>1 DEF Steady
    <2>2. CASE m \notin Live
      BY <1>1, <1>2, <2>2 DEF Steady
    <2> QED BY <2>1, <2>2
  <1> QED BY <1>1, <1>3 DEF Live

(* What a call may do when it goes on stays allowed until it does it.       *)
LEMMA PermissionLasts ==
    ASSUME StoreInv, [StoreNext]_storeVars, NEW t, CallKnows(t), CallMay(t)
    PROVE  CallMay(t)'
  <1>1. ASSUME t.tool \in {"update", "supersede"}, Current(t)'
        PROVE  Current(t) /\ row'[t.id] = row[t.id]
    <2>1. Known(t.id, t.ver) /\ t.id \in Live' /\ row'[t.id].ver = t.ver
      BY <1>1 DEF CallKnows, OneRowTools, Current
    <2> QED BY <2>1, CurrentRowsRested DEF Current
  <1> QED BY <1>1 DEF CallMay, IsValidTransition

(* The matrix was consulted before the call began.                          *)
LEMMA CallsMayInit == StoreInit => CallsMay
  BY DEF StoreInit, CallsMay, CallMay, NoCall

LEMMA CallsMayNext ==
    ASSUME StoreInv, CallsMay, [StoreNext]_storeVars
    PROVE  CallsMay'
  <1> SUFFICES ASSUME NEW d \in Clients PROVE CallMay(tx[d])'
    BY DEF CallsMay
  <1>1. CASE tx'[d] = tx[d]
    <2>1. PICK t : t = tx[d]
      OBVIOUS
    <2>2. CallKnows(t) /\ CallMay(t)
      BY <2>1 DEF StoreInv, CallsKnow, CallsMay
    <2>3. CallMay(t)'
      BY <2>2, PermissionLasts
    <2> QED BY <1>1, <2>1, <2>3 DEF CallMay, Current
  <1>2. CASE tx'[d] # tx[d]
    <2>1. PICK c \in Clients : BeginCall(c) \/ CommitCall(c)
      BY <1>2 DEF StoreNext, storeVars
    <2>2. ASSUME NEW call, tx' = [tx EXCEPT ![c] = call] PROVE tx'[d] = call
      BY <1>2, <2>2 DEF StoreInv, CallsKnow
    <2>3. ASSUME NEW call, Begin(c, call), call.tool \notin {"update", "supersede"}
          PROVE  CallMay(tx[d])'
      BY <2>2, <2>3 DEF Begin, CallMay
    <2>4. CASE Return(c) \/ Fail(c)
      BY <2>2, <2>4 DEF Return, Fail, CallMay, NoCall
    <2>5. ASSUME NEW m \in Live, BeginUpdate(c, m) PROVE CallMay(tx[d])'
      <3>1. PICK to \in Patches \cup {row[m].status} :
               /\ IsValidTransition(row[m].status, to)
               /\ Begin(c, [tool |-> "update", id |-> m, ver |-> row[m].ver, to |-> to])
        BY <2>5 DEF BeginUpdate
      <3>2. /\ tx'[d] = [tool |-> "update", id |-> m, ver |-> row[m].ver, to |-> to]
            /\ row' = row /\ "update" \in Tools
        BY <2>2, <3>1 DEF Begin, tables
      <3> QED BY <3>1, <3>2 DEF CallMay, IsValidTransition
    <2>6. ASSUME NEW m \in Live, BeginSupersede(c, m) PROVE CallMay(tx[d])'
      <3>1. /\ IsValidTransition(row[m].status, "superseded")
            /\ Begin(c, [tool |-> "supersede", id |-> m, ver |-> row[m].ver])
        BY <2>6 DEF BeginSupersede
      <3>2. /\ tx'[d] = [tool |-> "supersede", id |-> m, ver |-> row[m].ver]
            /\ row' = row /\ "supersede" \in Tools
        BY <2>2, <3>1 DEF Begin, tables
      <3> QED BY <3>1, <3>2 DEF CallMay, IsValidTransition
    <2>7. CASE GuardHardDelete(c)
      <3>1. tx[c].tool = "hard_delete" /\ tx[c].tool \in Tools \cup {"none"}
        BY <2>7 DEF GuardHardDelete, CallsMay, CallMay
      <3>2. CASE Refuse(c)
        BY <2>4, <3>2 DEF Refuse
      <3>3. CASE ~Refuse(c)
        <4>1. tx'[d] = [tool |-> "hard_delete", id |-> tx[c].id, ver |-> tx[c].ver,
                        guarded |-> TRUE]
          BY <2>2, <2>7, <3>3 DEF GuardHardDelete
        <4> QED BY <3>1, <4>1 DEF CallMay
      <3> QED BY <3>2, <3>3
    <2>8. CASE BeginCall(c)
      <3>1. ~MemoryWrite(c)
        BY <1>2 DEF MemoryWrite
      <3>2. PICK m \in Live : \/ BeginUpdate(c, m) \/ BeginSupersede(c, m) \/ BeginCopy(c, m)
                              \/ BeginHardDelete(c, m) \/ PlanCascade(c, m)
        BY <2>8, <3>1 DEF BeginCall
      <3>3. CASE BeginCopy(c, m)
        BY <2>3, <3>3 DEF BeginCopy
      <3>4. CASE BeginHardDelete(c, m)
        BY <2>3, <3>4 DEF BeginHardDelete
      <3>5. CASE PlanCascade(c, m)
        BY <2>3, <3>5 DEF PlanCascade
      <3> QED BY <2>5, <2>6, <3>2, <3>3, <3>4, <3>5
    <2>9. CASE CommitCall(c) /\ ~GuardHardDelete(c)
      <3>1. Return(c) \/ Fail(c)
        BY <2>9 DEF CommitCall, CommitUpdate, CommitSupersede, CommitCopy, CommitMove,
                    CommitMoveDelete, CommitHardDelete, CommitCascade, Refuse
      <3> QED BY <2>4, <3>1
    <2> QED BY <2>1, <2>7, <2>8, <2>9
  <1> QED BY <1>1, <1>2

(* The only commits that change the status of a row that stays.             *)
LEMMA WhoChangesStatuses ==
    ASSUME StoreInv, CallsMay, "move" \notin Tools, [StoreNext]_storeVars,
           NEW m \in Live, m \in Live', row'[m].status # row[m].status
    PROVE  IsValidTransition(row[m].status, row'[m].status)
  <1>1. PICK c \in Clients : BeginCall(c) \/ CommitCall(c)
    BY DEF StoreNext, storeVars
  <1>2. m \in Memories /\ row'[m] # row[m] /\ row' # row
    BY DEF Live
  <1>3. ~Refuse(c) /\ ~Fail(c)
    BY <1>2 DEF Refuse, Fail, tables
  <1>4. PICK t, n : t = tx[c] /\ n = NextId
    OBVIOUS
  <1>5. CallKnows(t) /\ CallMay(t)
    BY <1>4 DEF StoreInv, CallsKnow, CallsMay
  <1>6. Room => n # m
    BY <1>4, NextIdIsFree, LiveFacts DEF Unused, Used
  <1>7. ASSUME NEW S, Delete(S) PROVE FALSE
    <2>1. row'[m] = row[m] \/ row'[m].status = "gone"
      BY <1>2, <1>7 DEF Delete
    <2> QED BY <1>2, <2>1 DEF Live, Statuses
  <1>8. ~(Room /\ row' = [row EXCEPT ![n] = Fresh])
    BY <1>2, <1>6 DEF StoreInv, StoreTypeOK
  <1>9. CASE BeginCall(c)
    <2>1. MemoryWrite(c)
      BY <1>2, <1>9 DEF BeginCall, BeginUpdate, BeginSupersede, BeginCopy,
                        BeginHardDelete, PlanCascade, Begin, tables
    <2> QED BY <1>4, <1>8, <2>1 DEF MemoryWrite
  <1>10. CASE CommitUpdate(c)
    <2>1. PICK id : id = t.id
      OBVIOUS
    <2> DEFINE new == [status |-> t.to, ver |-> t.ver + 1, sup |-> row[id].sup]
    <2>2. t.tool = "update" /\ Current(t) /\ row' = [row EXCEPT ![id] = new]
      BY <1>3, <1>4, <1>10, <2>1 DEF CommitUpdate
    <2>3. id = m /\ row'[m] = new /\ new.status = t.to
      BY <1>2, <2>2 DEF StoreInv, StoreTypeOK
    <2> HIDE DEF new
    <2> QED BY <1>5, <2>1, <2>2, <2>3 DEF CallMay
  <1>11. CASE CommitSupersede(c)
    <2>1. PICK id : id = t.id
      OBVIOUS
    <2> DEFINE new == [status |-> "superseded", ver |-> t.ver + 1, sup |-> n]
    <2>2. /\ t.tool = "supersede" /\ Current(t) /\ Room
          /\ row' = [row EXCEPT ![n] = Fresh, ![id] = new]
      BY <1>3, <1>4, <1>11, <2>1 DEF CommitSupersede
    <2>3. id = m /\ row'[m] = new /\ new.status = "superseded"
      BY <1>2, <1>6, <2>2 DEF StoreInv, StoreTypeOK
    <2> HIDE DEF new
    <2> QED BY <1>5, <2>1, <2>2, <2>3 DEF CallMay
  <1>12. CASE CommitMove(c)
    BY <1>4, <1>5, <1>12 DEF CommitMove, CallMay
  <1>13. CASE CommitCopy(c)
    BY <1>3, <1>4, <1>8, <1>13 DEF CommitCopy
  <1>14. CASE CommitMoveDelete(c)
    <2>1. PICK id : id = t.id
      OBVIOUS
    <2>2. /\ Room
          /\ row' = [row EXCEPT ![n] = Fresh,
                                ![id] = IF id \in Live THEN [status |-> "gone", ver |-> @.ver,
                                                             sup |-> None] ELSE @]
      BY <1>3, <1>4, <1>14, <2>1 DEF CommitMoveDelete
    <2>3. row'[m] = row[m] \/ row'[m].status = "gone"
      BY <1>2, <1>6, <2>2 DEF StoreInv, StoreTypeOK
    <2> QED BY <1>2, <2>3 DEF Live, Statuses
  <1>15. CASE GuardHardDelete(c)
    BY <1>2, <1>3, <1>15 DEF GuardHardDelete, tables
  <1>16. CASE CommitHardDelete(c)
    BY <1>3, <1>7, <1>16 DEF CommitHardDelete
  <1>17. CASE CommitCascade(c)
    BY <1>3, <1>7, <1>17 DEF CommitCascade
  <1> QED BY <1>1, <1>9, <1>10, <1>11, <1>12, <1>13, <1>14, <1>15, <1>16, <1>17
          DEF CommitCall

(* However many calls overlap, a status changes along the matrix only,      *)
(* although the matrix is asked before the UPDATE and not by it: the        *)
(* expected version stops a call whose answer is out of date.  mem_move     *)
(* asks no matrix and is left out.                                          *)
THEOREM StatusesStayLegal ==
    "move" \notin Tools => (StoreSpec => TransitionsAreLegal)
  <1> SUFFICES ASSUME "move" \notin Tools PROVE StoreSpec => TransitionsAreLegal
    OBVIOUS
  <1> DEFINE legal == \A m \in Memories :
                        m \in Live /\ m \in Live' /\ row'[m].status # row[m].status
                          => row'[m].status \in Transitions[row[m].status]
  <1>1. StoreInit => StoreInv /\ CallsMay
    BY InvInit, CallsMayInit
  <1>2. StoreInv /\ CallsMay /\ [StoreNext]_storeVars => StoreInv' /\ CallsMay'
    BY InvNext, CallsMayNext
  <1>3. StoreInv /\ CallsMay /\ [StoreNext]_storeVars => [legal]_storeVars
    BY WhoChangesStatuses DEF IsValidTransition
  <1> QED BY <1>1, <1>2, <1>3, PTL DEF StoreSpec, TransitionsAreLegal

----------------------------------------------------------------------------
(* What a cascade collects                                                  *)

(* A set of natural numbers has a smallest one.                             *)
LEMMA Smallest ==
    ASSUME NEW S, S \subseteq Nat, S # {}
    PROVE  \E n \in S : \A k \in S : n <= k
  <1>1. PICK n \in S : \A k \in S : ~(<<k, n>> \in OpToRel(<, Nat))
    BY NatLessThanWellFounded, WFMin
  <1>2. \A k \in S : ~(k < n)
    BY <1>1 DEF OpToRel
  <1> QED BY <1>2

\* g describes the first n rounds of the search from m.
Searched(g, m, n) ==
    g = [k \in 0..n |-> IF k = 0 THEN {m} ELSE g[k - 1] \cup Dependents(g[k - 1])]

(* The rounds are what the recursion says they are.                         *)
LEMMA RoundsUnfold == ASSUME NEW m PROVE Searched(Rounds(m), m, MaxMemories)
  <1> DEFINE bad == {n \in Nat : ~\E g : Searched(g, m, n)}
  <1>1. bad = {}
    <2> SUFFICES ASSUME bad # {} PROVE FALSE
      OBVIOUS
    <2>1. PICK n \in bad : \A k \in bad : n <= k
      BY Smallest
    <2>2. CASE n = 0
      <3> DEFINE g == [k \in 0..0 |-> {m}]
      <3>1. g = [k \in 0..0 |-> IF k = 0 THEN {m} ELSE g[k - 1] \cup Dependents(g[k - 1])]
        OBVIOUS
      <3> QED BY <2>1, <2>2, <3>1 DEF Searched
    <2>3. CASE n # 0
      <3>1. n \in Nat /\ n - 1 \in Nat /\ n - 1 \notin bad
        BY <2>1, <2>3
      <3>2. PICK g : Searched(g, m, n - 1)
        BY <3>1
      <3> DEFINE h == [k \in 0..n |-> IF k = n THEN g[n - 1] \cup Dependents(g[n - 1]) ELSE g[k]]
      <3>3. \A k \in 0..(n - 1) :
               /\ h[k] = g[k]
               /\ g[k] = IF k = 0 THEN {m} ELSE g[k - 1] \cup Dependents(g[k - 1])
        <4>1. \A k \in 0..(n - 1) : k \in 0..n /\ k # n
          BY <3>1
        <4>2. \A k \in 0..(n - 1) : h[k] = g[k]
          BY <4>1
        <4> HIDE DEF h
        <4> QED BY <3>2, <4>2 DEF Searched
      <3>4. h[n] = g[n - 1] \cup Dependents(g[n - 1])
        BY <3>1
      <3>5. ASSUME NEW k \in 0..n
            PROVE  h[k] = IF k = 0 THEN {m} ELSE h[k - 1] \cup Dependents(h[k - 1])
        <4>1. CASE k = n
          <5>1. h[n - 1] = g[n - 1]
            BY <3>1, <3>3
          <5> QED BY <2>3, <3>4, <4>1, <5>1
        <4>2. CASE k # n
          <5>1. k \in 0..(n - 1) /\ (k # 0 => k - 1 \in 0..(n - 1))
            BY <3>1, <4>2
          <5> HIDE DEF h
          <5> QED BY <3>3, <5>1
        <4> QED BY <4>1, <4>2
      <3>6. Searched(h, m, n)
        <4>1. h = [k \in 0..n |-> h[k]]
          OBVIOUS
        <4> HIDE DEF h
        <4> QED BY <3>5, <4>1 DEF Searched
      <3> QED BY <2>1, <3>6
    <2> QED BY <2>2, <2>3
  <1>2. PICK g : Searched(g, m, MaxMemories)
    BY <1>1, StoreBounds
  <1> QED BY <1>2 DEF Searched, Rounds

(* After as many rounds as there are memories nothing is left to visit:     *)
(* each round that finds anything finds another memory.                     *)
LEMMA RoundsClose ==
    ASSUME NEW m \in Memories
    PROVE  Dependents(Rounds(m)[MaxMemories]) \subseteq Rounds(m)[MaxMemories]
  <1> DEFINE f == Rounds(m)
             open(k) == ~(Dependents(f[k]) \subseteq f[k])
             grown(k) == f[k] \subseteq Memories /\ (open(k) => Cardinality(f[k]) >= k + 1)
             bad == {k \in 0..MaxMemories : ~grown(k)}
  <1>1. f[0] = {m} /\ \A k \in 1..MaxMemories : f[k] = f[k - 1] \cup Dependents(f[k - 1])
    BY RoundsUnfold, StoreBounds DEF Searched
  <1>2. \A S : Dependents(S) \subseteq Memories
    BY DEF Dependents, Live
  <1>3. IsFiniteSet(Memories) /\ Cardinality(Memories) = MaxMemories
    BY FS_Interval, StoreBounds DEF Memories
  <1> HIDE DEF f
  <1>4. bad = {}
    <2> SUFFICES ASSUME bad # {} PROVE FALSE
      OBVIOUS
    <2>1. bad \subseteq Nat
      BY StoreBounds
    <2>2. PICK k \in bad : \A j \in bad : k <= j
      BY <2>1, Smallest
    <2>3. k # 0
      <3>1. ASSUME k = 0 PROVE grown(k)
        <4>1. Cardinality(f[0]) >= 0 + 1
          <5>1. Cardinality({m}) = 1
            BY FS_Singleton
          <5> QED BY <1>1, <5>1
        <4>2. f[0] \subseteq Memories
          BY <1>1
        <4> QED BY <3>1, <4>1, <4>2
      <3> QED BY <2>2, <3>1
    <2>4. k \in 1..MaxMemories /\ k - 1 \in 0..MaxMemories /\ k - 1 \notin bad
      BY <2>2, <2>3, StoreBounds
    <2>5. grown(k - 1)
      BY <2>4
    <2>6. f[k] = f[k - 1] \cup Dependents(f[k - 1]) /\ f[k] \subseteq Memories
      BY <1>1, <1>2, <2>4, <2>5
    <2>7. open(k) => open(k - 1)
      BY <2>6
    <2>8. ASSUME open(k) PROVE Cardinality(f[k]) >= k + 1
      <3>1. Cardinality(f[k - 1]) >= k
        BY <2>4, <2>5, <2>7, <2>8
      <3>2. f[k - 1] \subseteq f[k] /\ f[k - 1] # f[k]
        BY <2>6, <2>7, <2>8
      <3>3. IsFiniteSet(f[k])
        BY <1>3, <2>6, FS_Subset
      <3>4. /\ Cardinality(f[k - 1]) <= Cardinality(f[k])
            /\ Cardinality(f[k - 1]) # Cardinality(f[k])
        BY <3>2, <3>3, FS_Subset
      <3>5. Cardinality(f[k - 1]) \in Nat /\ Cardinality(f[k]) \in Nat
        BY <3>2, <3>3, FS_Subset, FS_CardinalityType
      <3> QED BY <2>4, <3>1, <3>4, <3>5
    <2> QED BY <2>2, <2>6, <2>8
  <1>5. grown(MaxMemories)
    BY <1>4, StoreBounds
  <1>6. ~open(MaxMemories)
    <2>1. Cardinality(f[MaxMemories]) <= MaxMemories /\ Cardinality(f[MaxMemories]) \in Nat
      BY <1>3, <1>5, FS_Subset, FS_CardinalityType
    <2> QED BY <1>5, <2>1, StoreBounds
  <1> QED BY <1>6 DEF f

----------------------------------------------------------------------------
(* No orphans                                                               *)

OneCaller == \A c, d \in Clients : c = d

\* What the call t is about to delete takes its derived memories along.
TakesAlong(t) ==
    /\ t.tool = "hard_delete" /\ t.guarded => \A p \in lineage : p[1] # t.id
    /\ t.tool = "cascade" =>
          \A p \in lineage : p[1] \in DOMAIN t.plan => p[2] \in DOMAIN t.plan

DeletesTakeAlong == \A c \in Clients : TakesAlong(tx[c])

(* A cascade plans to delete whatever derives from what it deletes.         *)
LEMMA PlansAreClosed ==
    ASSUME StoreInv, NEW m \in Live, NEW S,
           S = {x \in Live : x \in Rounds(m)[MaxMemories]},
           NEW p \in lineage, p[1] \in S
    PROVE  p[2] \in S
  <1>1. m \in Memories
    BY DEF Live
  <1>2. p[2] \in Live /\ p = <<p[1], p[2]>>
    BY DEF StoreInv, StoreTypeOK
  <1>3. p[2] \in Dependents(Rounds(m)[MaxMemories])
    BY <1>2 DEF Dependents
  <1> QED BY <1>1, <1>2, <1>3, RoundsClose

LEMMA TakeAlongInit == StoreInit => DeletesTakeAlong
  BY DEF StoreInit, DeletesTakeAlong, TakesAlong, NoCall

(* Without another caller nothing is derived between the guard, or the      *)
(* plan, and the DELETE.                                                    *)
LEMMA TakeAlongNext ==
    ASSUME OneCaller, StoreInv, DeletesTakeAlong, [StoreNext]_storeVars
    PROVE  DeletesTakeAlong'
  <1>1. CASE UNCHANGED storeVars
    BY <1>1 DEF storeVars, DeletesTakeAlong, TakesAlong
  <1>2. CASE ~UNCHANGED storeVars
    <2>1. PICK c \in Clients : BeginCall(c) \/ CommitCall(c)
      BY <1>2 DEF StoreNext
    <2>2. \A d \in Clients : d = c
      BY DEF OneCaller
    <2>3. SUFFICES TakesAlong(tx[c])'
      BY <2>2 DEF DeletesTakeAlong
    <2>4. ASSUME NEW call, tx' = [tx EXCEPT ![c] = call] PROVE tx'[c] = call
      BY <2>4 DEF StoreInv, CallsKnow
    <2>5. CASE Return(c) \/ Fail(c)
      BY <2>4, <2>5 DEF Return, Fail, NoCall, TakesAlong
    <2>6. CASE MemoryWrite(c)
      BY <2>6 DEF MemoryWrite, NoCall, TakesAlong
    <2>7. ASSUME NEW call, Begin(c, call), TakesAlong(call)
          PROVE  TakesAlong(tx[c])'
      <3>1. tx'[c] = call /\ lineage' = lineage
        BY <2>4, <2>7 DEF Begin, tables
      <3> QED BY <2>7, <3>1 DEF TakesAlong
    <2>8. ASSUME NEW m \in Live, PlanCascade(c, m) PROVE TakesAlong(tx[c])'
      <3> DEFINE S == {x \in Live : x \in Rounds(m)[MaxMemories]}
                 plan == [x \in S |-> [ver |-> row[x].ver, depth |-> DepthOf(m, x)]]
                 call == [tool |-> "cascade", id |-> m, plan |-> plan]
      <3>1. Begin(c, call)
        BY <2>8 DEF PlanCascade
      <3>2. \A p \in lineage : p[1] \in S => p[2] \in S
        BY PlansAreClosed
      <3>3. call.tool = "cascade" /\ DOMAIN call.plan = S
        OBVIOUS
      <3> HIDE DEF call, S
      <3>4. TakesAlong(call)
        BY <3>2, <3>3 DEF TakesAlong
      <3> QED BY <2>7, <3>1, <3>4
    <2>9. CASE BeginCall(c)
      <3>1. CASE MemoryWrite(c)
        BY <2>6, <3>1
      <3>2. CASE ~MemoryWrite(c)
        <4>1. PICK m \in Live : \/ BeginUpdate(c, m) \/ BeginSupersede(c, m) \/ BeginCopy(c, m)
                                \/ BeginHardDelete(c, m) \/ PlanCascade(c, m)
          BY <2>9, <3>2 DEF BeginCall
        <4>2. CASE BeginUpdate(c, m)
          BY <2>7, <4>2 DEF BeginUpdate, TakesAlong
        <4>3. CASE BeginSupersede(c, m)
          BY <2>7, <4>3 DEF BeginSupersede, TakesAlong
        <4>4. CASE BeginCopy(c, m)
          BY <2>7, <4>4 DEF BeginCopy, TakesAlong
        <4>5. CASE BeginHardDelete(c, m)
          BY <2>7, <4>5 DEF BeginHardDelete, TakesAlong
        <4> QED BY <2>8, <4>1, <4>2, <4>3, <4>4, <4>5
      <3> QED BY <3>1, <3>2
    <2>10. CASE GuardHardDelete(c)
      <3>1. CASE Refuse(c)
        BY <2>5, <3>1 DEF Refuse
      <3>2. CASE ~Refuse(c)
        <4>1. PICK t : t = tx[c]
          OBVIOUS
        <4> DEFINE call == [tool |-> "hard_delete", id |-> t.id, ver |-> t.ver, guarded |-> TRUE]
        <4>2. ~Referenced(t.id) /\ tx'[c] = call /\ lineage' = lineage
          BY <2>4, <2>10, <3>2, <4>1 DEF GuardHardDelete, tables
        <4> QED BY <4>2 DEF TakesAlong, Referenced
      <3> QED BY <3>1, <3>2
    <2>11. CASE CommitCall(c) /\ ~GuardHardDelete(c)
      <3>1. Return(c) \/ Fail(c)
        BY <2>11 DEF CommitCall, CommitUpdate, CommitSupersede, CommitCopy, CommitMove,
                     CommitMoveDelete, CommitHardDelete, CommitCascade, Refuse
      <3> QED BY <2>5, <3>1
    <2> QED BY <2>1, <2>9, <2>10, <2>11
  <1> QED BY <1>1, <1>2

(* An edge is lost only where both ends are deleted, or the derived one.    *)
LEMMA EdgesGoWithTheirEnd ==
    ASSUME StoreInv, DeletesTakeAlong, [StoreNext]_storeVars, NEW p \in lineage \ lineage'
    PROVE  p[2] \notin Live'
  <1>1. PICK c \in Clients : BeginCall(c) \/ CommitCall(c)
    BY DEF StoreNext, storeVars
  <1>2. PICK t : t = tx[c]
    OBVIOUS
  <1>3. TakesAlong(t)
    BY <1>2 DEF DeletesTakeAlong
  <1>4. ASSUME NEW S, Delete(S), p[1] \in S => p[2] \in S
        PROVE  p[2] \notin Live'
    <2>1. p[2] \in S /\ p[2] \in Live
      BY <1>4 DEF Delete, StoreInv, StoreTypeOK
    <2>2. row'[p[2]].status = "gone"
      BY <1>4, <2>1 DEF Delete, Live
    <2> QED BY <2>2 DEF Live, Statuses
  <1>5. CASE CommitHardDelete(c) /\ ~Fail(c)
    <2>1. PICK id : id = t.id
      OBVIOUS
    <2>2. Delete({id}) /\ t.tool = "hard_delete" /\ t.guarded
      BY <1>2, <1>5, <2>1 DEF CommitHardDelete
    <2>3. p[1] # id
      BY <1>3, <2>1, <2>2 DEF TakesAlong
    <2> QED BY <1>4, <2>2, <2>3
  <1>6. CASE CommitCascade(c) /\ ~Refuse(c) /\ ~Fail(c)
    <2>1. PICK plan : plan = DOMAIN t.plan
      OBVIOUS
    <2>2. Delete(plan) /\ t.tool = "cascade"
      BY <1>2, <1>6, <2>1 DEF CommitCascade
    <2>3. p[1] \in plan => p[2] \in plan
      BY <1>3, <2>1, <2>2 DEF TakesAlong
    <2> QED BY <1>4, <2>2, <2>3
  <1>7. ~Refuse(c) /\ ~Fail(c) /\ ~UNCHANGED lineage
    BY DEF Refuse, Fail, tables
  <1>8. ~BeginCall(c) /\ ~GuardHardDelete(c) /\ ~CommitUpdate(c)
    BY <1>7 DEF BeginCall, MemoryWrite, BeginUpdate, BeginSupersede, BeginCopy, BeginHardDelete,
                PlanCascade, Begin, GuardHardDelete, CommitUpdate, tables
  <1>9. ~CommitSupersede(c) /\ ~CommitCopy(c) /\ ~CommitMove(c) /\ ~CommitMoveDelete(c)
    BY <1>7 DEF CommitSupersede, CommitCopy, CommitMove, CommitMoveDelete
  <1> QED BY <1>1, <1>5, <1>6, <1>7, <1>8, <1>9 DEF CommitCall

(* A caller who is alone leaves no derived memory without its origin: the   *)
(* guard refuses what others derive from, and the cascade collects all of   *)
(* what derives from it, however long the chains and whatever cycles        *)
(* copy_lineage has closed.                                                 *)
THEOREM DeletesLeaveNoOrphan ==
    OneCaller => (StoreSpec => NoOrphanedMemory)
  <1> SUFFICES ASSUME OneCaller PROVE StoreSpec => NoOrphanedMemory
    OBVIOUS
  <1> DEFINE kept == \A p \in lineage \ lineage' : p[2] \notin Live'
  <1>1. StoreInit => StoreInv /\ DeletesTakeAlong
    BY InvInit, TakeAlongInit
  <1>2. StoreInv /\ DeletesTakeAlong /\ [StoreNext]_storeVars => StoreInv' /\ DeletesTakeAlong'
    BY InvNext, TakeAlongNext
  <1>3. StoreInv /\ DeletesTakeAlong /\ [StoreNext]_storeVars => [kept]_storeVars
    BY EdgesGoWithTheirEnd
  <1> QED BY <1>1, <1>2, <1>3, PTL DEF StoreSpec, NoOrphanedMemory

----------------------------------------------------------------------------
(* Complete histories *)

Shown(m) == row[m].status \in {"proposed", "active", "stale"}

\* The version of the newest event of m, a tombstone's if the row is gone.
Last(m) == IF ~Used(m) THEN 0 ELSE IF m \in Live THEN row[m].ver ELSE row[m].ver + 1

HistoryInv ==
    /\ \A m \in Memories, v \in Nat : Taken(m, v) <=> 1 <= v /\ v <= Last(m)
    /\ \A e, f \in events : e.agg = f.agg /\ e.ver = f.ver => e = f
    /\ \A e \in events : e.ver = Last(e.agg) => (e.op = "upsert" <=> Shown(e.agg))
    /\ \A m \in Memories : row[m] = Unused \/ Used(m)

\* A step leaves m and its events alone, ...
Rests(m) == row'[m] = row[m] /\ \A e \in events' \ events : e.agg # m

\* ... or gives m one more event, which tells what has become of it.
Advances(m) ==
    \E e \in events' : /\ e.agg = m /\ e.ver = Last(m) + 1 /\ Last(m)' = Last(m) + 1
                       /\ \A f \in events' \ events : f.agg = m => f = e
                       /\ e.op = "upsert" <=> Shown(m)'

(* Versions are counted from events and back.                               *)
LEMMA LastFacts ==
    ASSUME StoreInv, NEW m \in Memories
    PROVE  /\ Last(m) \in Nat
           /\ m \in Live => Last(m) = row[m].ver
           /\ Used(m) => row[m].ver <= Last(m)
  BY RowFacts, LiveFacts DEF Last, StoreInv

(* An event of a row at a version it has not reached does not exist yet.    *)
LEMMA HistoryGrows ==
    ASSUME StoreInv, StoreInv', HistoryInv, events \subseteq events',
           \A m \in Memories : Rests(m) \/ Advances(m)
    PROVE  HistoryInv'
  <1>1. \A e \in events' : e.agg \in Memories /\ e.ver \in Nat \ {0}
    BY DEF StoreInv, StoreTypeOK
  <1>2. ASSUME NEW m \in Memories, Rests(m)
        PROVE  /\ Last(m)' = Last(m) /\ (Shown(m)' <=> Shown(m))
               /\ \A v : Taken(m, v)' <=> Taken(m, v)
               /\ \A e \in events' : e.agg = m => e \in events
    <2>1. row'[m] = row[m]
      BY <1>2 DEF Rests
    <2>2. \A e \in events' : e.agg = m => e \in events
      BY <1>2 DEF Rests
    <2> QED BY <2>1, <2>2 DEF Last, Shown, Used, Live, Taken
  <1>3. ASSUME NEW m \in Memories, NEW v \in Nat
        PROVE  Taken(m, v)' <=> 1 <= v /\ v <= Last(m)'
    <2>1. CASE Rests(m)
      BY <1>2, <2>1 DEF HistoryInv
    <2>2. CASE Advances(m)
      <3>1. PICK e \in events' :
               /\ e.agg = m /\ e.ver = Last(m) + 1 /\ Last(m)' = Last(m) + 1
               /\ \A f \in events' \ events : f.agg = m => f = e
        BY <2>2 DEF Advances
      <3>2. Taken(m, v)' <=> Taken(m, v) \/ v = Last(m) + 1
        BY <3>1 DEF Taken
      <3> QED BY <3>1, <3>2, LastFacts DEF HistoryInv
    <2> QED BY <2>1, <2>2
  <1>4. ASSUME NEW e \in events', NEW f \in events', e.agg = f.agg, e.ver = f.ver
        PROVE  e = f
    <2>1. CASE Rests(e.agg)
      BY <1>1, <1>2, <1>4, <2>1 DEF HistoryInv
    <2>2. CASE Advances(e.agg)
      <3>1. PICK g \in events' : /\ g.ver = Last(e.agg) + 1
                                 /\ \A h \in events' \ events : h.agg = e.agg => h = g
        BY <2>2 DEF Advances
      <3>2. \A h \in events : h.agg = e.agg => h.ver <= Last(e.agg)
        <4>1. \A h \in events : h.agg = e.agg => Taken(e.agg, h.ver) /\ h.ver \in Nat
          BY <1>1 DEF Taken
        <4> QED BY <4>1, <1>1 DEF HistoryInv
      <3>3. Last(e.agg) \in Nat /\ ~(Last(e.agg) + 1 <= Last(e.agg))
        BY <1>1, LastFacts
      <3>4. e \in events <=> f \in events
        BY <1>4, <3>1, <3>2, <3>3
      <3> QED BY <1>4, <3>1, <3>4 DEF HistoryInv
    <2> QED BY <1>1, <2>1, <2>2
  <1>5. ASSUME NEW e \in events', e.ver = Last(e.agg)'
        PROVE  e.op = "upsert" <=> Shown(e.agg)'
    <2>1. CASE Rests(e.agg)
      BY <1>1, <1>2, <1>5, <2>1 DEF HistoryInv
    <2>2. CASE Advances(e.agg)
      <3>1. PICK g \in events' :
               /\ g.agg = e.agg /\ g.ver = Last(e.agg) + 1 /\ Last(e.agg)' = Last(e.agg) + 1
               /\ g.op = "upsert" <=> Shown(e.agg)'
        BY <2>2 DEF Advances
      <3>2. e = g
        BY <1>4, <1>5, <3>1
      <3> QED BY <3>1, <3>2
    <2> QED BY <1>1, <2>1, <2>2
  <1>6. ASSUME NEW m \in Memories PROVE row'[m] = Unused \/ Used(m)'
    <2>1. CASE Rests(m)
      BY <2>1 DEF Rests, HistoryInv, Used
    <2>2. CASE Advances(m)
      <3>1. Last(m)' # 0
        BY <2>2, LastFacts DEF Advances
      <3> QED BY <3>1 DEF Last
    <2> QED BY <2>1, <2>2
  <1> QED BY <1>3, <1>4, <1>5, <1>6 DEF HistoryInv

(* A new row's first event shows it.                                        *)
LEMMA CreatedAdvances ==
    ASSUME NEW n \in Memories, row[n] = Unused, row'[n] = Fresh,
           Event(n, 1, OpFor("active")) \in events',
           \A f \in events' \ events : f.agg = n => f = Event(n, 1, OpFor("active"))
    PROVE  Advances(n)
  <1> DEFINE e == Event(n, 1, OpFor("active"))
  <1>1. e.agg = n /\ e.ver = 1 /\ e.op = "upsert"
    BY DEF Event, OpFor
  <1>2. Last(n) = 0
    BY DEF Last, Used, Unused
  <1>3. Last(n)' = 1 /\ Shown(n)'
    BY DEF Last, Used, Live, Fresh, Shown, Statuses
  <1> HIDE DEF e
  <1> QED BY <1>1, <1>2, <1>3 DEF Advances, e

(* A changed row's event carries its new version and the op of its status.  *)
LEMMA ChangedAdvances ==
    ASSUME StoreInv, NEW id \in Live, NEW new, NEW v, v = row[id].ver + 1,
           row'[id] = new, new.status \in Statuses, new.ver = v,
           Event(id, v, OpFor(new.status)) \in events',
           \A f \in events' \ events : f.agg = id => f = Event(id, v, OpFor(new.status))
    PROVE  Advances(id)
  <1> DEFINE e == Event(id, v, OpFor(new.status))
  <1>1. id \in Memories
    BY LiveFacts
  <1>2. e.agg = id /\ e.ver = v
    BY DEF Event
  <1>3. e.op = "upsert" <=> new.status \in {"proposed", "active", "stale"}
    BY DEF Event, OpFor
  <1>4. Last(id) + 1 = v
    BY <1>1, LastFacts
  <1>5. Last(id)' = v /\ (Shown(id)' <=> new.status \in {"proposed", "active", "stale"})
    BY <1>1 DEF Last, Used, Live, Shown, Statuses
  <1> HIDE DEF e
  <1> QED BY <1>2, <1>3, <1>4, <1>5 DEF Advances, e

(* A deleted row's tombstone lies one version above it.                     *)
LEMMA DeletedAdvances ==
    ASSUME StoreInv, NEW S \in SUBSET Live, Delete(S), NEW m \in S,
           Event(m, row[m].ver + 1, "tombstone") \in events',
           \A f \in events' \ events : f.agg = m => f = Event(m, row[m].ver + 1, "tombstone")
    PROVE  Advances(m)
  <1>1. PICK v : v = row[m].ver + 1
    OBVIOUS
  <1> DEFINE e == Event(m, v, "tombstone")
  <1>2. e.agg = m /\ e.ver = v /\ e.op = "tombstone"
    BY DEF Event
  <1>3. m \in Memories /\ m \in Live
    BY LiveFacts
  <1>4. Last(m) + 1 = v
    BY <1>1, <1>3, LastFacts
  <1>5. row'[m] = [status |-> "gone", ver |-> row[m].ver, sup |-> None]
    BY <1>3 DEF Delete
  <1>6. Last(m)' = v /\ ~Shown(m)'
    BY <1>1, <1>5 DEF Last, Used, Live, Shown, Statuses
  <1>7. e \in events' /\ \A f \in events' \ events : f.agg = m => f = e
    BY <1>1
  <1> HIDE DEF e
  <1> QED BY <1>2, <1>4, <1>6, <1>7 DEF Advances

(* memory_write and mem_copy tell of the new row.                           *)
LEMMA CreatingTells ==
    ASSUME StoreInv, Room, row' = [row EXCEPT ![NextId] = Fresh],
           events' = events \cup {Event(NextId, 1, OpFor("active"))}
    PROVE  events \subseteq events' /\ \A m \in Memories : Rests(m) \/ Advances(m)
  <1>1. PICK n : n = NextId
    OBVIOUS
  <1>2. /\ n \in Memories /\ row[n] = Unused /\ row'[n] = Fresh
        /\ \A m \in Memories : m # n => row'[m] = row[m]
    BY <1>1, NextIdIsFree DEF StoreInv, StoreTypeOK
  <1>3. Advances(n)
    BY <1>1, <1>2, CreatedAdvances
  <1>4. \A m \in Memories : m # n => Rests(m)
    BY <1>1, <1>2 DEF Rests, Event
  <1> QED BY <1>3, <1>4

(* memory_supersede and mem_move tell of the heir and of the old row.       *)
LEMMA ReplacingTells ==
    ASSUME StoreInv, Room, NEW id \in Live, NEW v, v = row[id].ver + 1,
           row' = [row EXCEPT ![NextId] = Fresh,
                              ![id] = [status |-> "superseded", ver |-> v, sup |-> NextId]],
           events' = events \cup {Event(NextId, 1, OpFor("active")),
                                  Event(id, v, OpFor("superseded"))}
    PROVE  events \subseteq events' /\ \A m \in Memories : Rests(m) \/ Advances(m)
  <1>1. PICK n : n = NextId
    OBVIOUS
  <1> DEFINE new == [status |-> "superseded", ver |-> v, sup |-> n]
  <1>2. /\ n \in Memories /\ row[n] = Unused /\ id \in Memories /\ id # n
        /\ row'[n] = Fresh /\ row'[id] = new
        /\ \A m \in Memories : m # n /\ m # id => row'[m] = row[m]
    BY <1>1, NextIdIsFree, LiveFacts DEF StoreInv, StoreTypeOK, Used, Unused
  <1>3. new.status = "superseded" /\ new.ver = v /\ new.status \in Statuses
    BY DEF Statuses
  <1> HIDE DEF new
  <1> DEFINE first == Event(n, 1, OpFor("active"))
             last  == Event(id, v, OpFor("superseded"))
  <1>4. /\ first.agg = n /\ last.agg = id
        /\ first \in events' /\ last \in events'
        /\ \A f \in events' \ events : f = first \/ f = last
    BY <1>1 DEF Event
  <1> HIDE DEF first, last
  <1>5. \A f \in events' \ events : (f.agg = n => f = first) /\ (f.agg = id => f = last)
    BY <1>2, <1>4
  <1>6. Advances(n)
    BY <1>2, <1>4, <1>5, CreatedAdvances DEF first
  <1>7. Advances(id)
    <2>1. last = Event(id, v, OpFor(new.status))
      BY <1>3 DEF last
    <2>2. PICK r : r = new
      OBVIOUS
    <2>3. /\ row'[id] = r /\ r.status \in Statuses /\ r.ver = v
          /\ Event(id, v, OpFor(r.status)) \in events'
          /\ \A f \in events' \ events : f.agg = id => f = Event(id, v, OpFor(r.status))
      BY <1>2, <1>3, <1>4, <1>5, <2>1, <2>2
    <2> QED BY <2>3, ChangedAdvances
  <1>8. \A m \in Memories : m # n /\ m # id => Rests(m)
    BY <1>2, <1>4 DEF Rests
  <1> QED BY <1>4, <1>6, <1>7, <1>8

(* Hard deletes and cascades tell of each row that went.                    *)
LEMMA DeletingTells ==
    ASSUME StoreInv, NEW S \in SUBSET Live, Delete(S),
           events' = events \cup {Event(x, row[x].ver + 1, "tombstone") : x \in S}
    PROVE  events \subseteq events' /\ \A m \in Memories : Rests(m) \/ Advances(m)
  <1>1. ASSUME NEW m \in S PROVE Advances(m)
    <2>1. \A x : Event(x, row[x].ver + 1, "tombstone").agg = x
      BY DEF Event
    <2>2. \A f \in events' \ events : \E x \in S : f = Event(x, row[x].ver + 1, "tombstone")
      OBVIOUS
    <2>3. \A f \in events' \ events : f.agg = m => f = Event(m, row[m].ver + 1, "tombstone")
      BY <2>1, <2>2
    <2> QED BY <2>3, DeletedAdvances
  <1>2. \A m \in Memories : m \notin S => Rests(m)
    BY DEF Rests, Event, Delete
  <1> QED BY <1>1, <1>2

(* A hard delete that passes the unique key read the last version: the row  *)
(* is still there.                                                          *)
LEMMA DeleteReadTheLastVersion ==
    ASSUME StoreInv, HistoryInv, NEW m, NEW v, Known(m, v), ~Taken(m, TombstoneVersion(v))
    PROVE  m \in Live /\ v = row[m].ver
  <1>1. m \in Memories /\ v \in Nat \ {0} /\ v <= row[m].ver /\ row[m].ver \in Nat
    BY RowFacts DEF Known, StoreInv
  <1>2. ~(v + 1 <= Last(m))
    BY <1>1 DEF TombstoneVersion, HistoryInv
  <1> QED BY <1>1, <1>2 DEF Last, Known, Used

(* Each step of each call leaves a row and its events alone or tells of it. *)
LEMMA StepsTell ==
    ASSUME StoreInv, HistoryInv, [StoreNext]_storeVars
    PROVE  events \subseteq events' /\ \A m \in Memories : Rests(m) \/ Advances(m)
  <1>1. CASE UNCHANGED tables
    BY <1>1 DEF tables, Rests
  <1>2. CASE ~UNCHANGED tables
    <2>1. PICK c \in Clients : BeginCall(c) \/ CommitCall(c)
      BY <1>2 DEF StoreNext, storeVars, tables
    <2>2. ~Refuse(c) /\ ~Fail(c)
      BY <1>2 DEF Refuse, Fail
    <2>3. PICK t, id, n : t = tx[c] /\ id = t.id /\ n = NextId
      OBVIOUS
    <2>4. CallKnows(t)
      BY <2>3 DEF StoreInv, CallsKnow
    <2>5. CASE BeginCall(c)
      <3>1. MemoryWrite(c)
        BY <1>2, <2>5 DEF BeginCall, BeginUpdate, BeginSupersede, BeginCopy,
                          BeginHardDelete, PlanCascade, Begin
      <3> QED BY <3>1, CreatingTells DEF MemoryWrite
    <2>6. CASE CommitUpdate(c)
      <3>1. PICK new, v : /\ new = [status |-> t.to, ver |-> t.ver + 1, sup |-> row[id].sup]
                          /\ v = t.ver + 1
        OBVIOUS
      <3>2. /\ id \in Live /\ row[id].ver = t.ver /\ row' = [row EXCEPT ![id] = new]
            /\ events' = events \cup {Event(id, v, OpFor(t.to))}
        BY <2>2, <2>3, <2>6, <3>1 DEF CommitUpdate, Current
      <3>3. new.status = t.to /\ new.ver = v /\ t.to \in Statuses
        BY <2>3, <2>4, <2>6, <3>1 DEF CommitUpdate, CallKnows
      <3>4. /\ id \in Memories /\ row'[id] = new /\ v = row[id].ver + 1
            /\ \A m \in Memories : m # id => row'[m] = row[m]
        BY <3>1, <3>2, LiveFacts DEF StoreInv, StoreTypeOK
      <3>5. \A f \in events' \ events : f = Event(id, v, OpFor(new.status)) /\ f.agg = id
        BY <3>2, <3>3 DEF Event
      <3>6. Advances(id)
        BY <3>2, <3>3, <3>4, <3>5, ChangedAdvances
      <3> QED BY <3>2, <3>4, <3>5, <3>6 DEF Rests
    <2>7. CASE CommitSupersede(c) \/ CommitMove(c)
      <3>1. PICK v : v = t.ver + 1
        OBVIOUS
      <3>2. /\ Room /\ id \in Live /\ v = row[id].ver + 1
            /\ row' = [row EXCEPT ![NextId] = Fresh,
                                  ![id] = [status |-> "superseded", ver |-> v, sup |-> NextId]]
            /\ events' = events \cup {Event(NextId, 1, OpFor("active")),
                                      Event(id, v, OpFor("superseded"))}
        <4>1. CASE CommitSupersede(c)
          BY <4>1, <2>2, <2>3, <3>1 DEF CommitSupersede, Current
        <4>2. CASE CommitMove(c)
          <5>1. /\ t.tool = "move" /\ t.id \in Live /\ Room
                /\ ~(row[t.id].ver > t.ver + 1) /\ ~Taken(t.id, t.ver + 1)
                /\ row' = [row EXCEPT ![NextId] = Fresh,
                             ![id] = [status |-> "superseded", ver |-> v, sup |-> NextId]]
                /\ events' = events \cup {Event(NextId, 1, OpFor("active")),
                                          Event(id, v, OpFor("superseded"))}
            BY <4>2, <2>2, <2>3, <3>1 DEF CommitMove
          <5>2. row[t.id].ver = t.ver
            BY <5>1, <2>4, MoveReadTheLastVersion
          <5> QED BY <5>1, <5>2, <2>3, <3>1
        <4> QED BY <2>7, <4>1, <4>2
      <3> QED BY <3>2, ReplacingTells
    <2>8. CASE CommitCopy(c)
      BY <2>2, <2>8, CreatingTells DEF CommitCopy
    <2>9. CASE CommitMoveDelete(c)
      <3>1. t.tool = "move_delete" /\ ~Taken(t.id, t.ver)
        BY <2>2, <2>3, <2>9 DEF CommitMoveDelete
      <3>2. Known(t.id, t.ver)
        BY <2>4, <3>1 DEF CallKnows, OneRowTools
      <3>3. /\ t.id \in Memories /\ t.ver \in Nat \ {0} /\ t.ver <= row[t.id].ver
            /\ row[t.id].ver \in Nat /\ row[t.id].ver <= Last(t.id) /\ Last(t.id) \in Nat
        BY <3>2, RowFacts, LastFacts DEF Known, StoreInv
      <3> QED BY <3>1, <3>3 DEF HistoryInv
    <2>10. CASE GuardHardDelete(c)
      BY <1>2, <2>2, <2>10 DEF GuardHardDelete
    <2>11. CASE CommitHardDelete(c)
      <3>1. PICK v : v = t.ver
        OBVIOUS
      <3>2. /\ t.tool = "hard_delete" /\ ~Taken(id, TombstoneVersion(v)) /\ Delete({id})
            /\ events' = events \cup {Event(id, TombstoneVersion(v), "tombstone")}
        BY <2>2, <2>3, <2>11, <3>1 DEF CommitHardDelete
      <3>3. Known(id, v)
        BY <2>3, <2>4, <3>1, <3>2 DEF CallKnows, OneRowTools
      <3>4. id \in Live /\ v = row[id].ver
        BY <3>2, <3>3, DeleteReadTheLastVersion
      <3>5. events' = events \cup {Event(x, row[x].ver + 1, "tombstone") : x \in {id}}
        BY <3>2, <3>4 DEF TombstoneVersion
      <3> QED BY <3>2, <3>4, <3>5, DeletingTells
    <2>12. CASE CommitCascade(c)
      <3>1. PICK plan : plan = DOMAIN t.plan
        OBVIOUS
      <3>2. /\ \A x \in plan : x \in Live /\ row[x].ver = t.plan[x].ver
            /\ Delete(plan)
            /\ events' = events \cup
                 {Event(x, TombstoneVersion(t.plan[x].ver), "tombstone") : x \in plan}
        BY <2>2, <2>3, <2>12, <3>1 DEF CommitCascade
      <3>3. {Event(x, TombstoneVersion(t.plan[x].ver), "tombstone") : x \in plan}
              = {Event(x, row[x].ver + 1, "tombstone") : x \in plan}
        BY <3>2 DEF TombstoneVersion
      <3>4. plan \subseteq Live
        BY <3>2
      <3> QED BY <3>2, <3>3, <3>4, DeletingTells
    <2> QED BY <2>1, <2>5, <2>6, <2>7, <2>8, <2>9, <2>10, <2>11, <2>12 DEF CommitCall
  <1> QED BY <1>1, <1>2

(* A store without imports starts with no row and no event.                 *)
LEMMA HistoryInit == Imported = {} /\ StoreInit => HistoryInv
  <1> SUFFICES ASSUME Imported = {}, StoreInit PROVE HistoryInv
    OBVIOUS
  <1>1. events = {} /\ \A m \in Memories : row[m] = Unused /\ row[m].status = "unused"
    BY DEF StoreInit, Unused
  <1>2. \A m \in Memories : Last(m) = 0
    BY <1>1 DEF Last, Used
  <1> QED BY <1>1, <1>2 DEF HistoryInv, Taken

(* Events that count versions tell the whole history.                       *)
LEMMA HistoryImplies == StoreInv /\ HistoryInv => HistoryIsComplete
  <1> SUFFICES ASSUME StoreInv, HistoryInv, NEW m \in Memories
               PROVE  LET mine == {e \in events : e.agg = m}
                          last(e) == \A f \in mine : f.ver <= e.ver
                      IN  /\ m \notin Imported /\ row[m] # Unused => \E e \in mine : e.ver = 1
                          /\ \A e, f \in mine : e.ver = f.ver => e = f
                          /\ \A e \in mine : last(e) \/ \E f \in mine : f.ver = e.ver + 1
                          /\ \A e \in mine : last(e) =>
                                /\ e.op = "upsert"
                                     <=> row[m].status \in {"proposed", "active", "stale"}
                                /\ m \in Live => e.ver = row[m].ver
    BY DEF HistoryIsComplete
  <1> DEFINE mine == {e \in events : e.agg = m}
             last(e) == \A f \in mine : f.ver <= e.ver
  <1>1. Last(m) \in Nat /\ (m \in Live => Last(m) = row[m].ver)
    BY LastFacts
  <1>2. \A e \in mine : e.ver \in Nat \ {0} /\ e.ver <= Last(m)
    <2>1. \A e \in mine : e.ver \in Nat \ {0} /\ Taken(m, e.ver)
      BY DEF StoreInv, StoreTypeOK, Taken
    <2> QED BY <2>1 DEF HistoryInv
  <1>3. \A v \in Nat \ {0} : v <= Last(m) => \E e \in mine : e.ver = v
    BY DEF HistoryInv, Taken
  <1>4. \A e \in mine : last(e) => e.ver = Last(m)
    <2> SUFFICES ASSUME NEW e \in mine, last(e) PROVE e.ver = Last(m)
      OBVIOUS
    <2>1. PICK f \in mine : f.ver = Last(m)
      BY <1>1, <1>2, <1>3
    <2> QED BY <1>1, <1>2, <2>1
  <1>5. m \notin Imported /\ row[m] # Unused => \E e \in mine : e.ver = 1
    <2> SUFFICES ASSUME row[m] # Unused PROVE \E e \in mine : e.ver = 1
      OBVIOUS
    <2>1. Used(m)
      BY DEF HistoryInv
    <2>2. 1 <= row[m].ver /\ row[m].ver <= Last(m) /\ row[m].ver \in Nat
      BY <2>1, LastFacts, RowFacts DEF StoreInv, VersionsHaveEvents
    <2> QED BY <1>1, <1>3, <2>2
  <1>6. \A e, f \in mine : e.ver = f.ver => e = f
    BY DEF HistoryInv
  <1>7. ASSUME NEW e \in mine PROVE last(e) \/ \E f \in mine : f.ver = e.ver + 1
    <2>1. CASE e.ver = Last(m)
      BY <1>2, <2>1
    <2>2. CASE e.ver # Last(m)
      BY <1>1, <1>2, <1>3, <2>2
    <2> QED BY <2>1, <2>2
  <1>8. ASSUME NEW e \in mine, last(e)
        PROVE  /\ e.op = "upsert" <=> row[m].status \in {"proposed", "active", "stale"}
               /\ m \in Live => e.ver = row[m].ver
    <2>1. e.ver = Last(m)
      BY <1>4, <1>8
    <2> QED BY <1>1, <2>1 DEF HistoryInv, Shown
  <1> QED BY <1>5, <1>6, <1>7, <1>8

(* In a store that imports nothing the outbox tells the whole history of    *)
(* every memory: each version once, without gaps, the last one as the row   *)
(* is, and a tombstone above it once the row is gone.  So the projection    *)
(* workers, who never read a row, still end at what the row says.           *)
THEOREM HistoriesAreComplete ==
    Imported = {} => (StoreSpec => []HistoryIsComplete)
  <1>1. Imported = {} /\ StoreInit => StoreInv /\ HistoryInv
    BY InvInit, HistoryInit
  <1>2. StoreInv /\ HistoryInv /\ [StoreNext]_storeVars => StoreInv' /\ HistoryInv'
    BY InvNext, StepsTell, HistoryGrows
  <1>3. StoreInv /\ HistoryInv => HistoryIsComplete
    BY HistoryImplies
  <1> QED BY <1>1, <1>2, <1>3, PTL DEF StoreSpec

----------------------------------------------------------------------------
(* EnvOps: ids, tables and archives                                         *)

(* The ids that an operation gives to its copies are new and differ.        *)
LEMMA RemapFacts ==
    ASSUME made \in Nat, NEW S, S \subseteq 1..made
    PROVE  /\ Cardinality(S) \in Nat /\ DOMAIN Remap(S) = S
           /\ \A m \in S : Remap(S)[m] \in (made + 1)..(made + Cardinality(S))
           /\ \A m, n \in S : Remap(S)[m] = Remap(S)[n] => m = n
  <1> DEFINE UpTo(m) == {x \in S : x <= m}
  <1>1. IsFiniteSet(S) /\ Cardinality(S) \in Nat
    <2>1. IsFiniteSet(1..made)
      BY FS_Interval
    <2> QED BY <2>1, FS_Subset, FS_CardinalityType
  <1>2. ASSUME NEW m \in S
        PROVE  /\ IsFiniteSet(UpTo(m)) /\ Cardinality(UpTo(m)) \in Nat
               /\ Cardinality(UpTo(m)) <= Cardinality(S) /\ Cardinality(UpTo(m)) # 0
    <2>1. UpTo(m) \subseteq S /\ m \in UpTo(m)
      BY <1>2
    <2>2. /\ IsFiniteSet(UpTo(m)) /\ Cardinality(UpTo(m)) \in Nat
          /\ Cardinality(UpTo(m)) <= Cardinality(S)
      BY <1>1, <2>1, FS_Subset, FS_CardinalityType
    <2>3. Cardinality(UpTo(m)) # 0
      BY <2>1, <2>2, FS_EmptySet
    <2> QED BY <2>2, <2>3
  <1>3. ASSUME NEW m \in S, NEW n \in S, m < n
        PROVE  Cardinality(UpTo(m)) < Cardinality(UpTo(n))
    <2>1. UpTo(m) \subseteq UpTo(n) /\ n \in UpTo(n) /\ n \notin UpTo(m)
      <3>1. m \in Int /\ n \in Int /\ \A x \in S : x \in Int
        OBVIOUS
      <3>2. \A x \in S : x <= m => x <= n
        BY <1>3, <3>1
      <3>3. n <= n /\ ~(n <= m)
        BY <1>3, <3>1
      <3> QED BY <3>2, <3>3
    <2>2. UpTo(m) # UpTo(n)
      BY <2>1
    <2>3. Cardinality(UpTo(m)) <= Cardinality(UpTo(n)) /\ Cardinality(UpTo(m)) # Cardinality(UpTo(n))
      BY <1>2, <2>1, <2>2, FS_Subset
    <2> QED BY <1>2, <2>3
  <1>4. DOMAIN Remap(S) = S /\ \A m \in S : Remap(S)[m] = made + Cardinality(UpTo(m))
    BY DEF Remap
  <1> HIDE DEF UpTo
  <1>5. \A m \in S : Remap(S)[m] \in (made + 1)..(made + Cardinality(S))
    BY <1>1, <1>2, <1>4
  <1>6. ASSUME NEW m \in S, NEW n \in S, Remap(S)[m] = Remap(S)[n] PROVE m = n
    <2>1. Cardinality(UpTo(m)) = Cardinality(UpTo(n))
      BY <1>2, <1>4, <1>6
    <2>2. ~(m < n) /\ ~(n < m)
      BY <1>2, <1>3, <2>1
    <2> QED BY <2>2
  <1> QED BY <1>1, <1>4, <1>5, <1>6

(* What was archived stays so while a memory that comes or stays has the    *)
(* environment it had.                                                      *)
LEMMA ArchiveStays ==
    ASSUME NEW e, NEW rows, NEW edges, IsArchive(e, rows, edges),
           made \in Nat, made' \in Nat, made <= made',
           \A m \in DOMAIN rows \cap Stored' :
              (m \in Stored /\ mem'[m].env = mem[m].env) \/ mem'[m].env = e
    PROVE  IsArchive(e, rows, edges)'
  BY DEF IsArchive, Stored

LEMMA ArchivesStay ==
    ASSUME ArchivesHold, made \in Nat, made' \in Nat, made <= made', shots' = shots,
           \A e \in Environments : \A m \in Archived(e) \cap Stored' :
              (m \in Stored /\ mem'[m].env = mem[m].env) \/ mem'[m].env = e
    PROVE  ArchivesHold'
  <1> SUFFICES ASSUME NEW e \in Environments
               PROVE  /\ \A s \in shots[e] : IsArchive(e, s.rows, s.kin)' /\ LeadElsewhere(s.ext, s.rows)
                      /\ \A f \in Environments \ {e} : Archived(e) \cap Archived(f) = {}
    BY DEF ArchivesHold, Archived, LeadElsewhere
  <1>1. ASSUME NEW s \in shots[e]
        PROVE  IsArchive(e, s.rows, s.kin)' /\ LeadElsewhere(s.ext, s.rows)
    <2>1. IsArchive(e, s.rows, s.kin) /\ LeadElsewhere(s.ext, s.rows)
      BY DEF ArchivesHold
    <2>2. DOMAIN s.rows \subseteq Archived(e)
      BY DEF Archived
    <2>3. \A m \in DOMAIN s.rows \cap Stored' :
              (m \in Stored /\ mem'[m].env = mem[m].env) \/ mem'[m].env = e
      BY <2>2
    <2>4. IsArchive(e, s.rows, s.kin)'
      BY <2>1, <2>3, ArchiveStays
    <2> QED BY <2>1, <2>4
  <1>2. \A f \in Environments \ {e} : Archived(e) \cap Archived(f) = {}
    BY DEF ArchivesHold
  <1> QED BY <1>1, <1>2

LEMMA EnvFacts ==
    ASSUME EnvInv
    PROVE  /\ EnvTyped /\ ArchivesHold /\ DOMAIN shots = Environments
           /\ made \in Nat /\ Stored \subseteq 1..made /\ \A m \in Stored : IsRow(mem[m])
           /\ \A p \in kin : p[1] \in Stored /\ p[2] \in Stored /\ p[1] # p[2]
  BY DEF EnvInv, EnvTyped

LEMMA TypedNext ==
    ASSUME made' \in Nat, Stored' \subseteq 1..made', \A m \in Stored' : IsRow(mem'[m]),
           DOMAIN shots' = Environments,
           \A p \in kin' : p[1] \in Stored' /\ p[2] \in Stored' /\ p[1] # p[2]
    PROVE  EnvTyped'
  BY DEF EnvTyped, IsRow

LEMMA TypedStays ==
    ASSUME EnvInv, mem' = mem, kin' = kin, DOMAIN shots' = Environments,
           made' \in Nat, made <= made'
    PROVE  EnvTyped' /\ Stored' = Stored
  <1>1. Stored' = Stored
    BY DEF Stored
  <1>2. made \in Nat /\ Stored \subseteq 1..made
    BY EnvFacts
  <1>3. Stored' \subseteq 1..made'
    BY <1>1, <1>2
  <1>4. \A m \in Stored' : IsRow(mem'[m])
    BY <1>1, EnvFacts
  <1>5. \A p \in kin' : p[1] \in Stored' /\ p[2] \in Stored' /\ p[1] # p[2]
    BY <1>1, EnvFacts
  <1> QED BY <1>1, <1>3, <1>4, <1>5, TypedNext

(* Archived memories have ids that were given out.                          *)
LEMMA ArchivedIds ==
    ASSUME ArchivesHold, NEW e \in Environments, NEW m \in Archived(e)
    PROVE  m \in 1..made /\ (m \in Stored => mem[m].env = e)
  BY DEF ArchivesHold, Archived, IsArchive

----------------------------------------------------------------------------
(* EnvOps: calls by others                                                  *)

(* A call beside an operation changes no environment of a row.              *)
LEMMA CallsPass ==
    ASSUME EnvInv, op' = op, shots' = shots, EnvTyped', made <= made',
           \A m \in Stored' : (m \in Stored /\ mem'[m].env = mem[m].env) \/ m > made
    PROVE  EnvInv'
  <1> USE DEF EnvInv
  <1>1. made \in Nat /\ made' \in Nat /\ Stored \subseteq 1..made
    BY DEF EnvTyped
  <1>2. ArchivesHold'
    <2>1. \A e \in Environments : \A m \in Archived(e) \cap Stored' :
              m \in Stored /\ mem'[m].env = mem[m].env
      BY <1>1, ArchivedIds
    <2> QED BY <1>1, <2>1, ArchivesStay
  <1>3. \A e : Archived(e)' = Archived(e)
    BY DEF Archived
  <1>4. CASE op = Idle
    BY <1>2, <1>4 DEF OperationFits
  <1>5. CASE op.kind \in {"clone", "merge"} /\ CopyFits
    <2>1. ASSUME op.at = "links", NEW m \in DOMAIN op.remap
          PROVE  op.remap[m] \in 1..made' \ Stored'
      <3>1. op.remap[m] \in 1..made \ Stored
        BY <1>5, <2>1 DEF CopyFits
      <3> QED BY <1>1, <3>1
    <2>2. CopyFits'
      BY <1>3, <1>5, <2>1 DEF CopyFits
    <2> QED BY <1>2, <1>5, <2>2 DEF OperationFits
  <1>6. CASE op.kind = "delete" /\ op.src \in Environments
    BY <1>2, <1>6 DEF OperationFits
  <1>7. CASE /\ op.kind = "snapshot" /\ op.src \in Environments
             /\ IsArchive(op.src, op.rows, op.kin)
             /\ \A f \in Environments \ {op.src} : DOMAIN op.rows \cap Archived(f) = {}
    <2>1. PICK e, rows, edges : e = op.src /\ rows = op.rows /\ edges = op.kin
      OBVIOUS
    <2>2. IsArchive(e, rows, edges)
      BY <1>7, <2>1
    <2>3. \A m \in DOMAIN rows \cap Stored' : m \in Stored /\ mem'[m].env = mem[m].env
      BY <1>1, <2>2 DEF IsArchive
    <2>4. IsArchive(e, rows, edges)'
      BY <1>1, <2>2, <2>3, ArchiveStays
    <2>5. IsArchive(op.src, op.rows, op.kin)'
      BY <2>1, <2>4 DEF IsArchive
    <2> QED BY <1>2, <1>3, <1>7, <2>5 DEF OperationFits
  <1>8. CASE op.kind = "restore" /\ RestoreFits
    <2>1. Shot' = Shot
      BY DEF Shot
    <2>2. LeadElsewhere(op.ext, Shot.rows)'
      BY <1>8, <2>1 DEF LeadElsewhere, RestoreFits
    <2>3. ASSUME op.at # "read"
          PROVE  /\ op.upto \in 0..made'
                 /\ \A m \in Stored' :
                       (mem'[m].env = op.src /\ m <= op.upto) <=> m \in op.gone
      <3>1. /\ op.upto \in 0..made /\ op.gone \subseteq 1..op.upto
            /\ \A m \in Stored : (mem[m].env = op.src /\ m <= op.upto) <=> m \in op.gone
        BY <1>8, <2>3 DEF RestoreFits
      <3>2. op.upto \in 0..made'
        BY <1>1, <3>1
      <3>3. ASSUME NEW m \in Stored', m \notin Stored
            PROVE  ~(m <= op.upto) /\ m \notin op.gone
        <4>1. m \in 1..made' /\ m > made
          BY <3>3 DEF EnvTyped
        <4>2. ~(m <= op.upto)
          BY <1>1, <3>1, <4>1
        <4>3. m \notin 1..op.upto
          BY <3>1, <4>1, <4>2
        <4> QED BY <3>1, <4>2, <4>3
      <3>4. \A m \in Stored' : m \in Stored => mem'[m].env = mem[m].env
        BY <1>1
      <3>5. ASSUME NEW m \in Stored'
            PROVE  (mem'[m].env = op.src /\ m <= op.upto) <=> m \in op.gone
        <4>1. CASE m \in Stored
          BY <3>1, <3>4, <4>1
        <4>2. CASE m \notin Stored
          BY <3>3, <4>2
        <4> QED BY <4>1, <4>2
      <3> QED BY <3>2, <3>5
    <2>4. RestoreFits'
      BY <1>8, <2>1, <2>2, <2>3 DEF RestoreFits
    <2> QED BY <1>2, <1>8, <2>4 DEF OperationFits
  <1>9. CASE /\ op.kind = "migrate"
             /\ DOMAIN op = {"kind", "src", "dst", "moves", "edges", "todo", "heir", "remap"}
    BY <1>2, <1>9 DEF OperationFits
  <1> QED BY <1>4, <1>5, <1>6, <1>7, <1>8, <1>9 DEF OperationFits

LEMMA CallKeeps == ASSUME EnvInv, Call PROVE EnvInv'
  <1>1. CASE EndWrite
    <2> DEFINE new == [m \in {made + 1} |-> Row(writing, "active", 1)]
    <2>1. /\ Stored' = Stored \cup {made + 1}
          /\ \A m \in Stored : mem'[m] = mem[m]
          /\ IsRow(mem'[made + 1])
      <3>1. DOMAIN new = {made + 1} /\ IsRow(new[made + 1])
        BY DEF Row, IsRow
      <3>2. mem' = Put(new, mem)
        BY <1>1 DEF EndWrite
      <3>3. made + 1 \notin Stored
        BY EnvFacts
      <3> HIDE DEF new
      <3>4. mem' = [m \in Stored \cup {made + 1} |-> IF m \in {made + 1} THEN new[m] ELSE mem[m]]
        BY <3>1, <3>2 DEF Put, Stored
      <3>5. /\ Stored' = Stored \cup {made + 1} /\ mem'[made + 1] = new[made + 1]
            /\ \A m \in Stored : mem'[m] = mem[m]
        BY <3>3, <3>4 DEF Stored
      <3> QED BY <3>1, <3>5 DEF IsRow
    <2>2. made' = made + 1 /\ kin' = kin /\ op' = op /\ shots' = shots
      BY <1>1 DEF EndWrite
    <2>3. EnvTyped'
      BY EnvFacts, <2>1, <2>2, TypedNext
    <2> QED BY EnvFacts, <2>1, <2>2, <2>3, CallsPass
  <1>2. ASSUME NEW e \in Environments, BeginWrite(e) PROVE EnvInv'
    <2>1. /\ mem' = mem /\ made' = made /\ kin' = kin /\ op' = op /\ shots' = shots
      BY <1>2 DEF BeginWrite, Calls
    <2>2. EnvTyped' /\ Stored' = Stored
      BY EnvFacts, <2>1, TypedStays
    <2> QED BY EnvFacts, <2>1, <2>2, CallsPass
  <1>3. ASSUME NEW m \in Stored, MemoryUpdate(m) PROVE EnvInv'
    <2>1. /\ made' = made /\ kin' = kin /\ op' = op /\ shots' = shots
          /\ mem' = [mem EXCEPT ![m].ver = @ + 1]
      BY <1>3 DEF MemoryUpdate, Calls
    <2>2. Stored' = Stored /\ \A n \in Stored : IsRow(mem'[n]) /\ mem'[n].env = mem[n].env
      BY EnvFacts, <2>1 DEF Stored, IsRow
    <2>3. EnvTyped'
      BY EnvFacts, <2>1, <2>2, TypedNext
    <2> QED BY EnvFacts, <2>1, <2>2, <2>3, CallsPass
  <1>4. ASSUME NEW m \in Stored, MemoryHardDelete(m) PROVE EnvInv'
    <2>1. /\ made' = made /\ kin' = kin /\ op' = op /\ shots' = shots
          /\ mem' = Drop({m}, mem) /\ Crossing({m}) = {}
      BY <1>4 DEF MemoryHardDelete, Calls
    <2>2. Stored' = Stored \ {m} /\ \A n \in Stored' : mem'[n] = mem[n]
      BY <2>1 DEF Drop, Stored
    <2>3. \A p \in kin : p[1] # m /\ p[2] # m
      BY EnvFacts, <2>1 DEF Crossing
    <2>4. EnvTyped'
      BY EnvFacts, <2>1, <2>2, <2>3, TypedNext
    <2>5. made <= made' /\ \A n \in Stored' : n \in Stored /\ mem'[n].env = mem[n].env
      <3>1. made <= made'
        BY EnvFacts, <2>1
      <3> QED BY <2>2, <3>1
    <2> QED BY <2>1, <2>4, <2>5, CallsPass
  <1>5. ASSUME NEW m \in Stored, NEW d \in Environments, MemorySupersede(m, d) PROVE EnvInv'
    <2> DEFINE new == [n \in {m, made + 1} |->
                         IF n = m THEN [mem[m] EXCEPT !.status = "superseded", !.ver = @ + 1,
                                                      !.by = made + 1]
                         ELSE Row(d, "active", 1)]
    <2>1. /\ made' = made + 1 /\ op' = op /\ shots' = shots
          /\ kin' = kin \cup {<<m, made + 1>>} /\ mem' = Put(new, mem)
      BY <1>5 DEF MemorySupersede, Calls
    <2>2. /\ DOMAIN new = {m, made + 1} /\ made + 1 \notin Stored /\ m # made + 1
          /\ IsRow(new[m]) /\ new[m].env = mem[m].env /\ IsRow(new[made + 1])
      <3>1. DOMAIN new = {m, made + 1} /\ made + 1 \notin Stored /\ m # made + 1
        BY EnvFacts
      <3>2. new[m] = [mem[m] EXCEPT !.status = "superseded", !.ver = @ + 1, !.by = made + 1]
        OBVIOUS
      <3>3. DOMAIN mem[m] = {"env", "status", "by", "ver"}
        BY EnvFacts DEF IsRow
      <3>4. IsRow(new[m]) /\ new[m].env = mem[m].env
        BY <3>2, <3>3 DEF IsRow
      <3>5. new[made + 1] = Row(d, "active", 1)
        BY <3>1
      <3> QED BY <3>1, <3>4, <3>5 DEF IsRow, Row
    <2> HIDE DEF new
    <2>3. /\ Stored' = Stored \cup {made + 1}
          /\ \A n \in Stored : n # m => mem'[n] = mem[n]
          /\ mem'[m] = new[m] /\ mem'[made + 1] = new[made + 1]
      BY <2>1, <2>2 DEF Put, Stored
    <2>4. \A p \in kin' : p[1] \in Stored' /\ p[2] \in Stored' /\ p[1] # p[2]
      BY EnvFacts, <2>1, <2>2, <2>3
    <2>5. \A n \in Stored' : IsRow(mem'[n])
      BY EnvFacts, <2>2, <2>3
    <2>6. EnvTyped'
      BY EnvFacts, <2>1, <2>3, <2>4, <2>5, TypedNext
    <2> QED BY EnvFacts, <2>1, <2>2, <2>3, <2>6, CallsPass
  <1> QED BY <1>1, <1>2, <1>3, <1>4, <1>5 DEF Call

----------------------------------------------------------------------------
(* EnvOps: operations begin                                                 *)

(* An operation that begins or ends without touching the rows.              *)
LEMMA RowsStay ==
    ASSUME EnvInv, mem' = mem, kin' = kin, made' = made, shots' = shots
    PROVE  /\ EnvTyped' /\ ArchivesHold' /\ Stored' = Stored
           /\ \A e : Archived(e)' = Archived(e)
           /\ op' = Idle => EnvInv'
  <1>1. Stored' = Stored /\ \A e : Archived(e)' = Archived(e)
    BY DEF Stored, Archived
  <1>2. EnvTyped'
    BY EnvFacts, TypedStays
  <1>3. ArchivesHold'
    <2>1. made \in Nat /\ made' \in Nat /\ made <= made'
      BY EnvFacts
    <2>2. \A m \in Stored' : m \in Stored /\ mem'[m].env = mem[m].env
      BY <1>1
    <2> QED BY EnvFacts, <2>1, <2>2, ArchivesStay
  <1> QED BY <1>1, <1>2, <1>3 DEF EnvInv, OperationFits

(* Between an environment's own rows and archives and those of others.      *)
LEMMA RowsOfEnv ==
    ASSUME EnvTyped, ArchivesHold, NEW e \in Environments
    PROVE  /\ IsArchive(e, RowsIn(e), Within(In(e)))
           /\ \A f \in Environments \ {e} : In(e) \cap Archived(f) = {}
           /\ \A s \in shots[e] : LeadElsewhere(Crossing(In(e)), s.rows)
  <1>1. DOMAIN RowsIn(e) = In(e) /\ \A m \in In(e) : RowsIn(e)[m] = mem[m] /\ mem[m].env = e
    BY DEF RowsIn, In
  <1>2. IsArchive(e, RowsIn(e), Within(In(e)))
    BY <1>1 DEF EnvTyped, IsArchive, In, Within
  <1>3. \A f \in Environments \ {e} : In(e) \cap Archived(f) = {}
    BY <1>1, ArchivedIds DEF In
  <1>4. ASSUME NEW s \in shots[e] PROVE LeadElsewhere(Crossing(In(e)), s.rows)
    <2>1. \A m \in DOMAIN s.rows : m \in Stored => m \in In(e)
      BY DEF ArchivesHold, IsArchive, In
    <2> QED BY <2>1 DEF LeadElsewhere, Crossing, EnvTyped
  <1> QED BY <1>2, <1>3, <1>4

LEMMA StartKeeps == ASSUME EnvInv, Starts, op' # op PROVE EnvInv'
  <1>1. ASSUME NEW s \in Environments, NEW d \in Environments, NEW f \in BOOLEAN,
               BeginClone(s, d, f)
        PROVE  EnvInv'
    <2>1. /\ op' = Copying("clone", s, d, f, FALSE, FALSE)
          /\ mem' = mem /\ kin' = kin /\ made' = made /\ shots' = shots
      BY <1>1 DEF BeginClone, BeginOp
    <2>2. op'.kind = "clone" /\ CopyFits'
      BY <2>1 DEF Copying, CopyFits
    <2> QED BY <2>1, <2>2, RowsStay DEF EnvInv, OperationFits
  <1>2. ASSUME NEW s \in Environments, NEW d \in Environments, NEW cuts \in BOOLEAN,
               NEW ends \in BOOLEAN, BeginEnvMerge(s, d, cuts, ends)
        PROVE  EnvInv'
    <2>1. /\ op' = Copying("merge", s, d, FALSE, cuts, ends)
          /\ mem' = mem /\ kin' = kin /\ made' = made /\ shots' = shots
      BY <1>2 DEF BeginEnvMerge, BeginOp, envRows
    <2>2. op'.kind = "merge" /\ CopyFits'
      BY <2>1 DEF Copying, CopyFits
    <2> QED BY <2>1, <2>2, RowsStay DEF EnvInv, OperationFits
  <1>3. ASSUME NEW e \in Environments, NEW cascade \in BOOLEAN, BeginDelete(e, cascade)
        PROVE  EnvInv'
    <2>1. /\ op'.kind = "delete" /\ op'.src = e
          /\ mem' = mem /\ kin' = kin /\ made' = made /\ shots' = shots
      BY <1>3 DEF BeginDelete, BeginOp, envRows
    <2> QED BY <2>1, RowsStay DEF EnvInv, OperationFits
  <1>4. ASSUME NEW e \in Environments, BeginSnapshot(e) PROVE EnvInv'
    <2>1. /\ op'.kind = "snapshot" /\ op'.src = e /\ op'.rows = RowsIn(e)
          /\ op'.kin = Within(In(e))
          /\ mem' = mem /\ kin' = kin /\ made' = made /\ shots' = shots
      BY <1>4 DEF BeginSnapshot, BeginOp, envRows
    <2>2. PICK rows, edges : rows = RowsIn(e) /\ edges = Within(In(e))
      OBVIOUS
    <2>3. IsArchive(e, rows, edges)
      BY EnvFacts, <2>2, RowsOfEnv
    <2>4. IsArchive(e, rows, edges)' /\ EnvTyped' /\ ArchivesHold' /\ Stored' = Stored
      BY <2>1, <2>3, RowsStay DEF IsArchive, IsRow
    <2>5. IsArchive(op.src, op.rows, op.kin)'
      BY <2>1, <2>2, <2>4
    <2>6. \A f \in Environments \ {e} : DOMAIN rows \cap Archived(f)' = {}
      <3>1. DOMAIN rows = In(e)
        BY <2>2 DEF RowsIn
      <3> QED BY EnvFacts, <2>1, <3>1, RowsOfEnv, RowsStay
    <2> QED BY <2>1, <2>2, <2>4, <2>5, <2>6 DEF EnvInv, OperationFits
  <1>5. ASSUME NEW e \in Environments, BeginRestore(e) PROVE EnvInv'
    <2>1. /\ op'.kind = "restore" /\ op'.src = e /\ op'.ext = Crossing(In(e))
          /\ op'.at = "read" /\ DOMAIN op' = {"kind", "src", "at", "ext", "gone", "upto"}
          /\ shots[e] # {}
          /\ mem' = mem /\ kin' = kin /\ made' = made /\ shots' = shots
      BY <1>5 DEF BeginRestore, BeginOp, envRows
    <2>2. Shot' \in shots[e]
      BY <2>1 DEF Shot
    <2>3. LeadElsewhere(Crossing(In(e)), Shot'.rows)
      BY EnvFacts, <2>2, RowsOfEnv
    <2>4. LeadElsewhere(op.ext, Shot.rows)'
      BY <2>1, <2>3 DEF LeadElsewhere
    <2>5. RestoreFits'
      BY <2>1, <2>4 DEF RestoreFits
    <2> QED BY <2>1, <2>5, RowsStay DEF EnvInv, OperationFits
  <1>6. ASSUME NEW s \in Environments, NEW d \in Environments, NEW moves \in BOOLEAN,
               NEW edges \in BOOLEAN, BeginMigrate(s, d, moves, edges)
        PROVE  EnvInv'
    <2>1. /\ op'.kind = "migrate"
          /\ DOMAIN op' = {"kind", "src", "dst", "moves", "edges", "todo", "heir", "remap"}
          /\ mem' = mem /\ kin' = kin /\ made' = made /\ shots' = shots
      BY <1>6 DEF BeginMigrate, BeginOp, envRows
    <2> QED BY <2>1, RowsStay DEF EnvInv, OperationFits
  <1>7. \A e, d \in Environments : ~Import(e, d)
    BY DEF Import
  <1> QED BY <1>1, <1>2, <1>3, <1>4, <1>5, <1>6, <1>7 DEF Starts

----------------------------------------------------------------------------
(* EnvOps: operations go on and end                                         *)

(* What an end of an operation has to leave.                                *)
LEMMA EndKeeps ==
    ASSUME EnvInv, op' = Idle, EnvTyped', shots' = shots, made <= made',
           \A e \in Environments : \A m \in Archived(e) \cap Stored' :
              (m \in Stored /\ mem'[m].env = mem[m].env) \/ mem'[m].env = e
    PROVE  EnvInv'
  BY ArchivesStay DEF EnvInv, OperationFits, EnvTyped

LEMMA CopyRowsKeeps == ASSUME EnvInv, CopyRows PROVE EnvInv'
  <1>1. op.kind \in {"clone", "merge"} /\ op.at = "rows" /\ CopyFits
    BY DEF EnvInv, OperationFits, CopyRows, Idle
  <1>2. PICK S : /\ S = Closure(op.src, op.filtered) \cap Stored
                 /\ op' = [op EXCEPT !.at = "links", !.remap = Remap(S),
                               !.copies = [m \in S |-> Inserted(mem[m], op.dst)]]
                 /\ made' = made + Cardinality(S)
                 /\ mem' = mem /\ kin' = kin /\ shots' = shots
    BY DEF CopyRows
  <1>3. /\ Cardinality(S) \in Nat /\ DOMAIN Remap(S) = S /\ S \subseteq 1..made
        /\ \A m \in S : Remap(S)[m] \in (made + 1)..(made + Cardinality(S))
        /\ \A m, n \in S : Remap(S)[m] = Remap(S)[n] => m = n
    <2>1. S \subseteq 1..made
      BY EnvFacts, <1>2
    <2> QED BY EnvFacts, <2>1, RemapFacts
  <1>4. made' \in Nat /\ made <= made' /\ Stored' = Stored
    BY EnvFacts, <1>2, <1>3 DEF Stored
  <1>5. EnvTyped'
    BY EnvFacts, <1>2, <1>4, TypedStays
  <1>6. ArchivesHold'
    BY EnvFacts, <1>2, <1>4, ArchivesStay
  <1>7. /\ DOMAIN op' = DOMAIN op /\ op'.kind = op.kind /\ op'.at = "links"
        /\ op'.remap = Remap(S) /\ op'.copies = [m \in S |-> Inserted(mem[m], op.dst)]
    BY <1>1, <1>2 DEF CopyFits
  <1>8. \A m \in S : IsRow(op'.copies[m])
    BY <1>7 DEF IsRow, Inserted
  <1>9. \A m \in S : Remap(S)[m] \in 1..made' \ Stored /\ Remap(S)[m] > made
    <2>1. made \in Nat /\ Stored \subseteq 1..made /\ made' = made + Cardinality(S)
      BY EnvFacts, <1>2
    <2> QED BY <1>3, <2>1
  <1>10. \A m \in S : \A e \in Environments : Remap(S)[m] \notin Archived(e)'
    <2>1. \A e \in Environments : Archived(e)' = Archived(e)
      BY <1>2 DEF Archived
    <2> QED BY EnvFacts, <1>3, <1>9, <2>1, ArchivedIds
  <1>11. CopyFits'
    <2>1. DOMAIN op' = {"kind", "src", "dst", "at", "filtered", "cuts", "ends", "remap", "copies"}
      BY <1>1, <1>7 DEF CopyFits
    <2>2. DOMAIN op'.remap = S /\ DOMAIN op'.copies = S
      BY <1>3, <1>7
    <2>3. \A m \in S : /\ IsRow(op.copies[m])' /\ op'.remap[m] \in 1..made' \ Stored'
                       /\ \A e \in Environments : op'.remap[m] \notin Archived(e)'
      BY <1>4, <1>7, <1>8, <1>9, <1>10
    <2>4. \A m, n \in S : op'.remap[m] = op'.remap[n] => m = n
      BY <1>3, <1>7
    <2> QED BY <2>1, <2>2, <2>3, <2>4 DEF CopyFits
  <1> QED BY <1>1, <1>5, <1>6, <1>7, <1>11 DEF EnvInv, OperationFits

(* The ids and edges of a copy that commits.                                *)
LEMMA LinksFacts ==
    ASSUME EnvInv, CopyLinks
    PROVE  /\ \A m \in DOMAIN op.remap :
                 /\ op.remap[m] \in 1..made \ Stored /\ op.remap[m] \in Stored'
                 /\ \A e \in Environments : op.remap[m] \notin Archived(e)
                 /\ mem'[op.remap[m]] = Linked(m) /\ IsRow(Linked(m)) /\ IsRow(op.copies[m])
           /\ \A n \in Stored : n \in Stored' /\ mem'[n] = mem[n]
           /\ \A n \in Stored' \ Stored : \E m \in DOMAIN op.remap : n = op.remap[m]
           /\ \A m, n \in DOMAIN op.remap : op.remap[m] = op.remap[n] => m = n
  <1> DEFINE N == {op.remap[m] : m \in DOMAIN op.remap}
             original(n) == CHOOSE m \in DOMAIN op.remap : op.remap[m] = n
             new == [n \in N |-> Linked(original(n))]
  <1>1. op.kind \in {"clone", "merge"} /\ op.at = "links" /\ CopyFits
    BY DEF EnvInv, OperationFits, CopyLinks, Idle
  <1>2. \A m \in DOMAIN op.remap : original(op.remap[m]) = m
    BY <1>1 DEF CopyFits
  <1>3. \A m \in DOMAIN op.remap : IsRow(Linked(m)) /\ IsRow(op.copies[m])
    BY <1>1 DEF CopyFits, Linked, IsRow
  <1>4. mem' = [n \in Stored \cup N |-> IF n \in N THEN Linked(original(n)) ELSE mem[n]]
    BY DEF CopyLinks, Put, Stored
  <1>5. N \cap Stored = {} /\ Stored' = Stored \cup N
    BY <1>1, <1>4 DEF CopyFits, Stored
  <1> HIDE DEF original
  <1>6. \A m \in DOMAIN op.remap : mem'[op.remap[m]] = Linked(m)
    BY <1>2, <1>4
  <1>7. \A n \in Stored : n \in Stored' /\ mem'[n] = mem[n]
    BY <1>4, <1>5
  <1>8. \A m \in DOMAIN op.remap : /\ op.remap[m] \in 1..made \ Stored
                                   /\ \A e \in Environments : op.remap[m] \notin Archived(e)
    BY <1>1 DEF CopyFits
  <1>9. \A m, n \in DOMAIN op.remap : op.remap[m] = op.remap[n] => m = n
    BY <1>1 DEF CopyFits
  <1> QED BY <1>3, <1>5, <1>6, <1>7, <1>8, <1>9

LEMMA CopyLinksKeeps == ASSUME EnvInv, CopyLinks PROVE EnvInv'
  <1>1. /\ op' = Idle /\ made' = made /\ shots' = shots
        /\ kin' = (kin \ Recut) \cup {<<Image(p[1]), Image(p[2])>> :
                                         p \in Within(DOMAIN op.remap) \cup Recut}
    BY DEF CopyLinks, EndsOp
  <1>2. ASSUME NEW m \in Stored PROVE Image(m) \in Stored'
    BY LinksFacts DEF Image, Copied
  <1>3. ASSUME NEW m \in Stored, NEW n \in Stored, m # n PROVE Image(m) # Image(n)
    BY <1>3, LinksFacts DEF Image, Copied
  <1>4. Within(DOMAIN op.remap) \cup Recut \subseteq kin
    BY DEF Within, Recut, Crossing
  <1>5. ASSUME NEW p \in kin' PROVE p[1] \in Stored' /\ p[2] \in Stored' /\ p[1] # p[2]
    <2>1. CASE p \in kin
      <3>1. p[1] \in Stored /\ p[2] \in Stored /\ p[1] # p[2]
        BY EnvFacts, <2>1
      <3> QED BY <3>1, LinksFacts
    <2>2. CASE \E q \in kin : p = <<Image(q[1]), Image(q[2])>>
      <3>1. PICK q \in kin : p = <<Image(q[1]), Image(q[2])>>
        BY <2>2
      <3>2. q[1] \in Stored /\ q[2] \in Stored /\ q[1] # q[2]
        BY EnvFacts
      <3>3. p[1] = Image(q[1]) /\ p[2] = Image(q[2])
        BY <3>1
      <3> QED BY <1>2, <1>3, <3>2, <3>3
    <2> QED BY <1>1, <1>4, <2>1, <2>2
  <1>6. \A n \in Stored' : IsRow(mem'[n]) /\ n \in 1..made
    <2>1. ASSUME NEW n \in Stored' \ Stored PROVE IsRow(mem'[n]) /\ n \in 1..made
      <3>1. PICK m \in DOMAIN op.remap : n = op.remap[m]
        BY LinksFacts
      <3> QED BY <3>1, LinksFacts
    <2>2. \A n \in Stored : mem'[n] = mem[n]
      BY LinksFacts
    <2> QED BY EnvFacts, <2>1, <2>2
  <1>7. EnvTyped'
    BY EnvFacts, <1>1, <1>5, <1>6, TypedNext
  <1>8. \A e \in Environments : \A m \in Archived(e) \cap Stored' :
            m \in Stored /\ mem'[m].env = mem[m].env
    BY LinksFacts
  <1> QED BY EnvFacts, <1>1, <1>7, <1>8, EndKeeps

LEMMA DeleteRowsKeeps == ASSUME EnvInv, DeleteRows PROVE EnvInv'
  <1>1. op.kind = "delete" /\ op.src \in Environments
    BY DEF EnvInv, OperationFits, DeleteRows, Idle
  <1>2. PICK e \in Environments : e = op.src
    BY <1>1
  <1>3. /\ op' = Idle /\ made' = made /\ shots' = [shots EXCEPT ![e] = {}]
        /\ mem' = Drop(In(e), mem) /\ kin' = Dropped(In(e))
    BY <1>2 DEF DeleteRows, EndsOp
  <1>4. Stored' = Stored \ In(e) /\ \A n \in Stored' : mem'[n] = mem[n]
    BY <1>3 DEF Drop, Stored
  <1>5. EnvTyped'
    BY EnvFacts, <1>3, <1>4, TypedNext DEF Dropped
  <1>6. \A f \in Environments : shots'[f] \subseteq shots[f] /\ Archived(f)' \subseteq Archived(f)
    BY EnvFacts, <1>3 DEF EnvTyped, Archived
  <1>7. ASSUME NEW f \in Environments, NEW s \in shots'[f]
        PROVE  IsArchive(f, s.rows, s.kin)' /\ LeadElsewhere(s.ext, s.rows)
    BY EnvFacts, <1>3, <1>4, <1>6 DEF ArchivesHold, IsArchive
  <1>8. ArchivesHold'
    <2>1. \A f \in Environments : \A g \in Environments \ {f} : Archived(f)' \cap Archived(g)' = {}
      BY EnvFacts, <1>6 DEF ArchivesHold
    <2> QED BY <1>7, <2>1 DEF ArchivesHold, LeadElsewhere
  <1> QED BY <1>3, <1>5, <1>8 DEF EnvInv, OperationFits

LEMMA EndSnapshotKeeps == ASSUME EnvInv, EndSnapshot PROVE EnvInv'
  <1>1. PICK e, rows, edges :
            /\ e \in Environments /\ e = op.src /\ rows = op.rows /\ edges = op.kin /\ IsArchive(e, rows, edges)
            /\ \A f \in Environments \ {e} : DOMAIN rows \cap Archived(f) = {}
    BY DEF EnvInv, OperationFits, EndSnapshot, Idle
  <1>2. PICK shot : shot = [rows |-> rows, kin |-> edges, ext |-> Crossing(In(e))]
    OBVIOUS
  <1>3. /\ op' = Idle /\ made' = made /\ mem' = mem /\ kin' = kin
        /\ shots' = [shots EXCEPT ![e] = {shot}]
    BY <1>1, <1>2 DEF EndSnapshot, EndsOp, envRows
  <1>4. DOMAIN shots = Environments
    BY EnvFacts DEF EnvTyped
  <1>5. EnvTyped' /\ Stored' = Stored
    <2>1. DOMAIN shots' = Environments /\ made' \in Nat /\ made <= made'
      BY EnvFacts, <1>3, <1>4
    <2> QED BY <1>3, <2>1, TypedStays
  <1>6. /\ shots'[e] = {shot} /\ Archived(e)' = DOMAIN rows
        /\ \A f \in Environments \ {e} : shots'[f] = shots[f] /\ Archived(f)' = Archived(f)
    <2>1. shots'[e] = {shot} /\ \A f \in Environments \ {e} : shots'[f] = shots[f]
      BY <1>1, <1>3, <1>4
    <2>2. shot.rows = rows
      BY <1>2
    <2> QED BY <2>1, <2>2 DEF Archived
  <1>7. LeadElsewhere(Crossing(In(e)), rows)
    <2>1. \A m \in DOMAIN rows : m \in Stored => m \in In(e)
      BY <1>1 DEF IsArchive, In
    <2> QED BY EnvFacts, <2>1 DEF LeadElsewhere, Crossing, EnvTyped
  <1>8. ASSUME NEW f \in Environments, NEW s \in shots'[f]
        PROVE  IsArchive(f, s.rows, s.kin)' /\ LeadElsewhere(s.ext, s.rows)
    <2>1. IsArchive(f, s.rows, s.kin) /\ LeadElsewhere(s.ext, s.rows)
      <3>1. CASE f = e
        BY <1>1, <1>2, <1>6, <1>7, <3>1
      <3>2. CASE f # e
        BY EnvFacts, <1>6, <3>2 DEF ArchivesHold
      <3> QED BY <3>1, <3>2
    <2> QED BY <1>3, <1>5, <2>1 DEF IsArchive
  <1>9. ArchivesHold'
    <2>1. \A f \in Environments : \A g \in Environments \ {f} : Archived(f)' \cap Archived(g)' = {}
      BY EnvFacts, <1>1, <1>6 DEF ArchivesHold
    <2> QED BY <1>8, <2>1 DEF ArchivesHold, LeadElsewhere
  <1> QED BY <1>3, <1>5, <1>9 DEF EnvInv, OperationFits

LEMMA RestoreReads ==
    ASSUME EnvInv, op.kind = "restore"
    PROVE  /\ RestoreFits /\ op.src \in Environments /\ Shot \in shots[op.src]
           /\ IsArchive(op.src, Shot.rows, Shot.kin)
           /\ LeadElsewhere(Shot.ext, Shot.rows) /\ LeadElsewhere(op.ext, Shot.rows)
  <1>1. RestoreFits
    BY DEF EnvInv, OperationFits, Idle
  <1>2. op.src \in Environments /\ Shot \in shots[op.src]
    BY <1>1 DEF RestoreFits, Shot
  <1> QED BY <1>1, <1>2 DEF EnvInv, ArchivesHold, RestoreFits

(* The environment is emptied: of what the DELETE saw, which nobody moves.  *)
LEMMA EmptyingKeeps == ASSUME EnvInv, BeginEmptying \/ EndEmptying PROVE EnvInv'
  <1>1. /\ op.kind = "restore" /\ mem' = mem /\ kin' = kin /\ made' = made /\ shots' = shots
    BY DEF BeginEmptying, EndEmptying, OnlyOp, envRows
  <1>2. RestoreFits /\ Shot \in shots[op.src] /\ DOMAIN Shot.rows \subseteq 1..made
    BY <1>1, RestoreReads DEF IsArchive
  <1>3. EnvTyped' /\ ArchivesHold' /\ Stored' = Stored
    BY <1>1, RowsStay
  <1>4. /\ DOMAIN op' = DOMAIN op /\ op'.kind = op.kind /\ op'.src = op.src /\ op'.ext = op.ext
        /\ \/ op'.gone = In(op.src) /\ op'.upto = made
           \/ op'.gone = op.gone /\ op'.upto = op.upto /\ op.at # "read"
    BY <1>2 DEF BeginEmptying, EndEmptying, RestoreFits
  <1>5. Shot' = Shot
    BY <1>1, <1>4 DEF Shot
  <1>6. ASSUME op'.gone = In(op.src), op'.upto = made
        PROVE  /\ op'.upto \in 0..made /\ DOMAIN Shot.rows \subseteq 1..op'.upto
               /\ op'.gone \subseteq 1..op'.upto
               /\ \A m \in Stored : (mem[m].env = op.src /\ m <= op'.upto) <=> m \in op'.gone
    <2>1. made \in Nat /\ Stored \subseteq 1..made
      BY EnvFacts
    <2>2. \A m \in Stored : m <= made
      BY <2>1
    <2>3. In(op.src) \subseteq 1..made
      BY <2>1 DEF In
    <2>4. made \in 0..made
      BY <2>1
    <2>5. \A m \in Stored : mem[m].env = op.src <=> m \in In(op.src)
      BY DEF In
    <2> QED BY <1>2, <1>6, <2>2, <2>3, <2>4, <2>5
  <1>7. /\ op'.upto \in 0..made /\ DOMAIN Shot.rows \subseteq 1..op'.upto
        /\ op'.gone \subseteq 1..op'.upto
        /\ \A m \in Stored : (mem[m].env = op.src /\ m <= op'.upto) <=> m \in op'.gone
    <2>1. CASE op'.gone = In(op.src) /\ op'.upto = made
      BY <1>6, <2>1
    <2>2. CASE op'.gone = op.gone /\ op'.upto = op.upto /\ op.at # "read"
      BY <1>2, <2>2 DEF RestoreFits
    <2> QED BY <1>4, <2>1, <2>2
  <1>8. LeadElsewhere(op.ext, Shot.rows)'
    BY <1>2, <1>4, <1>5 DEF RestoreFits, LeadElsewhere
  <1>9. RestoreFits'
    BY <1>1, <1>2, <1>3, <1>4, <1>5, <1>7, <1>8 DEF RestoreFits
  <1> QED BY <1>1, <1>3, <1>4, <1>9 DEF EnvInv, OperationFits

(* What a restore commits: the archive's rows, and the rest of the others'. *)
LEMMA RestoreFacts ==
    ASSUME EnvInv, RestoreRows
    PROVE  /\ op.kind = "restore" /\ op.src \in Environments /\ Shot \in shots[op.src]
           /\ IsArchive(op.src, Shot.rows, Shot.kin)
           /\ Stored' = (Stored \ op.gone) \cup DOMAIN Shot.rows
           /\ \A m \in DOMAIN Shot.rows : mem'[m] = Shot.rows[m] /\ mem'[m].env = op.src
           /\ \A m \in Stored \ op.gone :
                 /\ m \notin DOMAIN Shot.rows /\ mem'[m] = mem[m]
                 /\ mem[m].env = op.src => m > op.upto
           /\ kin' = Dropped(op.gone) \cup Shot.kin \cup Back(Shot.ext) \cup Back(op.ext)
           /\ LeadElsewhere(Shot.ext, Shot.rows) /\ LeadElsewhere(op.ext, Shot.rows)
  <1>1. op.kind = "restore" /\ op.at = "emptied"
    BY DEF RestoreRows
  <1> DEFINE e == op.src
             rows == Shot.rows
  <1>2. /\ RestoreFits /\ e \in Environments /\ Shot \in shots[e]
        /\ IsArchive(e, rows, Shot.kin)
        /\ LeadElsewhere(Shot.ext, rows) /\ LeadElsewhere(op.ext, rows)
    BY <1>1, RestoreReads
  <1>3. /\ op.upto \in Nat /\ DOMAIN rows \subseteq 1..op.upto
        /\ \A m \in Stored : (mem[m].env = e /\ m <= op.upto) <=> m \in op.gone
    BY <1>1, <1>2 DEF RestoreFits
  <1>4. ASSUME NEW m \in Stored \ op.gone
        PROVE  m \notin DOMAIN rows /\ (mem[m].env = e => m > op.upto)
    <2>1. m \in Nat
      BY EnvFacts
    <2>2. mem[m].env = e => ~(m <= op.upto)
      BY <1>3
    <2>3. m \in DOMAIN rows => mem[m].env = e /\ m <= op.upto
      BY <1>2, <1>3 DEF IsArchive
    <2> QED BY <1>3, <2>1, <2>2, <2>3
  <1>5. /\ mem' = [m \in (Stored \ op.gone) \cup DOMAIN rows |->
                      IF m \in DOMAIN rows THEN rows[m] ELSE Drop(op.gone, mem)[m]]
        /\ kin' = Dropped(op.gone) \cup Shot.kin \cup Back(Shot.ext) \cup Back(op.ext)
    BY DEF RestoreRows, Put, Drop, Stored
  <1>6. \A m \in Stored \ op.gone : Drop(op.gone, mem)[m] = mem[m]
    BY DEF Drop, Stored
  <1>7. Stored' = (Stored \ op.gone) \cup DOMAIN rows
    BY <1>5 DEF Stored
  <1>8. \A m \in DOMAIN rows : mem'[m] = rows[m] /\ rows[m].env = e
    BY <1>2, <1>5 DEF IsArchive
  <1>9. \A m \in Stored \ op.gone : mem'[m] = mem[m]
    BY <1>4, <1>5, <1>6
  <1> QED BY <1>1, <1>2, <1>4, <1>5, <1>7, <1>8, <1>9

LEMMA RestoreRowsKeeps == ASSUME EnvInv, RestoreRows PROVE EnvInv'
  <1>1. op' = Idle /\ made' = made /\ shots' = shots
    BY DEF RestoreRows, EndsOp
  <1> DEFINE e == op.src
             rows == Shot.rows
  <1>2. /\ e \in Environments /\ Shot \in shots[e]
        /\ DOMAIN rows \subseteq 1..made /\ \A m \in DOMAIN rows : IsRow(rows[m])
        /\ \A p \in Shot.kin : p[1] \in DOMAIN rows /\ p[2] \in DOMAIN rows /\ p[1] # p[2]
    BY RestoreFacts DEF IsArchive
  <1>3. /\ Stored' = (Stored \ op.gone) \cup DOMAIN rows
        /\ \A m \in DOMAIN rows : mem'[m] = rows[m] /\ mem'[m].env = e
        /\ \A m \in Stored \ op.gone : mem'[m] = mem[m]
        /\ kin' = Dropped(op.gone) \cup Shot.kin \cup Back(Shot.ext) \cup Back(op.ext)
    BY RestoreFacts
  <1>4. \A p \in Back(Shot.ext) \cup Back(op.ext) :
            p[1] \in Stored' /\ p[2] \in Stored' /\ p[1] # p[2]
    BY <1>3, RestoreFacts DEF Back, There, LeadElsewhere
  <1>5. \A p \in Dropped(op.gone) : p[1] \in Stored' /\ p[2] \in Stored' /\ p[1] # p[2]
    BY EnvFacts, <1>3 DEF Dropped
  <1>6. \A p \in kin' : p[1] \in Stored' /\ p[2] \in Stored' /\ p[1] # p[2]
    BY <1>2, <1>3, <1>4, <1>5
  <1>7. EnvTyped'
    BY EnvFacts, <1>1, <1>2, <1>3, <1>6, TypedNext
  <1>8. ASSUME NEW f \in Environments, NEW m \in Archived(f), m \in Stored'
        PROVE  (m \in Stored /\ mem'[m].env = mem[m].env) \/ mem'[m].env = f
    <2>1. CASE m \in DOMAIN rows
      <3>1. m \in Archived(e)
        BY <1>2, <2>1 DEF Archived
      <3>2. f = e
        BY EnvFacts, <1>2, <3>1 DEF ArchivesHold
      <3> QED BY <1>3, <2>1, <3>2
    <2>2. CASE m \in Stored \ op.gone
      BY <1>3, <2>2
    <2> QED BY <1>3, <1>8, <2>1, <2>2
  <1> QED BY EnvFacts, <1>1, <1>7, <1>8, EndKeeps

LEMMA ImportKeeps ==
    ASSUME EnvInv, NEW e \in Environments, NEW d \in Environments, Import(e, d)
    PROVE  EnvInv'
  <1> DEFINE S(s) == DOMAIN s.rows
             map(s) == Remap(S(s))
             imported(s, m) ==
                          IF s.rows[m].by \in S(s)
                          THEN [s.rows[m] EXCEPT !.env = d, !.by = map(s)[@]]
                          ELSE Inserted(s.rows[m], d)
             N(s) == {map(s)[m] : m \in S(s)}
             new(s) == [n \in N(s) |-> imported(s, CHOOSE m \in S(s) : map(s)[m] = n)]
  <1>1. /\ op = Idle /\ op' = op /\ shots' = shots
        /\ \E s \in shots[e] :
              /\ made' = made + Cardinality(S(s))
              /\ mem' = Put(new(s), mem)
              /\ kin' = kin \cup {<<map(s)[p[1]], map(s)[p[2]]>> : p \in s.kin}
    BY DEF Import
  <1>2. PICK s \in shots[e] :
              /\ made' = made + Cardinality(S(s))
              /\ mem' = Put(new(s), mem)
              /\ kin' = kin \cup {<<map(s)[p[1]], map(s)[p[2]]>> : p \in s.kin}
    BY <1>1
  <1>3. IsArchive(e, s.rows, s.kin)
    BY EnvFacts DEF ArchivesHold
  <1>4. /\ Cardinality(S(s)) \in Nat
        /\ \A m \in S(s) : map(s)[m] \in (made + 1)..(made + Cardinality(S(s)))
        /\ \A m, n \in S(s) : map(s)[m] = map(s)[n] => m = n
    BY EnvFacts, <1>3, RemapFacts DEF IsArchive
  <1>5. \A m \in S(s) : IsRow(imported(s, m))
    <2>1. \A m \in S(s) : IsRow(s.rows[m])
      BY <1>3 DEF IsArchive
    <2> QED BY <2>1 DEF IsRow, Inserted
  <1>6. ASSUME NEW n \in N(s) PROVE n \in (made + 1)..made' /\ n > made
    <2>1. PICK m \in S(s) : n = map(s)[m]
      OBVIOUS
    <2>2. n \in (made + 1)..(made + Cardinality(S(s)))
      BY <1>4, <2>1
    <2> HIDE DEF S, N, map, new, imported
    <2>3. made' = made + Cardinality(S(s)) /\ Cardinality(S(s)) \in Nat
      BY <1>2, <1>4
    <2> QED BY EnvFacts, <2>2, <2>3
  <1>7. \A n \in N(s) : (CHOOSE m \in S(s) : map(s)[m] = n) \in S(s)
    OBVIOUS
  <1>8. DOMAIN new(s) = N(s) /\ \A n \in N(s) : IsRow(new(s)[n])
    <2> HIDE DEF imported, N
    <2>1. \A n \in N(s) : new(s)[n] = imported(s, CHOOSE m \in S(s) : map(s)[m] = n)
      OBVIOUS
    <2> QED BY <1>5, <1>7, <2>1
  <1>9. /\ made \in Nat /\ made' \in Nat /\ made <= made'
         /\ \A p \in s.kin : /\ map(s)[p[1]] \in N(s) /\ map(s)[p[2]] \in N(s)
                             /\ map(s)[p[1]] # map(s)[p[2]]
    <2>1. made \in Nat /\ made' \in Nat /\ made <= made'
      <3> HIDE DEF S, N, map, new, imported
      <3> QED BY EnvFacts, <1>2, <1>4
    <2>2. \A p \in s.kin : p[1] \in S(s) /\ p[2] \in S(s) /\ p[1] # p[2]
      BY <1>3 DEF IsArchive
    <2> HIDE DEF map, S
    <2> QED BY <1>4, <2>1, <2>2
  <1> HIDE DEF new, N, map, imported, S
  <1>10. /\ Stored' = Stored \cup N(s)
         /\ \A n \in N(s) : mem'[n] = new(s)[n]
         /\ \A n \in Stored \ N(s) : mem'[n] = mem[n]
    <2>1. mem' = [n \in Stored \cup N(s) |-> IF n \in N(s) THEN new(s)[n] ELSE mem[n]]
      BY <1>2, <1>8 DEF Put, Stored
    <2> QED BY <2>1 DEF Stored
  <1>11. \A n \in Stored : n \notin N(s)
    BY EnvFacts, <1>6
  <1>12. \A p \in kin' : p[1] \in Stored' /\ p[2] \in Stored' /\ p[1] # p[2]
    BY EnvFacts, <1>2, <1>9, <1>10
  <1>13. \A n \in Stored' : IsRow(mem'[n]) /\ n \in 1..made'
    BY EnvFacts, <1>6, <1>8, <1>9, <1>10, <1>11
  <1>14. EnvTyped'
    BY EnvFacts, <1>1, <1>9, <1>12, <1>13, TypedNext
  <1> QED BY <1>1, <1>6, <1>9, <1>10, <1>11, <1>14, CallsPass

LEMMA MigrateKeeps ==
    ASSUME EnvInv, NEW m, MigrateOne(m) \/ MigrateFails(m)
    PROVE  EnvInv'
  <1>1. /\ op.kind = "migrate"
        /\ DOMAIN op = {"kind", "src", "dst", "moves", "edges", "todo", "heir", "remap"}
    BY DEF EnvInv, OperationFits, MigrateOne, MigrateFails, Turn, Idle
  <1>2. op'.kind = "migrate" /\ DOMAIN op' = DOMAIN op /\ shots' = shots
    BY <1>1 DEF MigrateOne, MigrateFails
  <1>3. CASE MigrateFails(m)
    <2>1. mem' = mem /\ kin' = kin /\ made' = made
      BY <1>3 DEF MigrateFails, envRows
    <2> QED BY <1>1, <1>2, <2>1, RowsStay DEF EnvInv, OperationFits
  <1>4. CASE MigrateOne(m)
    <2> DEFINE new == [n \in {m, made + 1} |->
                     IF n = made + 1 THEN Row(op.dst, "active", 1)
                     ELSE IF op.moves THEN [mem[m] EXCEPT !.status = "superseded", !.ver = @ + 1,
                                                          !.by = made + 1]
                     ELSE mem[m]]
    <2>1. /\ m \in Stored /\ made' = made + 1 /\ mem' = Put(new, mem)
          /\ kin' \subseteq kin \cup {<<m, made + 1>>}
      BY <1>4 DEF MigrateOne, Movable
    <2>2. /\ DOMAIN new = {m, made + 1} /\ made + 1 \notin Stored /\ m # made + 1
          /\ IsRow(new[m]) /\ new[m].env = mem[m].env /\ IsRow(new[made + 1])
      <3>1. DOMAIN new = {m, made + 1} /\ made + 1 \notin Stored /\ m # made + 1
        BY EnvFacts, <2>1
      <3>2. \/ new[m] = [mem[m] EXCEPT !.status = "superseded", !.ver = @ + 1, !.by = made + 1]
            \/ new[m] = mem[m]
        BY <3>1
      <3>3. DOMAIN mem[m] = {"env", "status", "by", "ver"}
        BY EnvFacts, <2>1 DEF IsRow
      <3>4. IsRow(new[m]) /\ new[m].env = mem[m].env
        BY <3>2, <3>3 DEF IsRow
      <3>5. new[made + 1] = Row(op.dst, "active", 1)
        BY <3>1
      <3> QED BY <3>1, <3>4, <3>5 DEF IsRow, Row
    <2> HIDE DEF new
    <2>3. mem' = [n \in Stored \cup {m, made + 1} |-> IF n \in {m, made + 1} THEN new[n] ELSE mem[n]]
      BY <2>1, <2>2 DEF Put, Stored
    <2>4. /\ Stored' = Stored \cup {made + 1}
          /\ \A n \in Stored : n # m => mem'[n] = mem[n]
          /\ mem'[m] = new[m] /\ mem'[made + 1] = new[made + 1]
      BY <2>1, <2>2, <2>3 DEF Stored
    <2>5. \A p \in kin' : p[1] \in Stored' /\ p[2] \in Stored' /\ p[1] # p[2]
      BY EnvFacts, <2>1, <2>2, <2>4
    <2>6. \A n \in Stored' : IsRow(mem'[n])
      BY EnvFacts, <2>2, <2>4
    <2>7. EnvTyped'
      BY EnvFacts, <1>2, <2>1, <2>4, <2>5, <2>6, TypedNext
    <2>8. \A e \in Environments : \A n \in Archived(e) \cap Stored' :
              n \in Stored /\ mem'[n].env = mem[n].env
      <3>1. \A n \in Stored' : n > made \/ (n \in Stored /\ mem'[n].env = mem[n].env)
        BY EnvFacts, <2>2, <2>4
      <3> QED BY EnvFacts, <3>1, ArchivedIds
    <2>9. ArchivesHold'
      BY EnvFacts, <1>2, <2>1, <2>8, ArchivesStay
    <2> QED BY <1>1, <1>2, <2>7, <2>9 DEF EnvInv, OperationFits
  <1> QED BY <1>3, <1>4

LEMMA RestoreChainKeeps == ASSUME EnvInv, RestoreChain PROVE EnvInv'
  <1> DEFINE N == {op.remap[m] : m \in Rechained}
             original(n) == CHOOSE x \in Rechained : op.remap[x] = n
             heir(n) == op.remap[op.heir[original(n)]]
             new == [n \in N |-> [mem[n] EXCEPT !.status = "superseded", !.by = heir(n)]]
  <1>1. /\ op' = Idle /\ made' = made /\ shots' = shots /\ kin' = kin
        /\ mem' = Put(new, mem)
    BY DEF RestoreChain, EndsOp
  <1>2. N \subseteq Stored
    BY DEF Rechained
  <1> HIDE DEF heir, N
  <1>3. \A n \in N : IsRow(new[n]) /\ new[n].env = mem[n].env
    <2>1. \A n \in N : DOMAIN mem[n] = {"env", "status", "by", "ver"}
      BY EnvFacts, <1>2 DEF IsRow
    <2> QED BY <2>1 DEF IsRow
  <1>4. DOMAIN new = N
    OBVIOUS
  <1> HIDE DEF new
  <1>5. mem' = [n \in Stored |-> IF n \in N THEN new[n] ELSE mem[n]]
    BY <1>1, <1>2, <1>4 DEF Put, Stored
  <1>6. /\ Stored' = Stored
        /\ \A n \in Stored : IsRow(mem'[n]) /\ mem'[n].env = mem[n].env
    BY EnvFacts, <1>3, <1>5 DEF Stored
  <1>7. EnvTyped'
    BY EnvFacts, <1>1, <1>6, TypedNext
  <1>8. \A e \in Environments : \A n \in Archived(e) \cap Stored' :
              n \in Stored /\ mem'[n].env = mem[n].env
    BY <1>6
  <1> QED BY EnvFacts, <1>1, <1>7, <1>8, EndKeeps

LEMMA EnvInvInit == EnvInit => EnvInv
  <1> SUFFICES ASSUME EnvInit PROVE EnvInv
    OBVIOUS
  <1>1. /\ Stored = {} /\ made = 0 /\ kin = {} /\ op = Idle
        /\ shots = [e \in Environments |-> {}]
    BY DEF EnvInit, NoMap, Stored
  <1>2. EnvTyped
    BY <1>1 DEF EnvTyped
  <1>3. ArchivesHold
    BY <1>1 DEF ArchivesHold, Archived
  <1> QED BY <1>1, <1>2, <1>3 DEF EnvInv, OperationFits

LEMMA EnvInvNext == EnvInv /\ [EnvNext]_envVars => EnvInv'
  <1> SUFFICES ASSUME EnvInv, [EnvNext]_envVars PROVE EnvInv'
    OBVIOUS
  <1>1. CASE Call
    BY <1>1, CallKeeps
  <1>2. CASE Starts /\ op' # op
    BY <1>2, StartKeeps
  <1>3. CASE Starts /\ op' = op
    <2>1. op = Idle
      BY <1>3 DEF Starts, BeginClone, BeginEnvMerge, BeginDelete, BeginSnapshot, BeginRestore,
                  BeginMigrate, BeginOp, Import
    <2>2. PICK e \in Environments, d \in Environments : Import(e, d)
      BY <1>3, <2>1 DEF Starts, BeginClone, BeginEnvMerge, BeginDelete, BeginSnapshot,
                        BeginRestore, BeginMigrate, BeginOp, Copying, Idle
    <2> QED BY <2>2, ImportKeeps
  <1>4. CASE Continues
    <2>1. CASE CopyFails \/ DeleteFails \/ RestoreFails \/ ChainFails
      <3>1. op' = Idle /\ mem' = mem /\ kin' = kin /\ made' = made /\ shots' = shots
        BY <2>1 DEF CopyFails, DeleteFails, RestoreFails, ChainFails, Refused, EndsOp, envRows
      <3> QED BY <3>1, RowsStay
    <2> QED BY <1>4, <2>1, CopyRowsKeeps, CopyLinksKeeps, DeleteRowsKeeps, EndSnapshotKeeps,
               EmptyingKeeps, RestoreRowsKeeps, MigrateKeeps, RestoreChainKeeps DEF Continues
  <1>5. CASE UNCHANGED envVars
    <2>1. op' = op /\ mem' = mem /\ kin' = kin /\ made' = made /\ shots' = shots
      BY <1>5 DEF envVars
    <2>2. EnvTyped' /\ Stored' = Stored /\ made \in Nat
      BY <2>1, RowsStay DEF EnvInv, EnvTyped
    <2> QED BY <2>1, <2>2, CallsPass
  <1> QED BY <1>1, <1>2, <1>3, <1>4, <1>5 DEF EnvNext

(* env_ops: what is archived or being copied is of the environment it came  *)
(* from, and the ids of copies are of nobody else, whoever writes meanwhile *)
(* (env_ops/).                                                              *)
THEOREM EnvInvariant == EnvSpec => []EnvInv
  <1> QED BY EnvInvInit, EnvInvNext, PTL DEF EnvSpec

LEMMA RestoresBringBack ==
    ASSUME EnvInv, EnvNext
    PROVE  RestoreIsSnapshot
  <1> SUFFICES ASSUME op.kind = "restore", op' = Idle, mem' # mem PROVE RestoreIsSnapshot
    BY DEF RestoreIsSnapshot
  <1>1. op # Idle /\ op' # op
    BY DEF Idle
  <1>2. ~Call
    BY <1>1 DEF Call, EndWrite, BeginWrite, MemoryUpdate, MemoryHardDelete, MemorySupersede, Calls
  <1>3. ~Starts
    BY <1>1 DEF Starts, BeginClone, BeginEnvMerge, BeginDelete, BeginSnapshot, BeginRestore,
                BeginMigrate, BeginOp, Import
  <1>4. RestoreRows
    BY <1>2, <1>3 DEF EnvNext, Continues, CopyRows, CopyLinks, CopyFails, DeleteRows, DeleteFails,
                      EndSnapshot, BeginEmptying, EndEmptying, OnlyOp, RestoreFails, Refused,
                      envRows, MigrateOne, MigrateFails, Turn, RestoreChain, ChainFails
  <1> DEFINE e == op.src
             rows == Shot.rows
  <1>5. \A m \in DOMAIN mem' \ DOMAIN rows :
            /\ m \in Stored /\ mem'[m] = mem[m]
            /\ mem'[m].env = e => m > op.upto
    BY <1>4, RestoreFacts DEF Stored
  <1>6. \A m \in DOMAIN rows : m \in DOMAIN mem' /\ mem'[m] = rows[m]
    BY <1>4, RestoreFacts DEF Stored
  <1>7. \A p \in Dropped(op.gone) : ~(p[1] \in DOMAIN rows /\ p[2] \in DOMAIN rows)
    <2>1. \A p \in Dropped(op.gone) : p[1] \in Stored \ op.gone
      BY DEF Dropped, EnvInv, EnvTyped
    <2> QED BY <1>4, <2>1, RestoreFacts
  <1>8. \A p \in Back(Shot.ext) \cup Back(op.ext) :
            ~(p[1] \in DOMAIN rows /\ p[2] \in DOMAIN rows)
    BY <1>4, RestoreFacts DEF Back, LeadElsewhere
  <1>9. \A p \in Shot.kin : p[1] \in DOMAIN rows /\ p[2] \in DOMAIN rows
    BY <1>4, RestoreFacts DEF IsArchive
  <1>10. {p \in kin' : p[1] \in DOMAIN rows /\ p[2] \in DOMAIN rows} = Shot.kin
    <2>1. kin' = Dropped(op.gone) \cup Shot.kin \cup Back(Shot.ext) \cup Back(op.ext)
      BY <1>4, RestoreFacts
    <2> QED BY <1>7, <1>8, <1>9, <2>1
  <1> QED BY <1>5, <1>6, <1>10 DEF RestoreIsSnapshot

LEMMA CopiesMatch ==
    ASSUME EnvInv, EnvNext
    PROVE  CopiesFollowSource
  <1> SUFFICES ASSUME op.kind \in {"clone", "merge"}, op.at = "links", op' = Idle, mem' # mem
               PROVE  CopiesFollowSource
    BY DEF CopiesFollowSource
  <1>1. op # Idle /\ op' # op
    BY DEF Idle
  <1>2. ~Call
    BY <1>1 DEF Call, EndWrite, BeginWrite, MemoryUpdate, MemoryHardDelete, MemorySupersede, Calls
  <1>3. ~Starts
    BY <1>1 DEF Starts, BeginClone, BeginEnvMerge, BeginDelete, BeginSnapshot, BeginRestore,
                BeginMigrate, BeginOp, Import
  <1>4. CopyLinks
    BY <1>2, <1>3 DEF EnvNext, Continues, CopyRows, CopyFails, DeleteRows, DeleteFails,
                      EndSnapshot, BeginEmptying, EndEmptying, OnlyOp, RestoreRows, RestoreFails,
                      Refused, envRows, MigrateOne, MigrateFails, Turn, RestoreChain, ChainFails
  <1>5. ASSUME NEW m \in DOMAIN op.remap \cap Stored, mem[m].by # 0, Copied(mem[m].by)
        PROVE  /\ mem'[op.remap[m]].by = op.remap[mem[m].by]
               /\ mem'[op.remap[m]].status = mem[m].status
    <2>1. mem'[op.remap[m]] = [op.copies[m] EXCEPT !.status = mem[m].status,
                                                   !.by = op.remap[mem[m].by]]
      BY <1>4, <1>5, LinksFacts DEF Linked
    <2>2. DOMAIN op.copies[m] = {"env", "status", "by", "ver"}
      BY <1>4, LinksFacts DEF IsRow
    <2> QED BY <2>1, <2>2
  <1>6. ASSUME NEW m \in DOMAIN op.remap \cap Stored, NEW n \in DOMAIN op.remap \cap Stored,
               <<m, n>> \in kin
        PROVE  <<op.remap[m], op.remap[n]>> \in kin'
    <2>1. <<m, n>> \in Within(DOMAIN op.remap)
      BY <1>6 DEF Within
    <2>2. Image(m) = op.remap[m] /\ Image(n) = op.remap[n]
      BY DEF Image, Copied
    <2> QED BY <1>4, <2>1, <2>2 DEF CopyLinks
  <1> QED BY <1>5, <1>6 DEF CopiesFollowSource

(* env_restore brings back what was archived and keeps nothing that was     *)
(* there before it emptied the environment, but for what callers wrote      *)
(* since; env_clone and env_merge copy what the source is when they commit  *)
(* (env_ops/).                                                              *)
THEOREM EnvsAreCopiedFaithfully == EnvSpec => EnvCopiesAreFaithful
  <1>1. EnvInv /\ [EnvNext]_envVars => [RestoreIsSnapshot /\ CopiesFollowSource]_envVars
    BY RestoresBringBack, CopiesMatch
  <1> QED BY <1>1, EnvInvariant, PTL DEF EnvSpec, EnvCopiesAreFaithful
=============================================================================
