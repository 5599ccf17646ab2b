---------------------------- MODULE OutboxProofs ----------------------------
(***************************************************************************)
(* Proofs about Outbox, for any aggregates, workers, batch size, attempt   *)
(* limit, failure modes and bounds, and about FreshRead, for the same and  *)
(* any reader.  What consistency="fresh" promises does not hold in every   *)
(* env: the theorems state the envs where it does.                         *)
(***************************************************************************)
EXTENDS FreshRead, WellFoundedInduction, TLAPS

(* resolve_sinks_for and the loop of _run only name the two sinks.          *)
LEMMA SinkTypes ==
    ASSUME NEW a, NEW s \in Sinks
    PROVE  SinkOf(a) \in Sinks /\ OtherSink(s) \in Sinks
  <1>1. \E t \in Sinks : t # s
    BY DEF Sinks
  <1> QED BY <1>1 DEF SinkOf, OtherSink, Sinks

(* LIMIT takes rows from among those selected.                              *)
LEMMA LowestSubset == ASSUME NEW S, NEW n PROVE Lowest(S, n) \subseteq S
  BY DEF Lowest

(* Every variable keeps its type, rows and deliveries exist together, and a *)
(* worker that has dispatched an event still holds it.                      *)
LEMMA TypeInit == Init => TypeOK
  <1> SUFFICES ASSUME Init PROVE TypeOK
    OBVIOUS
  <1>1. 1 \in 1..(MaxEvents + 1)
    BY BoundsAssumption
  <1>2. 0 \notin EventIds
    BY DEF EventIds
  <1> QED BY <1>1, <1>2 DEF Init, TypeOK, Committed, Sinks, RowStatuses, WorkerStates, NoRow

(* Every step of a writer, a worker or the clock keeps TypeOK.              *)
LEMMA TypeNext == TypeOK /\ [Next]_vars => TypeOK'
  <1> USE BoundsAssumption
  <1> SUFFICES ASSUME TypeOK, [Next]_vars PROVE TypeOK'
    OBVIOUS
  <1>0. 0 \notin EventIds
    BY DEF EventIds
  <1>1. ASSUME NEW a \in Aggregates, EnqueueEvent(a) PROVE TypeOK'
    <2>1. nextId \in EventIds /\ nextId + 1 \in 1..(MaxEvents + 1)
      BY <1>1 DEF EnqueueEvent, TypeOK, EventIds
    <2>2. PICK op \in OpsOf(a), body \in BodiesOf(a) :
             outbox' = [outbox EXCEPT ![nextId] =
                          [agg |-> a, ver |-> version[a] + 1, op |-> op, body |-> body]]
      BY <1>1 DEF EnqueueEvent
    <2>3. op \in Ops /\ body \in Bodies /\ version[a] + 1 \in Nat
      BY DEF OpsOf, BodiesOf, Ops, TypeOK
    <2> DEFINE r == [agg |-> a, ver |-> version[a] + 1, op |-> op, body |-> body]
    <2>4. r \in Rows /\ r # NoRow
      BY <2>3 DEF Rows, NoRow
    <2>5. outbox' \in [EventIds -> Rows \cup {NoRow}] /\ status' \in [EventIds -> RowStatuses]
      BY <1>1, <2>1, <2>2, <2>4 DEF EnqueueEvent, TypeOK, RowStatuses
    <2>6. \A e \in EventIds : /\ status'[e] = "none" <=> outbox'[e] = NoRow
                              /\ e >= nextId' => status'[e] = "none"
      BY <1>1, <2>1, <2>2, <2>4 DEF EnqueueEvent, TypeOK, EventIds
    <2>7. Committed \subseteq Committed'
      BY <1>1, <2>1 DEF EnqueueEvent, TypeOK, Committed
    <2> QED BY <1>1, <2>1, <2>5, <2>6, <2>7
            DEF EnqueueEvent, TypeOK, sinkVars, workerVars
  <1>2. ASSUME NEW e \in EventIds, CommitWrite(e) PROVE TypeOK'
    <2>1. outbox[e] \in Rows
      BY <1>2 DEF CommitWrite, TypeOK
    <2> QED BY <1>2, <2>1 DEF CommitWrite, TypeOK, Committed, RowStatuses, sinkVars, workerVars, Rows
  <1>3. ASSUME NEW e \in EventIds, RollbackWrite(e) PROVE TypeOK'
    BY <1>3 DEF RollbackWrite, TypeOK, Committed, RowStatuses, sinkVars, workerVars
  <1>4. ASSUME NEW w \in Workers, Lease(w) PROVE TypeOK'
    <2>1. Lowest(Leasable(turn[w]), BatchSize) \subseteq Committed
      BY LowestSubset DEF Leasable
    <2> QED BY <1>4, <2>1
            DEF Lease, TypeOK, Committed, WorkerStates, canonicalVars, deliveryVars, sinkVars
  <1>5. ASSUME NEW w \in Workers, CommitLease(w) PROVE TypeOK'
    BY <1>5 DEF CommitLease, TypeOK, Committed, WorkerStates, RowStatuses, canonicalVars, sinkVars
  <1>6. ASSUME NEW w \in Workers, NEW e \in batch[w],
               DispatchOk(w, e) \/ DispatchSwallowed(w, e)
                 \/ DispatchRaises(w, e) \/ DispatchLostReply(w, e)
        PROVE  TypeOK'
    <2>1. e \in EventIds /\ e # 0 /\ outbox[e] \in Rows
      BY <1>0 DEF TypeOK, Committed
    <2>2. outbox[e].agg \in Aggregates /\ outbox[e].ver \in Nat
      BY <2>1 DEF Rows
    <2>3. PointAfter(point[outbox[e].agg], outbox[e]) \in Nat
      BY <2>2 DEF PointAfter, TypeOK
    <2>4. pc' = [pc EXCEPT ![w] = "succeeded"] \/ pc' = [pc EXCEPT ![w] = "failed"]
      BY <1>6 DEF DispatchOk, DispatchSwallowed, DispatchRaises, DispatchLostReply
    <2>5. cur' = [cur EXCEPT ![w] = e] /\ batch' = batch /\ status' = status
      BY <1>6 DEF DispatchOk, DispatchSwallowed, DispatchRaises, DispatchLostReply, deliveryVars
    <2>6. point' \in [Aggregates -> Nat] /\ handled' \in [Aggregates -> Nat]
      BY <1>6, <2>2, <2>3
      DEF DispatchOk, DispatchSwallowed, DispatchRaises, DispatchLostReply, sinkVars, TypeOK
    <2>7. UNCHANGED <<canonicalVars, deliveryVars, turn, crashes>>
      BY <1>6 DEF DispatchOk, DispatchSwallowed, DispatchRaises, DispatchLostReply
    <2> QED BY <2>1, <2>4, <2>5, <2>6, <2>7
            DEF TypeOK, WorkerStates, canonicalVars, deliveryVars, Committed
  <1>7. ASSUME NEW w \in Workers, MarkDone(w) \/ MarkRetry(w) \/ MarkDead(w) PROVE TypeOK'
    <2> DEFINE e == cur[w]
    <2>1. e \in EventIds /\ e \in batch[w] /\ e # 0 /\ status[e] # "none"
      BY <1>7 DEF MarkDone, MarkRetry, MarkDead, TypeOK, Committed
    <2>2. SinkOf(outbox[e].agg) \in Sinks
      BY SinkTypes DEF Sinks
    <2>3. status' \in [EventIds -> RowStatuses] /\ attempts' \in [EventIds -> Nat]
          /\ lock' \in [EventIds -> {"free", "held", "expired"}]
      <3>1. CASE MarkDone(w)
        BY <3>1, <2>1 DEF MarkDone, TypeOK, RowStatuses
      <3>2. CASE MarkRetry(w)
        BY <3>2, <2>1 DEF MarkRetry, TypeOK, RowStatuses
      <3>3. CASE MarkDead(w)
        BY <3>3, <2>1 DEF MarkDead, TypeOK, RowStatuses
      <3> QED BY <1>7, <3>1, <3>2, <3>3
    <2>4. projection' \in [Sinks -> [last : Nat,
                                    health : {"unknown", "healthy", "degraded"}]]
      <3>1. CASE MarkDone(w)
        BY <3>1, <2>1, <2>2 DEF MarkDone, TypeOK, Larger, EventIds
      <3>2. CASE MarkRetry(w)
        BY <3>2 DEF MarkRetry, TypeOK
      <3>3. CASE MarkDead(w)
        BY <3>3, <2>2 DEF MarkDead, TypeOK
      <3> QED BY <1>7, <3>1, <3>2, <3>3
    <2>5. FinishEvent(w) /\ UNCHANGED <<canonicalVars, sinkVars>>
      BY <1>7 DEF MarkDone, MarkRetry, MarkDead
    <2>6. e < nextId /\ status'[e] \notin {"none", "open"} /\ \A f \in EventIds \ {e} : status'[f] = status[f]
      BY <1>7, <2>1 DEF MarkDone, MarkRetry, MarkDead, TypeOK, EventIds
    <2>7. Committed \subseteq Committed'
      BY <2>1, <2>6 DEF Committed
    <2>8. /\ turn' \in [Workers -> Sinks]
          /\ pc' \in [Workers -> WorkerStates]
          /\ batch' \in [Workers -> SUBSET EventIds]
          /\ cur' \in [Workers -> EventIds \cup {0}]
          /\ crashes' \in Nat
      BY <2>5 DEF FinishEvent, TypeOK, WorkerStates
    <2>9. \A v \in Workers : /\ batch'[v] \subseteq Committed'
                             /\ pc'[v] \in {"succeeded", "failed"} <=> cur'[v] # 0
                             /\ cur'[v] # 0 => cur'[v] \in batch'[v]
      BY <2>5, <2>7 DEF FinishEvent, TypeOK
    <2> QED BY <2>1, <2>3, <2>4, <2>5, <2>6, <2>8, <2>9
            DEF TypeOK, canonicalVars, sinkVars
  <1>8. ASSUME NEW w \in Workers, EndDrain(w) PROVE TypeOK'
    BY <1>8, SinkTypes
    DEF EndDrain, TypeOK, WorkerStates, canonicalVars, deliveryVars, sinkVars, Committed
  <1>9. ASSUME NEW w \in Workers, Crash(w) PROVE TypeOK'
    BY <1>9 DEF Crash, TypeOK, WorkerStates, canonicalVars, deliveryVars, sinkVars, Committed
  <1>10. ASSUME NEW w \in Workers, Restart(w) PROVE TypeOK'
    BY <1>10 DEF Restart, TypeOK, WorkerStates, Sinks,
                 canonicalVars, deliveryVars, sinkVars, Committed
  <1>11. ASSUME NEW e \in EventIds, LockExpires(e) PROVE TypeOK'
    BY <1>11 DEF LockExpires, TypeOK, canonicalVars, sinkVars, workerVars, Committed
  <1>12. CASE UNCHANGED vars
    BY <1>12 DEF vars, TypeOK, Committed
  <1> QED
    BY <1>1, <1>2, <1>3, <1>4, <1>5, <1>6, <1>7, <1>8, <1>9, <1>10, <1>11, <1>12
    DEF Next, WriterStep, WorkerStep, Dispatch

(* Tables, sinks and workers keep their types, a delivery exists exactly    *)
(* when its outbox row does, and a worker that has dispatched an event      *)
(* still holds it when it marks it.                                         *)
THEOREM TypeCorrect == Spec => []TypeOK
  BY TypeInit, TypeNext, PTL DEF Spec

----------------------------------------------------------------------------
(* What the steps of a worker have in common. *)

DispatchAny(w, e) == DispatchOk(w, e) \/ DispatchSwallowed(w, e)
                       \/ DispatchRaises(w, e) \/ DispatchLostReply(w, e)
MarkAny(w) == MarkDone(w) \/ MarkRetry(w) \/ MarkDead(w)

(* Whatever the handler does, drain_once only moves on to marking, and the  *)
(* sink is brought to this event's version or left alone.                   *)
LEMMA DispatchStep ==
    ASSUME TypeOK, NEW w \in Workers, NEW e \in batch[w], DispatchAny(w, e)
    PROVE  /\ e \in Committed /\ pc[w] = "draining"
           /\ cur' = [cur EXCEPT ![w] = e]
           /\ \/ /\ pc' = [pc EXCEPT ![w] = "succeeded"]
                 /\ handled' = [handled EXCEPT ![outbox[e].agg] = outbox[e].ver]
              \/ /\ pc' = [pc EXCEPT ![w] = "failed"]
                 /\ \/ handled' = [handled EXCEPT ![outbox[e].agg] = outbox[e].ver]
                    \/ handled' = handled
           /\ UNCHANGED <<version, nextId, outbox, status, attempts, batch>>
  BY DEF DispatchAny, DispatchOk, DispatchSwallowed, DispatchRaises, DispatchLostReply,
         TypeOK, canonicalVars, deliveryVars, sinkVars

(* Whatever mark_done or mark_fail decides, only the event just dispatched  *)
(* changes, and the worker lets go of it.                                   *)
LEMMA MarkStep ==
    ASSUME TypeOK, NEW w \in Workers, MarkAny(w)
    PROVE  /\ cur[w] \in batch[w] /\ cur[w] \in Committed
           /\ status'[cur[w]] \in {"pending", "done", "dead"}
           /\ status'[cur[w]] = "done" <=> pc[w] = "succeeded"
           /\ \A f \in EventIds : f # cur[w] => status'[f] = status[f]
           /\ \A f \in EventIds : f # cur[w] => attempts'[f] = attempts[f]
           /\ batch' = [batch EXCEPT ![w] = @ \ {cur[w]}]
           /\ cur' = [cur EXCEPT ![w] = 0]
           /\ pc' = [pc EXCEPT ![w] = "draining"]
           /\ pc[w] \in {"succeeded", "failed"}
           /\ UNCHANGED <<version, nextId, outbox, handled>>
  <1>1. pc[w] \in {"succeeded", "failed"}
    BY DEF MarkAny, MarkDone, MarkRetry, MarkDead
  <1>2. cur[w] \in batch[w] /\ cur[w] \in Committed /\ cur[w] \in EventIds
    BY <1>1 DEF TypeOK, Committed
  <1>3. CASE MarkDone(w)
    BY <1>2, <1>3 DEF MarkDone, FinishEvent, TypeOK, canonicalVars, sinkVars
  <1>4. CASE MarkRetry(w)
    BY <1>2, <1>4 DEF MarkRetry, FinishEvent, TypeOK, canonicalVars, sinkVars
  <1>5. CASE MarkDead(w)
    BY <1>2, <1>5 DEF MarkDead, FinishEvent, TypeOK, canonicalVars, sinkVars
  <1> QED BY <1>3, <1>4, <1>5 DEF MarkAny

(* A step that commits and rolls back no row keeps RowsAreVersions.         *)
LEMMA RowsFrame ==
    ASSUME RowsAreVersions, UNCHANGED <<version, outbox>>,
           \A e \in EventIds : /\ status'[e] = "none" <=> status[e] = "none"
                               /\ status'[e] = "open" <=> status[e] = "open"
    PROVE  RowsAreVersions'
  <1>1. Committed' = Committed
    BY DEF Committed
  <1> QED BY <1>1 DEF RowsAreVersions

(* While rows stay and done deliveries stay done, nothing gets blocked.     *)
LEMMA BlockedFrame ==
    ASSUME NEW e, Committed' = Committed, outbox' = outbox,
           \A p \in Committed : status[p] = "done" => status'[p] = "done"
    PROVE  Blocked(e)' => Blocked(e)
  BY DEF Blocked

----------------------------------------------------------------------------
(* The rows of an aggregate stay its versions. *)

(* Canonical transactions alone make rows, one for each version.            *)
LEMMA RowsNext == TypeOK /\ LeasesAreOrdered /\ RowsAreVersions /\ [Next]_vars
                    => RowsAreVersions'
  <1> SUFFICES ASSUME TypeOK, LeasesAreOrdered, RowsAreVersions, [Next]_vars
               PROVE  RowsAreVersions'
    OBVIOUS
  <1>1. ASSUME NEW a \in Aggregates, EnqueueEvent(a) PROVE RowsAreVersions'
    <2>1. /\ nextId \in EventIds /\ status[nextId] = "none"
          /\ status' = [status EXCEPT ![nextId] = "open"]
          /\ version' = version
      BY <1>1, BoundsAssumption DEF EnqueueEvent, TypeOK, EventIds
    <2>2. /\ outbox'[nextId].agg = a /\ outbox'[nextId].ver = version[a] + 1
          /\ \A e \in EventIds : e # nextId => outbox'[e] = outbox[e]
      BY <1>1, <2>1 DEF EnqueueEvent, TypeOK
    <2>3. Committed' = Committed /\ nextId \notin Committed
      BY <2>1 DEF Committed, TypeOK
    <2>4. \A e \in EventIds : status[e] # "none" /\ outbox[e].agg = a
                               => outbox[e].ver # version[a] + 1
      <3> SUFFICES ASSUME NEW e \in EventIds, status[e] # "none", outbox[e].agg = a
                   PROVE  outbox[e].ver # version[a] + 1
        OBVIOUS
      <3>1. status[e] # "open"
        BY <1>1 DEF EnqueueEvent, Writing
      <3>2. outbox[e].ver \in 1..version[a]
        BY <3>1 DEF RowsAreVersions, Committed
      <3> QED BY <3>2 DEF TypeOK
    <2>5. \A e \in EventIds : status'[e] # "none" =>
             \/ e = nextId
             \/ e # nextId /\ status[e] = status'[e] /\ outbox'[e] = outbox[e]
      BY <2>1, <2>2 DEF TypeOK
    <2>6. \A e, f \in EventIds :
             status'[e] # "none" /\ status'[f] # "none"
                /\ outbox'[e].agg = outbox'[f].agg /\ outbox'[e].ver = outbox'[f].ver
             => e = f
      BY <2>2, <2>4, <2>5 DEF RowsAreVersions
    <2>7. \A e \in EventIds :
             status'[e] = "open" => outbox'[e].ver = version'[outbox'[e].agg] + 1
      BY <2>1, <2>2, <2>5 DEF RowsAreVersions
    <2>8. \A e \in Committed : outbox'[e] = outbox[e]
      BY <2>2, <2>3 DEF Committed
    <2> QED BY <2>1, <2>3, <2>6, <2>7, <2>8 DEF RowsAreVersions
  <1>2. ASSUME NEW e \in EventIds, CommitWrite(e) PROVE RowsAreVersions'
    <2> DEFINE a == outbox[e].agg
    <2>1. /\ status[e] = "open" /\ outbox' = outbox
          /\ status' = [status EXCEPT ![e] = "pending"]
          /\ outbox[e] \in Rows /\ a \in Aggregates
          /\ outbox[e].ver = version[a] + 1
          /\ version[a] \in Nat
      BY <1>2 DEF CommitWrite, TypeOK, Rows, RowsAreVersions
    <2>2. /\ version'[a] = version[a] + 1
          /\ \A b \in Aggregates : b # a => version'[b] = version[b]
      BY <1>2, <2>1 DEF CommitWrite, TypeOK
    <2>3. Committed' = Committed \cup {e} /\ e \notin Committed
      BY <2>1 DEF Committed, TypeOK
    <2>4. \A f \in Committed : outbox[f] \in Rows /\ outbox[f].agg \in Aggregates
      BY DEF Committed, TypeOK, Rows
    <2>5. \A f \in Committed' : outbox'[f].ver \in 1..version'[outbox'[f].agg]
      <3>1. \A f \in Committed : outbox[f].ver \in 1..version'[outbox[f].agg]
        BY <2>1, <2>2, <2>4 DEF RowsAreVersions
      <3>2. outbox[e].ver \in 1..version'[a]
        BY <2>1, <2>2
      <3> QED BY <2>1, <2>3, <3>1, <3>2
    <2>6. \A f \in EventIds :
             status'[f] = "open" => outbox'[f].ver = version'[outbox'[f].agg] + 1
      <3> SUFFICES ASSUME NEW f \in EventIds, status'[f] = "open"
                   PROVE  outbox[f].ver = version'[outbox[f].agg] + 1
        BY <2>1
      <3>1. f # e /\ status[f] = "open" /\ outbox[f] \in Rows
        BY <2>1 DEF TypeOK
      <3>2. outbox[f].ver = version[outbox[f].agg] + 1
        BY <3>1 DEF RowsAreVersions
      <3>3. outbox[f].agg # a
        BY <2>1, <3>1, <3>2 DEF RowsAreVersions
      <3> QED BY <2>2, <3>1, <3>2, <3>3 DEF Rows
    <2>7. \A f, g \in EventIds :
             status'[f] # "none" /\ status'[g] # "none"
                /\ outbox'[f].agg = outbox'[g].agg /\ outbox'[f].ver = outbox'[g].ver
             => f = g
      <3>1. \A f \in EventIds : status'[f] # "none" => status[f] # "none"
        BY <2>1 DEF TypeOK
      <3> QED BY <2>1, <3>1 DEF RowsAreVersions
    <2>8. \A b \in Aggregates : \A v \in 1..version'[b] :
             \E f \in Committed' : outbox'[f].agg = b /\ outbox'[f].ver = v
      <3> SUFFICES ASSUME NEW b \in Aggregates, NEW v \in 1..version'[b]
                   PROVE  \E f \in Committed' : outbox[f].agg = b /\ outbox[f].ver = v
        BY <2>1
      <3>1. CASE b = a /\ v = version[a] + 1
        BY <2>1, <2>3, <3>1
      <3>2. CASE ~(b = a /\ v = version[a] + 1)
        <4>0. version[b] \in Nat /\ (b # a => version'[b] = version[b])
          BY <2>2 DEF TypeOK
        <4>1. v \in 1..version[b]
          BY <2>1, <2>2, <3>2, <4>0
        <4>2. PICK f \in Committed : outbox[f].agg = b /\ outbox[f].ver = v
          BY <4>1 DEF RowsAreVersions
        <4> QED BY <2>3, <4>2
      <3> QED BY <3>1, <3>2
    <2> QED BY <2>5, <2>6, <2>7, <2>8 DEF RowsAreVersions
  <1>3. ASSUME NEW e \in EventIds, RollbackWrite(e) PROVE RowsAreVersions'
    <2>1. /\ status[e] = "open" /\ version' = version
          /\ status' = [status EXCEPT ![e] = "none"]
          /\ \A f \in EventIds : f # e => outbox'[f] = outbox[f]
      BY <1>3 DEF RollbackWrite, TypeOK
    <2>2. Committed' = Committed /\ e \notin Committed
      BY <2>1 DEF Committed, TypeOK
    <2>3. \A f \in EventIds : status'[f] # "none" =>
             f # e /\ status[f] = status'[f] /\ outbox'[f] = outbox[f]
      BY <2>1 DEF TypeOK
    <2>4. \A f \in Committed : outbox'[f] = outbox[f]
      BY <2>1, <2>2 DEF Committed
    <2> QED BY <2>1, <2>2, <2>3, <2>4 DEF RowsAreVersions
  <1>4. ASSUME NEW w \in Workers, CommitLease(w) PROVE RowsAreVersions'
    <2>1. \A e \in batch[w] : status[e] = "pending"
      BY <1>4 DEF CommitLease, LeasesAreOrdered
    <2> QED BY <1>4, <2>1, RowsFrame DEF CommitLease, canonicalVars
  <1>5. ASSUME NEW w \in Workers, NEW e \in batch[w], DispatchAny(w, e)
        PROVE  RowsAreVersions'
    BY <1>5, DispatchStep, RowsFrame
  <1>6. ASSUME NEW w \in Workers, MarkAny(w) PROVE RowsAreVersions'
    <2>1. status[cur[w]] \notin {"none", "open"}
      BY <1>6, MarkStep DEF Committed
    <2> QED BY <1>6, <2>1, MarkStep, RowsFrame
  <1>7. ASSUME UNCHANGED <<version, outbox, status>> PROVE RowsAreVersions'
    BY <1>7, RowsFrame
  <1> QED
    BY <1>1, <1>2, <1>3, <1>4, <1>5, <1>6, <1>7
    DEF Next, WriterStep, WorkerStep, Dispatch, DispatchAny, MarkAny, Lease, EndDrain,
        Crash, Restart, LockExpires, vars, canonicalVars, deliveryVars

----------------------------------------------------------------------------
(* Leases stay ordered and exclusive. *)

(* A step that moves workers along, or takes events from them, and touches  *)
(* no row keeps the leases ordered.                                         *)
LEMMA LeasesFrame ==
    ASSUME LeasesAreOrdered, UNCHANGED <<outbox, status, attempts>>,
           \A w \in Workers :
              \/ batch'[w] = {} /\ pc'[w] # "leasing"
              \/ batch'[w] = batch[w] /\ pc'[w] = pc[w]
              \/ /\ batch'[w] = batch[w]
                 /\ pc[w] = "draining" /\ pc'[w] \in {"succeeded", "failed"}
    PROVE  LeasesAreOrdered'
  <1>1. Committed' = Committed
    BY DEF Committed
  <1>2. \A f \in Committed : (Blocked(f)' <=> Blocked(f)) /\ (Tried(f)' => Tried(f))
    BY <1>1 DEF Blocked, Tried
  <1>3. \A w \in Workers : \A e \in batch'[w] :
          status'[e] = (IF pc'[w] = "leasing" THEN "pending" ELSE "in_flight")
    BY DEF LeasesAreOrdered
  <1>4. \A w \in Workers : pc'[w] \in {"idle", "down"} => batch'[w] = {}
    BY DEF LeasesAreOrdered
  <1>5. \A v, w \in Workers : v # w => batch'[v] \cap batch'[w] = {}
    BY DEF LeasesAreOrdered
  <1> QED BY <1>1, <1>2, <1>3, <1>4, <1>5 DEF LeasesAreOrdered

(* The lease query and the marks keep LeasesAreOrdered: what is leased or   *)
(* was tried has only done predecessors, and one holder.                    *)
LEMMA LeasesNext == TypeOK /\ RowsAreVersions /\ LeasesAreOrdered /\ [Next]_vars
                      => LeasesAreOrdered'
  <1> SUFFICES ASSUME TypeOK, RowsAreVersions, LeasesAreOrdered, [Next]_vars
               PROVE  LeasesAreOrdered'
    OBVIOUS
  <1>1. ASSUME NEW a \in Aggregates, EnqueueEvent(a) PROVE LeasesAreOrdered'
    <2>1. /\ nextId \in EventIds /\ status[nextId] = "none"
          /\ status' = [status EXCEPT ![nextId] = "open"]
          /\ \A e \in EventIds : e # nextId => outbox'[e] = outbox[e]
          /\ UNCHANGED <<attempts, pc, batch>>
      BY <1>1, BoundsAssumption DEF EnqueueEvent, TypeOK, EventIds, workerVars
    <2>2. Committed' = Committed /\ nextId \notin Committed
      BY <2>1 DEF Committed, TypeOK
    <2>3. \A e \in Committed : status'[e] = status[e] /\ outbox'[e] = outbox[e]
      BY <2>1, <2>2 DEF TypeOK, Committed
    <2>4. \A e \in Committed : (Blocked(e)' <=> Blocked(e)) /\ (Tried(e)' <=> Tried(e))
      BY <2>1, <2>2, <2>3 DEF Blocked, Tried
    <2> QED BY <2>1, <2>2, <2>3, <2>4 DEF LeasesAreOrdered, TypeOK
  <1>2. ASSUME NEW e \in EventIds, CommitWrite(e) PROVE LeasesAreOrdered'
    <2>1. /\ status[e] = "open" /\ outbox' = outbox
          /\ status' = [status EXCEPT ![e] = "pending"]
          /\ UNCHANGED <<attempts, pc, batch>>
      BY <1>2 DEF CommitWrite, workerVars
    <2>2. Committed' = Committed \cup {e} /\ e \notin Committed
      BY <2>1 DEF Committed, TypeOK
    <2>3. \A f \in Committed : status'[f] = status[f]
      BY <2>1, <2>2 DEF TypeOK, Committed
    <2>4. ~Tried(e)'
      BY <2>1, <2>2 DEF Tried, LeasesAreOrdered, TypeOK
    <2>5. outbox[e].ver = version[outbox[e].agg] + 1
      BY <2>1 DEF RowsAreVersions
    <2>6. \A f \in Committed : Blocked(f)' => Blocked(f)
      <3> SUFFICES ASSUME NEW f \in Committed, Blocked(f)' PROVE Blocked(f)
        OBVIOUS
      <3>1. PICK p \in Committed' : /\ outbox[p].agg = outbox[f].agg
                                    /\ outbox[p].ver < outbox[f].ver
                                    /\ status'[p] # "done"
        BY <2>1 DEF Blocked
      <3>2. outbox[f].ver \in 1..version[outbox[f].agg] /\ outbox[f].agg \in Aggregates
        BY DEF RowsAreVersions, Committed, TypeOK, Rows
      <3>3. p # e
        BY <2>5, <3>1, <3>2 DEF TypeOK
      <3> QED BY <2>2, <2>3, <3>1, <3>3 DEF Blocked
    <2>7. \A f \in Committed : Tried(f)' <=> Tried(f)
      BY <2>1, <2>3 DEF Tried
    <2> QED BY <2>1, <2>2, <2>3, <2>4, <2>6, <2>7 DEF LeasesAreOrdered, TypeOK
  <1>3. ASSUME NEW e \in EventIds, RollbackWrite(e) PROVE LeasesAreOrdered'
    <2>1. /\ status[e] = "open"
          /\ status' = [status EXCEPT ![e] = "none"]
          /\ \A f \in EventIds : f # e => outbox'[f] = outbox[f]
          /\ UNCHANGED <<attempts, pc, batch>>
      BY <1>3 DEF RollbackWrite, TypeOK, workerVars
    <2>2. Committed' = Committed /\ e \notin Committed
      BY <2>1 DEF Committed, TypeOK
    <2>3. \A f \in Committed : status'[f] = status[f] /\ outbox'[f] = outbox[f]
      BY <2>1, <2>2 DEF TypeOK, Committed
    <2>4. \A f \in Committed : (Blocked(f)' <=> Blocked(f)) /\ (Tried(f)' <=> Tried(f))
      BY <2>1, <2>2, <2>3 DEF Blocked, Tried
    <2> QED BY <2>1, <2>2, <2>3, <2>4 DEF LeasesAreOrdered, TypeOK
  <1>4. ASSUME NEW w \in Workers, Lease(w) PROVE LeasesAreOrdered'
    <2>1. /\ pc[w] = "idle" /\ pc' = [pc EXCEPT ![w] = "leasing"]
          /\ batch' = [batch EXCEPT ![w] = batch'[w]]
          /\ batch'[w] \subseteq Leasable(turn[w])
          /\ UNCHANGED <<status, attempts, outbox>>
      BY <1>4, LowestSubset DEF Lease, canonicalVars, deliveryVars, TypeOK
    <2>2. Committed' = Committed /\ \A e \in Committed : Blocked(e)' <=> Blocked(e)
      BY <2>1 DEF Committed, Blocked
    <2>3. \A e \in batch'[w] : e \in Committed /\ status[e] = "pending" /\ ~Blocked(e)
                               /\ \A v \in Workers : pc[v] = "leasing" => e \notin batch[v]
      BY <2>1 DEF Leasable, RowLocked
    <2>4. \A e \in Committed : Tried(e)' => Tried(e) \/ e \in batch'[w]
      BY <2>1 DEF Tried, TypeOK
    <2>5. \A v \in Workers : v # w => batch[v] \cap batch'[w] = {}
      BY <2>3 DEF LeasesAreOrdered
    <2>6. \A v \in Workers : v # w => batch'[v] = batch[v] /\ pc'[v] = pc[v]
      BY <2>1 DEF TypeOK
    <2>7. \A u, v \in Workers : u # v => batch'[u] \cap batch'[v] = {}
      BY <2>5, <2>6 DEF LeasesAreOrdered
    <2>8. \A e \in Committed : Tried(e)' => ~Blocked(e)'
      BY <2>2, <2>3, <2>4 DEF LeasesAreOrdered
    <2>9. pc'[w] = "leasing"
      BY <2>1 DEF TypeOK
    <2>10. \A v \in Workers : \A e \in batch'[v] :
             status'[e] = (IF pc'[v] = "leasing" THEN "pending" ELSE "in_flight")
      BY <2>1, <2>3, <2>6, <2>9 DEF LeasesAreOrdered
    <2> QED BY <2>1, <2>2, <2>6, <2>7, <2>8, <2>9, <2>10 DEF LeasesAreOrdered
  <1>5. ASSUME NEW w \in Workers, CommitLease(w) PROVE LeasesAreOrdered'
    <2>1. /\ pc[w] = "leasing" /\ pc' = [pc EXCEPT ![w] = "draining"]
          /\ \A e \in EventIds : status'[e] = (IF e \in batch[w] THEN "in_flight" ELSE status[e])
          /\ UNCHANGED <<attempts, outbox, batch>>
      BY <1>5 DEF CommitLease, canonicalVars
    <2>2. \A e \in batch[w] : status[e] = "pending" /\ e \in Committed
      BY <2>1 DEF LeasesAreOrdered, TypeOK
    <2>3. Committed' = Committed
      BY <2>1, <2>2 DEF Committed
    <2>4. \A e \in Committed : Blocked(e)' => Blocked(e)
      BY <2>1, <2>2, <2>3, BlockedFrame DEF Committed
    <2>5. \A e \in Committed : Tried(e)' => Tried(e)
      BY <2>1 DEF Tried, Committed
    <2>6. \A v \in Workers : v # w => pc'[v] = pc[v] /\ batch[v] \cap batch[w] = {}
      BY <2>1 DEF LeasesAreOrdered, TypeOK
    <2>7. pc'[w] = "draining"
      BY <2>1 DEF TypeOK
    <2>8. \A v \in Workers : \A e \in batch'[v] :
             status'[e] = (IF pc'[v] = "leasing" THEN "pending" ELSE "in_flight")
      <3> SUFFICES ASSUME NEW v \in Workers, NEW e \in batch[v]
                   PROVE  status'[e] = (IF pc'[v] = "leasing" THEN "pending" ELSE "in_flight")
        BY <2>1
      <3>1. e \in EventIds
        BY DEF TypeOK
      <3>2. CASE v = w
        BY <2>1, <2>7, <3>1, <3>2
      <3>3. CASE v # w
        BY <2>1, <2>6, <3>1, <3>3 DEF LeasesAreOrdered
      <3> QED BY <3>2, <3>3
    <2> QED BY <2>1, <2>3, <2>4, <2>5, <2>6, <2>7, <2>8 DEF LeasesAreOrdered
  <1>6. ASSUME NEW w \in Workers, NEW e \in batch[w], DispatchAny(w, e)
        PROVE  LeasesAreOrdered'
    BY <1>6, DispatchStep, LeasesFrame DEF TypeOK
  <1>7. ASSUME NEW w \in Workers, MarkAny(w) PROVE LeasesAreOrdered'
    <2> DEFINE e == cur[w]
    <2>1. /\ e \in batch[w] /\ e \in Committed /\ pc[w] \in {"succeeded", "failed"}
          /\ status'[e] \in {"pending", "done", "dead"}
          /\ \A f \in EventIds : f # e => status'[f] = status[f] /\ attempts'[f] = attempts[f]
          /\ batch' = [batch EXCEPT ![w] = @ \ {e}]
          /\ pc' = [pc EXCEPT ![w] = "draining"]
          /\ outbox' = outbox
      BY <1>7, MarkStep
    <2>2. status[e] = "in_flight" /\ Tried(e) /\ e \in EventIds
      BY <2>1 DEF LeasesAreOrdered, Tried, Committed
    <2>3. Committed' = Committed
      BY <2>1, <2>2 DEF Committed
    <2>4. \A f \in Committed : Blocked(f)' => Blocked(f)
      BY <2>1, <2>2, <2>3, BlockedFrame DEF Committed
    <2>5. /\ batch'[w] = batch[w] \ {e} /\ pc'[w] = "draining"
          /\ \A v \in Workers : v # w => batch'[v] = batch[v] /\ pc'[v] = pc[v]
      BY <2>1 DEF TypeOK
    <2>6. \A f \in Committed : Tried(f)' => Tried(f)
      BY <2>1, <2>2, <2>5 DEF Tried, Committed
    <2>7. \A v \in Workers : \A f \in batch'[v] :
             status'[f] = (IF pc'[v] = "leasing" THEN "pending" ELSE "in_flight")
      <3> SUFFICES ASSUME NEW v \in Workers, NEW f \in batch'[v]
                   PROVE  status'[f] = (IF pc'[v] = "leasing" THEN "pending" ELSE "in_flight")
        OBVIOUS
      <3>1. f \in batch[v] /\ f \in EventIds /\ f # e
        BY <2>1, <2>5 DEF LeasesAreOrdered, TypeOK
      <3> QED BY <2>1, <2>5, <3>1 DEF LeasesAreOrdered
    <2>8. \A f \in EventIds \ Committed' : attempts'[f] = 0
      BY <2>1, <2>3 DEF LeasesAreOrdered
    <2>9. \A u, v \in Workers : u # v => batch'[u] \cap batch'[v] = {}
      BY <2>5 DEF LeasesAreOrdered
    <2> QED BY <2>3, <2>4, <2>5, <2>6, <2>7, <2>8, <2>9 DEF LeasesAreOrdered
  <1>8. ASSUME NEW w \in Workers, Crash(w) PROVE LeasesAreOrdered'
    BY <1>8, LeasesFrame DEF Crash, canonicalVars, deliveryVars, TypeOK
  <1>9. ASSUME NEW w \in Workers, EndDrain(w) PROVE LeasesAreOrdered'
    BY <1>9, LeasesFrame DEF EndDrain, canonicalVars, deliveryVars, TypeOK
  <1>10. ASSUME NEW w \in Workers, Restart(w) PROVE LeasesAreOrdered'
    BY <1>10, LeasesFrame DEF Restart, canonicalVars, deliveryVars, TypeOK, LeasesAreOrdered
  <1>11. ASSUME NEW e \in EventIds, LockExpires(e) PROVE LeasesAreOrdered'
    BY <1>11, LeasesFrame DEF LockExpires, canonicalVars, workerVars
  <1>12. CASE UNCHANGED vars
    BY <1>12, LeasesFrame DEF vars
  <1> QED
    BY <1>1, <1>2, <1>3, <1>4, <1>5, <1>6, <1>7, <1>8, <1>9, <1>10, <1>11, <1>12
    DEF Next, WriterStep, WorkerStep, Dispatch, DispatchAny, MarkAny

----------------------------------------------------------------------------
(* The sink stays at the frontier of what is done. *)

(* A step that changes no sink and marks nothing done keeps                 *)
(* SinkIsAtFrontier.                                                        *)
LEMMA FrontierFrame ==
    ASSUME TypeOK, SinkIsAtFrontier, UNCHANGED <<version, outbox, handled>>,
           Committed' = Committed,
           \A e \in Committed : status'[e] = "done" <=> status[e] = "done",
           \A w \in Workers : pc'[w] = "succeeded" => pc[w] = "succeeded" /\ cur'[w] = cur[w]
    PROVE  SinkIsAtFrontier'
  BY DEF SinkIsAtFrontier

(* Dispatches and marks keep SinkIsAtFrontier.                              *)
LEMMA FrontierNext ==
    TypeOK /\ RowsAreVersions /\ LeasesAreOrdered /\ SinkIsAtFrontier /\ [Next]_vars
        => SinkIsAtFrontier'
  <1> SUFFICES ASSUME TypeOK, RowsAreVersions, LeasesAreOrdered, SinkIsAtFrontier, [Next]_vars
               PROVE  SinkIsAtFrontier'
    OBVIOUS
  <1>0. \A e \in Committed : /\ outbox[e].agg \in Aggregates /\ outbox[e].ver \in Nat
                             /\ outbox[e].ver \in 1..version[outbox[e].agg]
                             /\ version[outbox[e].agg] \in Nat
    BY DEF TypeOK, Committed, Rows, RowsAreVersions
  <1>1. ASSUME NEW a \in Aggregates, EnqueueEvent(a) PROVE SinkIsAtFrontier'
    <2>1. /\ nextId \in EventIds /\ status[nextId] = "none"
          /\ status' = [status EXCEPT ![nextId] = "open"]
          /\ \A e \in EventIds : e # nextId => outbox'[e] = outbox[e]
          /\ UNCHANGED <<version, handled, pc, cur>>
      BY <1>1, BoundsAssumption DEF EnqueueEvent, TypeOK, EventIds, workerVars, sinkVars
    <2>2. Committed' = Committed /\ nextId \notin Committed
      BY <2>1 DEF Committed, TypeOK
    <2>3. \A e \in Committed : status'[e] = status[e] /\ outbox'[e] = outbox[e]
      BY <2>1, <2>2 DEF TypeOK, Committed
    <2>4. \A w \in Workers : pc[w] = "succeeded" => cur[w] \in Committed
      BY DEF TypeOK
    <2> QED BY <2>1, <2>2, <2>3, <2>4 DEF SinkIsAtFrontier
  <1>2. ASSUME NEW e \in EventIds, CommitWrite(e) PROVE SinkIsAtFrontier'
    <2> DEFINE a == outbox[e].agg
    <2>1. /\ status[e] = "open" /\ outbox' = outbox
          /\ status' = [status EXCEPT ![e] = "pending"]
          /\ a \in Aggregates /\ outbox[e].ver = version[a] + 1
          /\ version' = [version EXCEPT ![a] = outbox[e].ver]
          /\ UNCHANGED <<handled, pc, cur>>
      BY <1>2 DEF CommitWrite, workerVars, sinkVars, TypeOK, Rows, RowsAreVersions
    <2>2. Committed' = Committed \cup {e} /\ e \notin Committed
      BY <2>1 DEF Committed, TypeOK
    <2>3. \A f \in Committed : status'[f] = status[f]
      BY <2>1, <2>2 DEF TypeOK, Committed
    <2>4. status'[e] = "pending" /\ ~(outbox[e].ver < handled[a])
      BY <2>1 DEF SinkIsAtFrontier, TypeOK
    <2>5. \A b \in Aggregates : handled[b] <= version'[b]
      BY <2>1 DEF SinkIsAtFrontier, TypeOK
    <2> QED BY <2>1, <2>2, <2>3, <2>4, <2>5 DEF SinkIsAtFrontier
  <1>3. ASSUME NEW e \in EventIds, RollbackWrite(e) PROVE SinkIsAtFrontier'
    <2>1. /\ status[e] = "open"
          /\ status' = [status EXCEPT ![e] = "none"]
          /\ \A f \in EventIds : f # e => outbox'[f] = outbox[f]
          /\ UNCHANGED <<version, handled, pc, cur>>
      BY <1>3 DEF RollbackWrite, TypeOK, workerVars, sinkVars
    <2>2. Committed' = Committed /\ e \notin Committed
      BY <2>1 DEF Committed, TypeOK
    <2>3. \A f \in Committed : status'[f] = status[f] /\ outbox'[f] = outbox[f]
      BY <2>1, <2>2 DEF TypeOK, Committed
    <2>4. \A w \in Workers : pc[w] = "succeeded" => cur[w] \in Committed
      BY DEF TypeOK
    <2> QED BY <2>1, <2>2, <2>3, <2>4 DEF SinkIsAtFrontier
  <1>4. ASSUME NEW w \in Workers, CommitLease(w) PROVE SinkIsAtFrontier'
    <2>1. /\ pc[w] = "leasing" /\ pc' = [pc EXCEPT ![w] = "draining"]
          /\ \A e \in EventIds : status'[e] = (IF e \in batch[w] THEN "in_flight" ELSE status[e])
          /\ UNCHANGED <<version, outbox, handled, cur>>
      BY <1>4 DEF CommitLease, canonicalVars, sinkVars
    <2>2. \A e \in batch[w] : status[e] = "pending"
      BY <2>1 DEF LeasesAreOrdered
    <2>3. Committed' = Committed
      BY <2>1, <2>2 DEF Committed
    <2>4. \A v \in Workers : pc'[v] = "succeeded" => pc[v] = "succeeded"
      BY <2>1 DEF TypeOK
    <2>5. \A e \in Committed : status'[e] = "done" <=> status[e] = "done"
      BY <2>1, <2>2 DEF Committed
    <2> QED BY <2>1, <2>3, <2>4, <2>5, FrontierFrame
  <1>5. ASSUME NEW w \in Workers, NEW e \in batch[w], DispatchAny(w, e)
        PROVE  SinkIsAtFrontier'
    <2> DEFINE a == outbox[e].agg
    <2>1. /\ e \in Committed /\ cur' = [cur EXCEPT ![w] = e]
          /\ UNCHANGED <<version, outbox, status>>
          /\ pc[w] = "draining"
      BY <1>5, DispatchStep
    <2>2. Committed' = Committed
      BY <2>1 DEF Committed
    <2>3. \A v \in Workers : v # w => pc'[v] = pc[v] /\ cur'[v] = cur[v]
      BY <1>5, DispatchStep DEF TypeOK
    <2>4. CASE handled' = handled /\ pc' = [pc EXCEPT ![w] = "failed"]
      <3>1. pc'[w] = "failed"
        BY <2>4 DEF TypeOK
      <3> QED BY <2>1, <2>2, <2>3, <2>4, <3>1, FrontierFrame
    <2>5. CASE handled' = [handled EXCEPT ![a] = outbox[e].ver]
      <3>1. handled'[a] = outbox[e].ver /\ cur'[w] = e
            /\ \A b \in Aggregates : b # a => handled'[b] = handled[b]
        BY <1>0, <2>1, <2>5 DEF TypeOK
      <3>2. status[e] = "in_flight" /\ ~Blocked(e)
        BY <2>1 DEF LeasesAreOrdered, Tried
      <3>3. \A f \in Committed : outbox[f].agg = a /\ outbox[f].ver < outbox[e].ver
                                  => status[f] = "done"
        BY <3>2 DEF Blocked
      <3>4. ~(outbox[e].ver < handled[a])
        BY <2>1, <3>2 DEF SinkIsAtFrontier
      <3>5. handled[a] <= handled'[a] /\ handled[a] \in Nat
        BY <1>0, <2>1, <3>1, <3>4 DEF TypeOK
      <3>6. \A f \in Committed :
              /\ outbox[f].ver < handled'[outbox[f].agg] => status[f] = "done"
              /\ status[f] = "done" => outbox[f].ver <= handled'[outbox[f].agg]
        <4> SUFFICES ASSUME NEW f \in Committed
                     PROVE  /\ outbox[f].ver < handled'[outbox[f].agg] => status[f] = "done"
                            /\ status[f] = "done" => outbox[f].ver <= handled'[outbox[f].agg]
          OBVIOUS
        <4>1. CASE outbox[f].agg # a
          BY <1>0, <3>1, <4>1 DEF SinkIsAtFrontier
        <4>2. CASE outbox[f].agg = a
          BY <1>0, <2>1, <3>1, <3>3, <3>5, <4>2 DEF SinkIsAtFrontier
        <4> QED BY <4>1, <4>2
      <3>7. \A v \in Workers : pc'[v] = "succeeded" =>
              outbox[cur'[v]].ver <= handled'[outbox[cur'[v]].agg]
        <4> SUFFICES ASSUME NEW v \in Workers, pc'[v] = "succeeded"
                     PROVE  outbox[cur'[v]].ver <= handled'[outbox[cur'[v]].agg]
          OBVIOUS
        <4>1. CASE v = w
          BY <1>0, <2>1, <3>1, <4>1
        <4>2. CASE v # w
          <5>1. /\ pc[v] = "succeeded" /\ cur'[v] = cur[v] /\ cur[v] \in Committed
                /\ outbox[cur[v]].ver <= handled[outbox[cur[v]].agg]
            BY <2>3, <4>2 DEF SinkIsAtFrontier, TypeOK
          <5> DEFINE b == outbox[cur[v]].agg
          <5>2. b \in Aggregates /\ outbox[cur[v]].ver \in Nat
            BY <1>0, <5>1
          <5>3. handled[b] \in Nat /\ handled'[b] \in Nat
            BY <1>0, <2>1, <3>1, <5>2 DEF TypeOK
          <5>4. handled[b] <= handled'[b]
            BY <3>1, <3>5, <5>2, <5>3
          <5> QED BY <5>1, <5>2, <5>3, <5>4
        <4> QED BY <4>1, <4>2
      <3>8. \A b \in Aggregates : handled'[b] <= version[b]
        BY <1>0, <2>1, <3>1 DEF SinkIsAtFrontier
      <3> QED BY <2>1, <2>2, <3>6, <3>7, <3>8 DEF SinkIsAtFrontier
    <2> QED BY <1>5, <2>4, <2>5, DispatchStep
  <1>6. ASSUME NEW w \in Workers, MarkAny(w) PROVE SinkIsAtFrontier'
    <2> DEFINE e == cur[w]
    <2>1. /\ e \in batch[w] /\ e \in Committed
          /\ status'[e] \in {"pending", "done", "dead"}
          /\ status'[e] = "done" <=> pc[w] = "succeeded"
          /\ \A f \in EventIds : f # e => status'[f] = status[f]
          /\ cur' = [cur EXCEPT ![w] = 0] /\ pc' = [pc EXCEPT ![w] = "draining"]
          /\ pc[w] \in {"succeeded", "failed"}
          /\ UNCHANGED <<version, outbox, handled>>
      BY <1>6, MarkStep
    <2>2. status[e] = "in_flight"
      BY <2>1 DEF LeasesAreOrdered
    <2>3. Committed' = Committed
      BY <2>1, <2>2 DEF Committed
    <2>4. \A v \in Workers : pc'[v] = "succeeded" => pc[v] = "succeeded" /\ cur'[v] = cur[v]
      BY <2>1 DEF TypeOK
    <2>5. /\ ~(outbox[e].ver < handled[outbox[e].agg])
          /\ status'[e] = "done" => outbox[e].ver <= handled[outbox[e].agg]
      BY <2>1, <2>2 DEF SinkIsAtFrontier
    <2>6. \A f \in Committed : f # e => status'[f] = status[f]
      BY <2>1 DEF Committed
    <2> QED BY <2>1, <2>3, <2>4, <2>5, <2>6 DEF SinkIsAtFrontier
  <1>7. ASSUME UNCHANGED <<version, outbox, status, handled>>,
               \A w \in Workers : pc'[w] = "succeeded" => pc[w] = "succeeded" /\ cur'[w] = cur[w]
        PROVE  SinkIsAtFrontier'
    BY <1>7, FrontierFrame DEF Committed
  <1>8. ASSUME NEW w \in Workers, Lease(w) \/ EndDrain(w) \/ Crash(w) \/ Restart(w)
        PROVE  SinkIsAtFrontier'
    BY <1>7, <1>8 DEF Lease, EndDrain, Crash, Restart, canonicalVars, deliveryVars, sinkVars, TypeOK
  <1>9. ASSUME NEW e \in EventIds, LockExpires(e) PROVE SinkIsAtFrontier'
    BY <1>7, <1>9 DEF LockExpires, canonicalVars, sinkVars, workerVars
  <1>10. CASE UNCHANGED vars
    BY <1>7, <1>10 DEF vars
  <1> QED
    BY <1>1, <1>2, <1>3, <1>4, <1>5, <1>6, <1>8, <1>9, <1>10
    DEF Next, WriterStep, WorkerStep, Dispatch, DispatchAny, MarkAny

----------------------------------------------------------------------------
(* The invariant and what follows from it. *)

(* The empty tables satisfy the inductive invariant.                        *)
LEMMA IInvInit == Init => IInv
  <1> SUFFICES ASSUME Init PROVE IInv
    OBVIOUS
  <1>1. TypeOK
    BY TypeInit
  <1>2. /\ \A e \in EventIds : status[e] = "none" /\ attempts[e] = 0
        /\ \A w \in Workers : pc[w] = "idle" /\ batch[w] = {}
        /\ \A a \in Aggregates : version[a] = 0 /\ handled[a] = 0
    BY DEF Init
  <1>3. Committed = {}
    BY <1>2 DEF Committed
  <1> QED BY <1>1, <1>2, <1>3 DEF IInv, RowsAreVersions, LeasesAreOrdered, SinkIsAtFrontier

(* The inductive invariant holds in every reachable state.                  *)
THEOREM InvariantHolds == Spec => []IInv
  <1>1. IInv /\ [Next]_vars => IInv'
    BY TypeNext, RowsNext, LeasesNext, FrontierNext DEF IInv
  <1> QED BY IInvInit, <1>1, PTL DEF Spec

(* Two versions of one aggregate of which neither is done: the later one is *)
(* blocked.                                                                 *)
LEMMA LaterIsBlocked ==
    ASSUME IInv, NEW e \in Committed, NEW f \in Committed,
           outbox[e].agg = outbox[f].agg, ~Blocked(e), ~Blocked(f),
           status[e] # "done", status[f] # "done"
    PROVE  e = f
  <1>1. outbox[e].ver \in Nat /\ outbox[f].ver \in Nat
    BY DEF IInv, TypeOK, Committed, Rows
  <1>2. ~(outbox[e].ver < outbox[f].ver) /\ ~(outbox[f].ver < outbox[e].ver)
    BY DEF Blocked
  <1>3. outbox[e].ver = outbox[f].ver
    BY <1>1, <1>2
  <1> QED BY <1>3 DEF IInv, RowsAreVersions, Committed

(* lease_batch: the leases of all workers, the one being taken included,    *)
(* never hold two events of an aggregate nor one event twice.               *)
THEOREM LeasesAreExclusive == Spec => []OneHolderPerAggregate
  <1>1. IInv => OneHolderPerAggregate
    <2> SUFFICES ASSUME IInv, NEW v \in Workers, NEW w \in Workers,
                        NEW e \in batch[v], NEW f \in batch[w],
                        outbox[e].agg = outbox[f].agg
                 PROVE  v = w /\ e = f
      BY DEF OneHolderPerAggregate
    <2>1. e \in Committed /\ f \in Committed
      BY DEF IInv, TypeOK
    <2>2. ~Blocked(e) /\ ~Blocked(f)
      BY <2>1 DEF IInv, LeasesAreOrdered, Tried
    <2>3. status[e] # "done" /\ status[f] # "done"
      BY DEF IInv, LeasesAreOrdered
    <2>4. e = f
      BY <2>1, <2>2, <2>3, LaterIsBlocked
    <2> QED BY <2>4 DEF IInv, LeasesAreOrdered
  <1> QED BY InvariantHolds, <1>1, PTL

(* mark_fail at the attempt limit: behind a dead delivery no version of the *)
(* aggregate is ever tried, and the sink stays where it is.                 *)
THEOREM DeadFreezes == Spec => []DeadFreezesAggregate
  <1>1. IInv => DeadFreezesAggregate
    <2> SUFFICES ASSUME IInv, NEW e \in Committed, NEW f \in Committed,
                        status[e] = "dead", outbox[f].agg = outbox[e].agg,
                        outbox[f].ver > outbox[e].ver
                 PROVE  /\ status[f] = "pending" /\ attempts[f] = 0
                        /\ handled[outbox[e].agg] <= outbox[e].ver
      BY DEF DeadFreezesAggregate
    <2>1. /\ outbox[e].ver \in Nat /\ outbox[f].ver \in Nat
          /\ outbox[e].agg \in Aggregates /\ attempts[f] \in Nat
          /\ status[f] \in {"pending", "in_flight", "done", "dead"}
      BY DEF IInv, TypeOK, Committed, Rows, RowStatuses
    <2>2. Blocked(f)
      BY <2>1 DEF Blocked
    <2>3. ~Tried(f)
      BY <2>2 DEF IInv, LeasesAreOrdered
    <2>4. ~(outbox[e].ver < handled[outbox[e].agg])
      BY DEF IInv, SinkIsAtFrontier
    <2>5. handled[outbox[e].agg] <= outbox[e].ver
      BY <2>1, <2>4 DEF IInv, TypeOK
    <2> QED BY <2>1, <2>3, <2>5 DEF Tried
  <1> QED BY InvariantHolds, <1>1, PTL

(* mark_done and mark_fail never rewrite the outcome of a delivery.         *)
THEOREM OutcomesAreFinal == Spec => OutcomeIsFinal
  <1>1. IInv /\ [Next]_vars => [KeepsOutcomes]_vars
    <2> SUFFICES ASSUME IInv, [Next]_vars PROVE [KeepsOutcomes]_vars
      OBVIOUS
    <2>1. ASSUME NEW a \in Aggregates, EnqueueEvent(a) PROVE KeepsOutcomes
      BY <2>1, BoundsAssumption DEF KeepsOutcomes, EnqueueEvent, IInv, TypeOK, EventIds
    <2>2. ASSUME NEW e \in EventIds, CommitWrite(e) \/ RollbackWrite(e) PROVE KeepsOutcomes
      BY <2>2 DEF KeepsOutcomes, CommitWrite, RollbackWrite, IInv, TypeOK
    <2>3. ASSUME NEW w \in Workers, CommitLease(w) PROVE KeepsOutcomes
      BY <2>3 DEF KeepsOutcomes, CommitLease, IInv, LeasesAreOrdered
    <2>4. ASSUME NEW w \in Workers, MarkAny(w) PROVE KeepsOutcomes
      <3>1. cur[w] \in batch[w] /\ pc[w] # "leasing"
        BY <2>4, MarkStep DEF IInv
      <3>2. status[cur[w]] = "in_flight"
        BY <3>1 DEF IInv, LeasesAreOrdered
      <3> QED BY <2>4, <3>2, MarkStep DEF IInv, KeepsOutcomes
    <2>5. ASSUME NEW w \in Workers, NEW e \in batch[w], DispatchAny(w, e) PROVE KeepsOutcomes
      BY <2>5, DispatchStep DEF IInv, KeepsOutcomes
    <2>6. CASE UNCHANGED status
      BY <2>6 DEF KeepsOutcomes
    <2> QED
      BY <2>1, <2>2, <2>3, <2>4, <2>5, <2>6
      DEF Next, WriterStep, WorkerStep, Dispatch, DispatchAny, MarkAny, Lease, EndDrain,
          Crash, Restart, LockExpires, vars, deliveryVars
  <1> QED BY InvariantHolds, <1>1, PTL DEF Spec, OutcomeIsFinal

----------------------------------------------------------------------------
(* The watermarks of projection_state. *)

Delivered(s) == {e \in Committed : status[e] = "done" /\ SinkOf(outbox[e].agg) = s}

(* Only mark_done makes a delivery done or moves last_event_id.             *)
LEMMA DoneStep ==
    ASSUME IInv, [Next]_vars, \A w \in Workers : ~MarkDone(w)
    PROVE  /\ \A s \in Sinks : projection'[s].last = projection[s].last
           /\ \A e \in EventIds : status'[e] = "done" <=> status[e] = "done"
           /\ \A e \in EventIds : status[e] = "done" => outbox'[e] = outbox[e]
  <1> DEFINE Q == /\ \A s \in Sinks : projection'[s].last = projection[s].last
                  /\ \A e \in EventIds : status'[e] = "done" <=> status[e] = "done"
                  /\ \A e \in EventIds : status[e] = "done" => outbox'[e] = outbox[e]
  <1>1. ASSUME NEW a \in Aggregates, EnqueueEvent(a) PROVE Q
    <2>1. nextId \in EventIds /\ status[nextId] = "none"
      BY <1>1, BoundsAssumption DEF EnqueueEvent, IInv, TypeOK, EventIds
    <2> QED BY <1>1, <2>1 DEF EnqueueEvent, IInv, TypeOK
  <1>2. ASSUME NEW e \in EventIds, CommitWrite(e) \/ RollbackWrite(e) PROVE Q
    BY <1>2 DEF CommitWrite, RollbackWrite, IInv, TypeOK
  <1>3. ASSUME NEW w \in Workers, CommitLease(w) PROVE Q
    BY <1>3 DEF CommitLease, canonicalVars, IInv, LeasesAreOrdered
  <1>4. ASSUME NEW w \in Workers, MarkRetry(w) \/ MarkDead(w) PROVE Q
    <2>1. cur[w] \in batch[w] /\ pc[w] = "failed" /\ outbox' = outbox
      BY <1>4, MarkStep DEF MarkAny, IInv, MarkRetry, MarkDead
    <2>2. status[cur[w]] = "in_flight"
      BY <2>1 DEF IInv, LeasesAreOrdered
    <2>3. \A e \in EventIds : status'[e] = "done" <=> status[e] = "done"
      BY <1>4, <2>1, <2>2, MarkStep DEF MarkAny, IInv
    <2>4. \A s \in Sinks : projection'[s].last = projection[s].last
      BY <1>4 DEF MarkRetry, MarkDead, IInv, TypeOK
    <2> QED BY <2>1, <2>3, <2>4
  <1>5. ASSUME NEW w \in Workers, NEW e \in batch[w], DispatchAny(w, e) PROVE Q
    BY <1>5 DEF DispatchAny, DispatchOk, DispatchSwallowed, DispatchRaises, DispatchLostReply,
                canonicalVars, deliveryVars
  <1>6. CASE UNCHANGED <<status, outbox, projection>>
    BY <1>6
  <1> QED
    BY <1>1, <1>2, <1>3, <1>4, <1>5, <1>6
    DEF Next, WriterStep, WorkerStep, Dispatch, DispatchAny, Lease, EndDrain,
        Crash, Restart, LockExpires, vars, canonicalVars, deliveryVars

(* mark_done upserts GREATEST(last_event_id, event_id): whichever worker    *)
(* comes last, the watermark is the newest done event of its sink.          *)
THEOREM WatermarksAreNewest == Spec => []WatermarkIsNewestDone
  <1>1. Init => WatermarkIsNewestDone
    <2>1. Init => Committed = {}
      BY DEF Init, Committed
    <2> QED BY <2>1 DEF Init, WatermarkIsNewestDone
  <1>2. IInv /\ WatermarkIsNewestDone /\ [Next]_vars => WatermarkIsNewestDone'
    <2> SUFFICES ASSUME IInv, WatermarkIsNewestDone, [Next]_vars, NEW s \in Sinks
                 PROVE  /\ \A e \in Delivered(s)' : e <= projection'[s].last
                        /\ projection'[s].last # 0 => projection'[s].last \in Delivered(s)'
      BY DEF WatermarkIsNewestDone, Delivered
    <2>1. /\ \A e \in Delivered(s) : e <= projection[s].last
          /\ projection[s].last # 0 => projection[s].last \in Delivered(s)
      BY DEF WatermarkIsNewestDone, Delivered
    <2>2. \A e : /\ e \in Delivered(s) <=> /\ e \in EventIds /\ status[e] = "done"
                                           /\ SinkOf(outbox[e].agg) = s
                 /\ e \in Delivered(s)' <=> /\ e \in EventIds /\ status'[e] = "done"
                                            /\ SinkOf(outbox'[e].agg) = s
      BY DEF Delivered, Committed, SinkOf
    <2>3. CASE \A w \in Workers : ~MarkDone(w)
      <3>1. Delivered(s)' = Delivered(s)
        BY <2>2, <2>3, DoneStep
      <3> QED BY <2>1, <2>3, <3>1, DoneStep
    <2>4. ASSUME NEW w \in Workers, MarkDone(w)
          PROVE  /\ \A e \in Delivered(s)' : e <= projection'[s].last
                 /\ projection'[s].last # 0 => projection'[s].last \in Delivered(s)'
      <3> DEFINE e == cur[w]
      <3>1. /\ e \in EventIds /\ outbox' = outbox
            /\ status' = [status EXCEPT ![e] = "done"] /\ status \in [EventIds -> RowStatuses]
            /\ projection[s].last \in Nat /\ e \in Nat
        <4>1. e \in Committed /\ outbox' = outbox
          BY <2>4, MarkStep DEF MarkAny, IInv
        <4>2. status \in [EventIds -> RowStatuses] /\ projection[s].last \in Nat
          BY DEF IInv, TypeOK
        <4> QED BY <2>4, <4>1, <4>2 DEF MarkDone, Committed, EventIds
      <3>2. CASE SinkOf(outbox[e].agg) = s
        <4>1. projection'[s].last = Larger(projection[s].last, e)
          BY <2>4, <3>2 DEF MarkDone, IInv, TypeOK
        <4>2. \A f : f \in Delivered(s)' <=> f \in Delivered(s) \/ f = e
          BY <2>2, <3>1, <3>2
        <4>3. \A f \in Delivered(s) : f \in Nat
          BY <2>2 DEF EventIds
        <4> QED BY <2>1, <3>1, <4>1, <4>2, <4>3 DEF Larger
      <3>3. CASE SinkOf(outbox[e].agg) # s
        <4>1. projection'[s] = projection[s]
          BY <2>4, <3>3 DEF MarkDone, IInv, TypeOK
        <4>2. Delivered(s)' = Delivered(s)
          BY <2>2, <3>1, <3>3
        <4> QED BY <2>1, <4>1, <4>2
      <3> QED BY <3>2, <3>3
    <2> QED BY <2>3, <2>4
  <1> QED BY InvariantHolds, <1>1, <1>2, PTL DEF Spec

----------------------------------------------------------------------------
(* The workers implement OrderedDelivery. *)

(* A dispatch of a leased event repeats the version the sink shows or       *)
(* brings it to the next one.                                               *)
LEMMA HandledOneByOne ==
    ASSUME IInv, NEW w \in Workers, NEW e \in batch[w],
           handled' = [handled EXCEPT ![outbox[e].agg] = outbox[e].ver],
           pc[w] = "draining"
    PROVE  \/ handled' = handled
           \/ /\ handled[outbox[e].agg] < version[outbox[e].agg]
              /\ handled' = [handled EXCEPT ![outbox[e].agg] = @ + 1]
  <1> DEFINE a == outbox[e].agg
  <1>1. /\ e \in Committed /\ a \in Aggregates
        /\ outbox[e].ver \in 1..version[a]
        /\ version[a] \in Nat /\ handled[a] \in Nat
    BY DEF IInv, TypeOK, RowsAreVersions, Committed, Rows
  <1>2. status[e] = "in_flight" /\ ~Blocked(e)
    BY <1>1 DEF IInv, LeasesAreOrdered, Tried
  <1>3. handled[a] <= outbox[e].ver
    BY <1>1, <1>2 DEF IInv, SinkIsAtFrontier
  <1>4. outbox[e].ver - 1 <= handled[a]
    <2>1. CASE outbox[e].ver = 1
      BY <1>1, <2>1
    <2>2. CASE outbox[e].ver # 1
      <3>1. outbox[e].ver - 1 \in 1..version[a]
        BY <1>1, <2>2
      <3>2. PICK f \in Committed : outbox[f].agg = a /\ outbox[f].ver = outbox[e].ver - 1
        BY <1>1, <3>1 DEF IInv, RowsAreVersions
      <3>3. status[f] = "done"
        BY <1>1, <1>2, <3>2 DEF Blocked
      <3> QED BY <3>2, <3>3 DEF IInv, SinkIsAtFrontier
    <2> QED BY <2>1, <2>2
  <1>5. CASE handled[a] = outbox[e].ver
    BY <1>5 DEF IInv, TypeOK
  <1>6. CASE handled[a] # outbox[e].ver
    <2>1. outbox[e].ver = handled[a] + 1 /\ handled[a] < version[a]
      BY <1>1, <1>3, <1>4, <1>6
    <2> QED BY <1>1, <2>1 DEF IInv, TypeOK
  <1> QED BY <1>5, <1>6

(* drain_once and the handlers bring a sink through the versions of every   *)
(* aggregate in commit order, never skipping one and never going back,      *)
(* however often a delivery is retried: Outbox implements OrderedDelivery.  *)
THEOREM Refinement == Spec => DeliversInOrder
  <1>1. Init => Ordered!Init
    BY DEF Init, Ordered!Init
  <1>2. IInv /\ [Next]_vars => [Ordered!Next]_(Ordered!vars)
    <2> SUFFICES ASSUME IInv, [Next]_vars PROVE [Ordered!Next]_(Ordered!vars)
      OBVIOUS
    <2>1. ASSUME NEW e \in EventIds, CommitWrite(e) PROVE Ordered!Next
      <3> DEFINE a == outbox[e].agg
      <3>1. a \in Aggregates /\ outbox[e].ver = version[a] + 1
        BY <2>1 DEF CommitWrite, IInv, TypeOK, RowsAreVersions, Rows
      <3>2. Ordered!Commit(a)
        BY <2>1, <3>1 DEF CommitWrite, sinkVars, Ordered!Commit
      <3> QED BY <3>1, <3>2 DEF Ordered!Next
    <2>2. ASSUME NEW w \in Workers, NEW e \in batch[w], DispatchAny(w, e)
          PROVE  [Ordered!Next]_(Ordered!vars)
      <3> DEFINE a == outbox[e].agg
      <3>1. e \in Committed /\ a \in Aggregates /\ version' = version /\ pc[w] = "draining"
        BY <2>2, DispatchStep DEF IInv, TypeOK, Committed, Rows
      <3>2. \/ handled' = handled
            \/ handled[a] < version[a] /\ handled' = [handled EXCEPT ![a] = @ + 1]
        BY <2>2, <3>1, DispatchStep, HandledOneByOne DEF IInv
      <3>3. UNCHANGED Ordered!vars \/ Ordered!Deliver(a)
        BY <3>1, <3>2 DEF Ordered!vars, Ordered!Deliver
      <3> QED BY <3>1, <3>3 DEF Ordered!Next
    <2>3. ASSUME UNCHANGED <<version, handled>> PROVE UNCHANGED Ordered!vars
      BY <2>3 DEF Ordered!vars
    <2>4. ASSUME NEW w \in Workers, MarkAny(w) PROVE UNCHANGED <<version, handled>>
      BY <2>4, MarkStep DEF IInv
    <2> QED
      BY <2>1, <2>2, <2>3, <2>4
      DEF Next, WriterStep, WorkerStep, Dispatch, DispatchAny, MarkAny, EnqueueEvent,
          RollbackWrite, Lease, CommitLease, EndDrain, Crash, Restart, LockExpires,
          vars, canonicalVars, sinkVars
  <1> QED BY InvariantHolds, <1>1, <1>2, PTL DEF Spec, DeliversInOrder, Ordered!Spec

----------------------------------------------------------------------------
(* Convergence, when every refused call is reported. *)

(* A handler that returns leaves in the sink what the snapshot asks for.    *)
LEMMA PointOfRow ==
    ASSUME NEW r \in Rows, NEW p, r.op \in OpsOf(r.agg), r.body \in BodiesOf(r.agg),
           Effect(r) # "raise"
    PROVE  PointAfter(p, r) = Wanted(r)
  <1>1. Kind[r.agg] \in {"memory", "entity", "relation", "task"}
    BY KindAssumption DEF Rows, Kinds
  <1>2. CASE Kind[r.agg] = "memory"
    BY <1>2 DEF PointAfter, Effect, Wanted
  <1>3. CASE Kind[r.agg] = "entity"
    BY <1>3 DEF PointAfter, Effect, Wanted, BodiesOf
  <1>4. CASE Kind[r.agg] \in {"relation", "task"}
    BY <1>4 DEF PointAfter, Effect, Wanted, BodiesOf, OpsOf
  <1> QED BY <1>1, <1>2, <1>3, <1>4

(* Every step keeps PointIsLastHandled where no refused delete is           *)
(* swallowed.                                                               *)
LEMMA PointNext ==
    ASSUME "rejected" \notin SinkErrors, IInv, PointIsLastHandled, [Next]_vars
    PROVE  PointIsLastHandled'
  <1>0. \A e \in Committed : e \in EventIds /\ status[e] # "none"
                             /\ outbox[e] \in Rows /\ outbox[e].agg \in Aggregates
    BY DEF Committed, IInv, TypeOK, Rows
  <1>1. ASSUME NEW a \in Aggregates, EnqueueEvent(a) PROVE PointIsLastHandled'
    <2>1. /\ nextId \in EventIds /\ status[nextId] = "none"
          /\ status' = [status EXCEPT ![nextId] = "open"]
          /\ UNCHANGED <<point, handled>>
      BY <1>1, BoundsAssumption DEF EnqueueEvent, IInv, TypeOK, EventIds, sinkVars
    <2>2. PICK op \in OpsOf(a), body \in BodiesOf(a) :
             outbox' = [outbox EXCEPT ![nextId] =
                          [agg |-> a, ver |-> version[a] + 1, op |-> op, body |-> body]]
      BY <1>1 DEF EnqueueEvent
    <2>3. Committed' = Committed /\ nextId \notin Committed
      BY <2>1 DEF Committed, IInv, TypeOK
    <2>4. /\ outbox'[nextId].agg = a /\ outbox'[nextId].op = op /\ outbox'[nextId].body = body
          /\ \A e \in EventIds : e # nextId => outbox'[e] = outbox[e] /\ status'[e] = status[e]
      BY <2>1, <2>2 DEF IInv, TypeOK
    <2>5. \A e \in Committed : outbox'[e] = outbox[e]
      BY <1>0, <2>3, <2>4
    <2>6. \A e \in EventIds : status'[e] # "none" =>
            outbox'[e].op \in OpsOf(outbox'[e].agg) /\ outbox'[e].body \in BodiesOf(outbox'[e].agg)
      BY <2>4 DEF PointIsLastHandled
    <2> QED BY <2>1, <2>3, <2>5, <2>6 DEF PointIsLastHandled
  <1>2. ASSUME NEW e \in EventIds, CommitWrite(e) PROVE PointIsLastHandled'
    <2>1. /\ status[e] = "open" /\ status' = [status EXCEPT ![e] = "pending"]
          /\ UNCHANGED <<outbox, point, handled>>
      BY <1>2 DEF CommitWrite, sinkVars
    <2>2. Committed' = Committed \cup {e}
      BY <2>1 DEF Committed, IInv, TypeOK
    <2>3. /\ outbox[e].ver = version[outbox[e].agg] + 1
          /\ version[outbox[e].agg] \in Nat /\ handled[outbox[e].agg] \in Nat
          /\ handled[outbox[e].agg] <= version[outbox[e].agg]
      BY <2>1 DEF IInv, TypeOK, Rows, RowsAreVersions, SinkIsAtFrontier
    <2>4. outbox[e].ver # handled[outbox[e].agg]
      BY <2>3
    <2>5. \A f \in EventIds : status'[f] # "none" => status[f] # "none"
      BY <2>1 DEF IInv, TypeOK
    <2> QED BY <2>1, <2>2, <2>4, <2>5 DEF PointIsLastHandled
  <1>3. ASSUME NEW e \in EventIds, RollbackWrite(e) PROVE PointIsLastHandled'
    <2>1. /\ status[e] = "open" /\ status' = [status EXCEPT ![e] = "none"]
          /\ \A f \in EventIds : f # e => outbox'[f] = outbox[f]
          /\ UNCHANGED <<point, handled>>
      BY <1>3 DEF RollbackWrite, IInv, TypeOK, sinkVars
    <2>2. Committed' = Committed /\ e \notin Committed
      BY <2>1 DEF Committed, IInv, TypeOK
    <2>3. \A f \in EventIds : status'[f] # "none" => f # e /\ status[f] # "none"
      BY <2>1 DEF IInv, TypeOK
    <2>4. \A f \in Committed : outbox'[f] = outbox[f]
      BY <1>0, <2>1, <2>2
    <2> QED BY <2>1, <2>2, <2>3, <2>4 DEF PointIsLastHandled
  <1>4. ASSUME UNCHANGED <<outbox, point, handled>>, Committed' = Committed,
               \A e \in EventIds : status'[e] = "none" <=> status[e] = "none"
        PROVE  PointIsLastHandled'
    BY <1>4 DEF PointIsLastHandled
  <1>5. ASSUME NEW w \in Workers, CommitLease(w) PROVE PointIsLastHandled'
    <2>1. \A e \in batch[w] : status[e] = "pending"
      BY <1>5 DEF CommitLease, IInv, LeasesAreOrdered
    <2>2. /\ \A e \in EventIds : status'[e] = (IF e \in batch[w] THEN "in_flight" ELSE status[e])
          /\ UNCHANGED <<outbox, point, handled>>
      BY <1>5 DEF CommitLease, canonicalVars, sinkVars
    <2>3. Committed' = Committed
      BY <2>1, <2>2 DEF Committed
    <2> QED BY <1>4, <2>1, <2>2, <2>3
  <1>6. ASSUME NEW w \in Workers, NEW e \in batch[w],
               DispatchOk(w, e) \/ DispatchLostReply(w, e)
        PROVE  PointIsLastHandled'
    <2> DEFINE a == outbox[e].agg
    <2>1. /\ e \in Committed /\ a \in Aggregates /\ Effect(outbox[e]) # "raise"
          /\ point' = [point EXCEPT ![a] = PointAfter(@, outbox[e])]
          /\ handled' = [handled EXCEPT ![a] = outbox[e].ver]
          /\ UNCHANGED <<outbox, status>>
      BY <1>0, <1>6 DEF DispatchOk, DispatchLostReply, canonicalVars, deliveryVars, IInv, TypeOK
    <2>2. PointAfter(point[a], outbox[e]) = Wanted(outbox[e])
      BY <1>0, <2>1, PointOfRow DEF PointIsLastHandled
    <2>3. /\ point'[a] = Wanted(outbox[e]) /\ handled'[a] = outbox[e].ver
          /\ \A b \in Aggregates : b # a => point'[b] = point[b] /\ handled'[b] = handled[b]
      BY <2>1, <2>2 DEF IInv, TypeOK
    <2>4. Committed' = Committed
      BY <2>1 DEF Committed
    <2>5. \A f \in Committed : outbox[f].agg = a /\ outbox[f].ver = outbox[e].ver => f = e
      BY <1>0, <2>1 DEF IInv, RowsAreVersions
    <2>6. \A f \in Committed : outbox[f].ver = handled'[outbox[f].agg]
                               => point'[outbox[f].agg] = Wanted(outbox[f])
      BY <1>0, <2>3, <2>5 DEF PointIsLastHandled
    <2> QED BY <2>1, <2>4, <2>6 DEF PointIsLastHandled
  <1>7. ASSUME NEW w \in Workers, NEW e \in batch[w], DispatchRaises(w, e)
        PROVE  PointIsLastHandled'
    <2>1. UNCHANGED <<outbox, status, point, handled>>
      BY <1>7 DEF DispatchRaises, canonicalVars, deliveryVars, sinkVars
    <2> QED BY <1>4, <2>1 DEF Committed
  <1>8. ASSUME NEW w \in Workers, NEW e \in batch[w], DispatchSwallowed(w, e)
        PROVE  FALSE
    BY <1>8 DEF DispatchSwallowed
  <1>9. ASSUME NEW w \in Workers, MarkAny(w) PROVE PointIsLastHandled'
    <2>1. /\ status[cur[w]] \notin {"none", "open"} /\ cur[w] \in EventIds
          /\ status'[cur[w]] \in {"pending", "done", "dead"}
          /\ \A f \in EventIds : f # cur[w] => status'[f] = status[f]
          /\ UNCHANGED <<outbox, handled>>
      BY <1>9, MarkStep DEF IInv, Committed
    <2>2. Committed' = Committed
      BY <2>1 DEF Committed
    <2>3. point' = point
      BY <1>9 DEF MarkAny, MarkDone, MarkRetry, MarkDead, sinkVars
    <2> QED BY <1>4, <2>1, <2>2, <2>3
  <1>10. ASSUME UNCHANGED <<outbox, point, handled, status>> PROVE PointIsLastHandled'
    BY <1>4, <1>10 DEF Committed
  <1> QED
    BY <1>1, <1>2, <1>3, <1>5, <1>6, <1>7, <1>8, <1>9, <1>10
    DEF Next, WriterStep, WorkerStep, Dispatch, MarkAny, Lease, EndDrain, Crash, Restart,
        LockExpires, vars, canonicalVars, deliveryVars, sinkVars

(* The handlers and mark_done: where no refused delete is swallowed, a sink *)
(* whose deliveries for an aggregate are all done holds what the committed  *)
(* row asks for.                                                            *)
THEOREM SinkConverges ==
    ASSUME "rejected" \notin SinkErrors
    PROVE  Spec => []Converged
  <1>1. Init => PointIsLastHandled
    <2>1. Init => (\A e \in EventIds : status[e] = "none") /\ Committed = {}
      BY DEF Init, Committed
    <2> QED BY <2>1 DEF PointIsLastHandled
  <1>2. IInv /\ PointIsLastHandled /\ [Next]_vars => PointIsLastHandled'
    BY PointNext
  <1>3. IInv /\ PointIsLastHandled => Converged
    <2> SUFFICES ASSUME IInv, PointIsLastHandled, NEW a \in Aggregates,
                        \A e \in Committed : outbox[e].agg = a => status[e] = "done",
                        NEW e \in Committed, outbox[e].agg = a, outbox[e].ver = version[a]
                 PROVE  point[a] = Wanted(outbox[e])
      BY DEF Converged
    <2>1. version[a] <= handled[a] /\ handled[a] <= version[a]
      BY DEF IInv, SinkIsAtFrontier
    <2>2. version[a] \in Nat /\ handled[a] \in Nat
      BY DEF IInv, TypeOK
    <2>3. outbox[e].ver = handled[a]
      BY <2>1, <2>2
    <2> QED BY <2>3 DEF PointIsLastHandled
  <1> QED BY InvariantHolds, <1>1, <1>2, <1>3, PTL DEF Spec

----------------------------------------------------------------------------
(* Fresh reads *)

(* The reader only looks at what the workers do.                            *)
LEMMA ReadersOnlyLook == FreshSpec => Spec
  <1>1. FreshInit => Init
    BY DEF FreshInit
  <1>2. [FreshNext]_readVars => [Next]_vars
    BY DEF FreshNext, readVars, vars, BeginRead, PollCaughtUp, GiveUp
  <1> QED BY <1>1, <1>2, PTL DEF FreshSpec, Spec

----------------------------------------------------------------------------
(* The row lock of a canonical row orders the ids of its events: the later  *)
(* id carries the later version, whatever was rolled back in between.       *)
RowsInOrder ==
    \A e, f \in EventIds :
        status[e] # "none" /\ status[f] # "none" /\ outbox[e].agg = outbox[f].agg /\ e < f
            => outbox[e].ver < outbox[f].ver

(* enqueue_event alone adds a row, above all others of its aggregate.       *)
LEMMA RowsInOrderNext == IInv /\ RowsInOrder /\ [Next]_vars => RowsInOrder'
  <1> SUFFICES ASSUME IInv, RowsInOrder, [Next]_vars PROVE RowsInOrder'
    OBVIOUS
  <1>1. ASSUME NEW a \in Aggregates, EnqueueEvent(a) PROVE RowsInOrder'
    <2>1. /\ nextId \in EventIds /\ status' = [status EXCEPT ![nextId] = "open"]
          /\ status \in [EventIds -> RowStatuses]
          /\ \A e \in EventIds : status[e] # "none" => e < nextId
      BY <1>1, BoundsAssumption DEF EnqueueEvent, IInv, TypeOK, EventIds
    <2>2. /\ outbox'[nextId].agg = a /\ outbox'[nextId].ver = version[a] + 1
          /\ \A e \in EventIds : e # nextId => outbox'[e] = outbox[e]
      BY <1>1, <2>1 DEF EnqueueEvent, IInv, TypeOK
    <2>3. ASSUME NEW e \in EventIds, status[e] # "none", outbox[e].agg = a
          PROVE  outbox[e].ver < version[a] + 1
      <3>1. status[e] # "open"
        BY <1>1, <2>3 DEF EnqueueEvent, Writing
      <3>2. outbox[e].ver \in 1..version[a] /\ version[a] \in Nat
        BY <2>3, <3>1 DEF IInv, TypeOK, RowsAreVersions, Committed
      <3> QED BY <3>2
    <2>4. \A e \in EventIds : status'[e] # "none" => e = nextId \/ status[e] # "none"
      BY <2>1
    <2>5. \A e \in EventIds : e \in Nat
      BY DEF EventIds
    <2> QED BY <2>1, <2>2, <2>3, <2>4, <2>5 DEF RowsInOrder
  <1>2. ASSUME NEW e \in EventIds, CommitWrite(e) \/ RollbackWrite(e) PROVE RowsInOrder'
    <2>1. \A f \in EventIds : status'[f] # "none" => status[f] # "none" /\ outbox'[f] = outbox[f]
      BY <1>2 DEF CommitWrite, RollbackWrite, IInv, TypeOK
    <2> QED BY <2>1 DEF RowsInOrder
  <1>3. ASSUME NEW w \in Workers, CommitLease(w) PROVE RowsInOrder'
    <2>1. /\ outbox' = outbox
          /\ \A f \in EventIds : status'[f] # "none" => status[f] # "none"
      BY <1>3 DEF CommitLease, canonicalVars, IInv, TypeOK, Committed
    <2> QED BY <2>1 DEF RowsInOrder
  <1>4. ASSUME NEW w \in Workers, MarkAny(w) PROVE RowsInOrder'
    <2>1. /\ outbox' = outbox
          /\ \A f \in EventIds : status'[f] # "none" => status[f] # "none"
      BY <1>4, MarkStep DEF IInv, Committed
    <2> QED BY <2>1 DEF RowsInOrder
  <1>5. ASSUME NEW w \in Workers, NEW e \in batch[w], DispatchAny(w, e) PROVE RowsInOrder'
    BY <1>5, DispatchStep DEF IInv, RowsInOrder
  <1>6. CASE UNCHANGED <<status, outbox>>
    BY <1>6 DEF RowsInOrder
  <1> QED
    BY <1>1, <1>2, <1>3, <1>4, <1>5, <1>6
    DEF Next, WriterStep, WorkerStep, Dispatch, DispatchAny, MarkAny, Lease, EndDrain,
        Crash, Restart, LockExpires, vars, canonicalVars, deliveryVars

----------------------------------------------------------------------------
(* What the workers never take back: commits, versions and watermarks.      *)
LEMMA Forward ==
    ASSUME IInv, [Next]_vars
    PROVE  /\ Committed \subseteq Committed'
           /\ \A e \in Committed : outbox'[e] = outbox[e]
           /\ \A s \in Sinks : projection[s].last <= projection'[s].last
  <1> DEFINE Q == /\ Committed \subseteq Committed'
                  /\ \A e \in Committed : outbox'[e] = outbox[e]
  <1>1. \A s \in Sinks : projection[s].last \in Nat
    BY DEF IInv, TypeOK
  <1>2. Q
    <2>1. ASSUME NEW a \in Aggregates, EnqueueEvent(a) PROVE Q
      <3>1. nextId \in EventIds /\ status[nextId] = "none"
        BY <2>1, BoundsAssumption DEF EnqueueEvent, IInv, TypeOK, EventIds
      <3> QED BY <2>1, <3>1 DEF EnqueueEvent, IInv, TypeOK, Committed
    <2>2. ASSUME NEW e \in EventIds, CommitWrite(e) \/ RollbackWrite(e) PROVE Q
      BY <2>2 DEF CommitWrite, RollbackWrite, IInv, TypeOK, Committed
    <2>3. ASSUME NEW w \in Workers, CommitLease(w) PROVE Q
      BY <2>3 DEF CommitLease, canonicalVars, Committed
    <2>4. ASSUME NEW w \in Workers, MarkAny(w) PROVE Q
      BY <2>4, MarkStep DEF IInv, Committed
    <2>5. ASSUME NEW w \in Workers, NEW e \in batch[w], DispatchAny(w, e) PROVE Q
      BY <2>5, DispatchStep DEF IInv, Committed
    <2>6. CASE UNCHANGED <<status, outbox>>
      BY <2>6 DEF Committed
    <2> QED
      BY <2>1, <2>2, <2>3, <2>4, <2>5, <2>6
      DEF Next, WriterStep, WorkerStep, Dispatch, DispatchAny, MarkAny, Lease, EndDrain,
          Crash, Restart, LockExpires, vars, canonicalVars, deliveryVars
  <1>3. \A s \in Sinks : projection[s].last <= projection'[s].last
    <2>1. CASE \A w \in Workers : ~MarkDone(w)
      BY <1>1, <2>1, DoneStep
    <2>2. ASSUME NEW w \in Workers, MarkDone(w), NEW s \in Sinks
          PROVE  projection[s].last <= projection'[s].last
      <3>1. cur[w] \in Nat
        BY DEF IInv, TypeOK, EventIds
      <3>2. CASE SinkOf(outbox[cur[w]].agg) = s
        <4>1. projection'[s].last = Larger(projection[s].last, cur[w])
          BY <2>2, <3>2 DEF MarkDone, IInv, TypeOK
        <4> QED BY <1>1, <3>1, <4>1 DEF Larger
      <3>3. CASE SinkOf(outbox[cur[w]].agg) # s
        <4>1. projection'[s] = projection[s]
          BY <2>2, <3>3 DEF MarkDone, IInv, TypeOK
        <4> QED BY <1>1, <4>1
      <3> QED BY <3>2, <3>3
    <2> QED BY <2>1, <2>2
  <1> QED BY <1>2, <1>3

(* max(event_id) of the env is at or above all that was committed.          *)
LEMMA WatermarkIsNewest ==
    /\ Committed = {} => Watermark = 0
    /\ Committed # {} => Watermark \in Committed
    /\ \A e \in Committed : e <= Watermark
  <1>1. CASE Committed = {}
    BY <1>1 DEF Watermark
  <1>2. CASE Committed # {}
    <2> DEFINE T == {MaxEvents - e : e \in Committed}
    <2>1. MaxEvents \in Nat /\ \A e \in Committed : e \in 1..MaxEvents
      BY BoundsAssumption DEF Committed, EventIds
    <2>2. T \subseteq Nat /\ T # {}
      BY <1>2, <2>1
    <2>3. PICK x \in T : \A y \in T : ~(<<y, x>> \in OpToRel(<, Nat))
      BY <2>2, NatLessThanWellFounded, WFMin
    <2>4. \A y \in T : ~(y < x)
      BY <2>2, <2>3 DEF OpToRel
    <2>5. PICK m \in Committed : x = MaxEvents - m
      OBVIOUS
    <2>6. \A e \in Committed : e <= m
      <3> SUFFICES ASSUME NEW e \in Committed PROVE e <= m
        OBVIOUS
      <3>1. ~(MaxEvents - e < MaxEvents - m)
        BY <2>4, <2>5
      <3> QED BY <2>1, <3>1
    <2> QED BY <1>2, <2>6 DEF Watermark
  <1> QED BY <1>1, <1>2

----------------------------------------------------------------------------
(* The read. *)

(* The target is the newest event there was when the read began, so the     *)
(* versions of that moment are those of events at or below it; and what was *)
(* once answered as fresh had every needed sink at the target.              *)
Reads == [state : {"idle", "waiting", "fresh", "canonical", "as_is"},
          mode : ReadModes \cup {"none"}, target : Nat, start : [Aggregates -> Nat]]

ReadInv ==
    /\ read \in Reads
    /\ read.state # "idle" =>
          /\ read.mode \in Modes
          /\ read.target # 0 => read.target \in Committed
          /\ \A a \in Aggregates :
                read.start[a] # 0 =>
                    \E e \in Committed : /\ outbox[e].agg = a /\ outbox[e].ver = read.start[a]
                                         /\ e <= read.target
    /\ read.state = "fresh" => CaughtUp

LEMMA ReadInvInit == FreshInit => ReadInv
  BY DEF FreshInit, ReadInv, NoRead, Reads

LEMMA SinksOfModes == \A mode : SinksFor(mode) \subseteq Sinks
  BY DEF SinksFor, Sinks

(* _capture_watermarks and the polls of _wait_for_watermarks establish what *)
(* the workers then keep, because they only move forward.                   *)
LEMMA ReadInvNext == IInv /\ ReadInv /\ [FreshNext]_readVars => ReadInv'
  <1> SUFFICES ASSUME IInv, ReadInv, [FreshNext]_readVars PROVE ReadInv'
    OBVIOUS
  <1>1. ASSUME [Next]_vars, read' = read PROVE ReadInv'
    <2>1. CASE read.state = "idle"
      BY <1>1, <2>1 DEF ReadInv
    <2>2. CASE read.state # "idle"
      <3>1. read.target # 0 => read.target \in Committed'
        BY <1>1, <2>2, Forward DEF ReadInv
      <3>2. ASSUME NEW a \in Aggregates, read.start[a] # 0
            PROVE  \E e \in Committed' : /\ outbox'[e].agg = a /\ outbox'[e].ver = read.start[a]
                                         /\ e <= read.target
        <4>1. PICK e \in Committed : /\ outbox[e].agg = a /\ outbox[e].ver = read.start[a]
                                     /\ e <= read.target
          BY <2>2, <3>2 DEF ReadInv
        <4> QED BY <1>1, <4>1, Forward
      <3>3. read.state = "fresh" => CaughtUp'
        <4> SUFFICES ASSUME read.state = "fresh", read.target # 0,
                            NEW s \in SinksFor(read.mode)
                     PROVE  projection'[s].last >= read.target
          BY <1>1 DEF CaughtUp
        <4>1. /\ projection[s].last >= read.target
              /\ projection[s].last <= projection'[s].last
          BY <1>1, SinksOfModes, Forward DEF ReadInv, CaughtUp
        <4>2. read.target \in Nat /\ projection[s].last \in Nat /\ projection'[s].last \in Nat
          BY <1>1, <2>2, TypeNext, SinksOfModes DEF ReadInv, IInv, TypeOK, Committed, EventIds
        <4> QED BY <4>1, <4>2
      <3> QED BY <1>1, <2>2, <3>1, <3>2, <3>3 DEF ReadInv
    <2> QED BY <2>1, <2>2
  <1>2. ASSUME NEW mode \in Modes, BeginRead(mode) PROVE ReadInv'
    <2>1. /\ read'.state = "waiting" /\ read'.mode = mode /\ read'.target = Watermark
          /\ read'.start = version
          /\ UNCHANGED <<status, outbox, version>>
      BY <1>2 DEF BeginRead, vars
    <2>2. Committed' = Committed
      BY <2>1 DEF Committed
    <2>3. ASSUME NEW a \in Aggregates, version[a] # 0
          PROVE  \E e \in Committed : /\ outbox[e].agg = a /\ outbox[e].ver = version[a]
                                      /\ e <= Watermark
      <3>1. version[a] \in 1..version[a]
        BY <2>3 DEF IInv, TypeOK
      <3> QED BY <3>1, WatermarkIsNewest DEF IInv, RowsAreVersions
    <2>4. Watermark # 0 => Watermark \in Committed
      BY WatermarkIsNewest
    <2>5. read' \in Reads
      <3>1. mode \in ReadModes /\ Watermark \in Nat /\ version \in [Aggregates -> Nat]
        BY ModesAssumption, WatermarkIsNewest DEF IInv, TypeOK, Committed, EventIds
      <3> QED BY <1>2, <3>1 DEF BeginRead, Reads
    <2> QED BY <2>1, <2>2, <2>3, <2>4, <2>5 DEF ReadInv
  <1>3. ASSUME PollCaughtUp \/ GiveUp PROVE ReadInv'
    <2>1. /\ read.state = "waiting" /\ read'.mode = read.mode
          /\ read'.target = read.target /\ read'.start = read.start
          /\ UNCHANGED <<status, outbox, projection>>
          /\ read'.state = "fresh" => CaughtUp
          /\ read'.state # "idle"
          /\ read' \in Reads
      BY <1>3 DEF PollCaughtUp, GiveUp, vars, ReadInv, Reads
    <2>2. Committed' = Committed
      BY <2>1 DEF Committed
    <2>3. read'.state = "fresh" => CaughtUp'
      BY <2>1 DEF CaughtUp
    <2> QED BY <2>1, <2>2, <2>3 DEF ReadInv
  <1> QED BY <1>1, <1>2, <1>3 DEF FreshNext, readVars, vars

(* What the workers and the reader keep together.                           *)
FreshInv == IInv /\ WatermarkIsNewestDone /\ RowsInOrder /\ ReadInv

LEMMA FreshInvariant == FreshSpec => []FreshInv
  <1>1. FreshInit => RowsInOrder /\ ReadInv
    BY ReadInvInit DEF FreshInit, Init, RowsInOrder
  <1>2. [FreshNext]_readVars => [Next]_vars
    BY DEF FreshNext, readVars, vars, BeginRead, PollCaughtUp, GiveUp
  <1>3. IInv /\ RowsInOrder /\ ReadInv /\ [FreshNext]_readVars => (RowsInOrder /\ ReadInv)'
    BY <1>2, RowsInOrderNext, ReadInvNext
  <1> QED BY <1>1, <1>3, ReadersOnlyLook, InvariantHolds, WatermarksAreNewest, PTL
          DEF FreshSpec, FreshInv

(* A version is committed once, so the event at a sink's watermark speaks   *)
(* for its own aggregate: where a fresh answer lacks a version, the newest  *)
(* done event is another aggregate's.                                       *)
LEMMA CaughtUpOrOvertaken ==
    ASSUME FreshInv, read.state = "fresh", NEW a \in Aggregates,
           SinkOf(a) \in SinksFor(read.mode), handled[a] < read.start[a]
    PROVE  Overtaken(a)
  <1> DEFINE s == SinkOf(a)
             m == projection[s].last
  <1>1. handled[a] \in Nat /\ s \in Sinks /\ read.start[a] \in Nat
    BY SinksOfModes DEF FreshInv, IInv, TypeOK, ReadInv, Reads
  <1>2. read.start[a] # 0
    BY <1>1
  <1>3. PICK e \in Committed : /\ outbox[e].agg = a /\ outbox[e].ver = read.start[a]
                               /\ e <= read.target
    BY <1>2 DEF FreshInv, ReadInv
  <1>4. e \in Nat /\ e # 0 /\ read.target # 0
    BY <1>3 DEF Committed, EventIds
  <1>5. m >= read.target
    BY <1>4 DEF FreshInv, ReadInv, CaughtUp
  <1>6. m \in Nat /\ read.target \in Nat
    BY <1>1, <1>4 DEF FreshInv, IInv, TypeOK, ReadInv, Committed, EventIds
  <1>7. m # 0 /\ e <= m
    BY <1>3, <1>4, <1>5, <1>6
  <1>8. m \in Committed /\ status[m] = "done" /\ SinkOf(outbox[m].agg) = s
    BY <1>1, <1>7 DEF FreshInv, WatermarkIsNewestDone
  <1>9. outbox[m].ver \in Nat /\ outbox[e].ver \in Nat
    BY <1>3, <1>8 DEF FreshInv, IInv, TypeOK, Committed, Rows
  <1>10. status[e] # "done"
    <2> SUFFICES ASSUME status[e] = "done" PROVE FALSE
      OBVIOUS
    <2>1. outbox[e].ver <= handled[a]
      BY <1>3 DEF FreshInv, IInv, SinkIsAtFrontier
    <2> QED BY <1>1, <1>3, <2>1
  <1>11. outbox[m].agg # a
    <2> SUFFICES ASSUME outbox[m].agg = a PROVE FALSE
      OBVIOUS
    <2>1. e = m \/ outbox[e].ver < outbox[m].ver
      BY <1>3, <1>4, <1>6, <1>7, <1>8 DEF FreshInv, RowsInOrder, Committed
    <2>2. outbox[m].ver <= handled[a]
      BY <1>8 DEF FreshInv, IInv, SinkIsAtFrontier
    <2> QED BY <1>1, <1>3, <1>9, <2>1, <2>2
  <1>12. e < m
    BY <1>3, <1>4, <1>6, <1>7, <1>11
  <1> QED BY <1>3, <1>5, <1>6, <1>8, <1>10, <1>11, <1>12 DEF Overtaken

(* memory_search and entity_neighbors with consistency="fresh", for any     *)
(* number of aggregates and both sinks: an answer marked fresh lacks a      *)
(* version only where an event of another aggregate has lifted the          *)
(* watermark past the delivery of it.                                       *)
THEOREM FreshReadsMissOnlyOvertaken == FreshSpec => []FreshMissesOnlyOvertaken
  <1>1. FreshInv => FreshMissesOnlyOvertaken
    BY CaughtUpOrOvertaken DEF FreshMissesOnlyOvertaken
  <1> QED BY <1>1, FreshInvariant, PTL

(* The wait of memory_search, for any kinds of rows: a read degrades only   *)
(* where a sink it waits for has nothing delivered at or after the newest   *)
(* event, which is max(event_id) over all sinks.                            *)
THEOREM DegradesForAReason == FreshSpec => DegradesOnlyWhenBehind
  <1> DEFINE Step == read.state = "waiting" /\ read'.state = "canonical" =>
                        \E s \in SinksFor(read.mode) : \A f \in Committed :
                            SinkOf(outbox[f].agg) = s /\ read.target <= f => status[f] # "done"
  <1>1. FreshInv /\ [FreshNext]_readVars => [Step]_readVars
    <2> SUFFICES ASSUME FreshInv, FreshNext, read.state = "waiting", read'.state = "canonical"
                 PROVE  \E s \in SinksFor(read.mode) : \A f \in Committed :
                            SinkOf(outbox[f].agg) = s /\ read.target <= f => status[f] # "done"
      OBVIOUS
    <2>1. GiveUp
      BY DEF FreshNext, BeginRead, PollCaughtUp, FreshInv, ReadInv, Reads
    <2>2. PICK s \in SinksFor(read.mode) : ~(projection[s].last >= read.target)
      BY <2>1 DEF GiveUp, CaughtUp
    <2>3. s \in Sinks /\ projection[s].last \in Nat /\ read.target \in Nat
      BY <2>2, SinksOfModes DEF FreshInv, IInv, TypeOK, ReadInv, Reads
    <2>4. ASSUME NEW f \in Committed, SinkOf(outbox[f].agg) = s, read.target <= f,
                 status[f] = "done"
          PROVE  FALSE
      <3>1. f <= projection[s].last /\ f \in Nat
        BY <2>3, <2>4 DEF FreshInv, WatermarkIsNewestDone, Committed, EventIds
      <3> QED BY <2>2, <2>3, <2>4, <3>1
    <2> QED BY <2>2, <2>4
  <1> QED BY <1>1, FreshInvariant, PTL DEF FreshSpec, DegradesOnlyWhenBehind
=============================================================================
