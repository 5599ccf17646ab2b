------------------------------- MODULE Outbox -------------------------------
(***************************************************************************)
(* The transactional outbox and the projection workers that drain it       *)
(* (db/outbox.py, projection_worker/).                                     *)
(*                                                                         *)
(* A canonical transaction inserts an outbox row that carries the next     *)
(* version of one aggregate and a snapshot of it.  Workers lease pending    *)
(* deliveries of one sink at a time, hand each one to the sink's handler,   *)
(* and record the outcome in a transaction of its own, so a crash, a        *)
(* failed call or a lost reply may fall between any two of these steps.    *)
(***************************************************************************)
EXTENDS Naturals, FiniteSets

CONSTANTS
    Aggregates,     \* ids of canonical rows
    Kind,           \* Kind[a]: "memory", "entity", "relation" or "task"
    Workers,        \* projection-worker processes
    BatchSize,      \* drain_once(batch_size)
    MaxAttempts,    \* mark_fail(max_attempts)
    Bodies,         \* what a snapshot may hold: "text", "empty", "foreign"
    SinkErrors,     \* how a sink call may fail: "unreachable", "lost_reply",
                    \* "rejected"
    MaxEvents,      \* bound: event ids handed out
    MaxCrashes      \* bound: worker processes that die

Kinds == {"memory", "entity", "relation", "task"}
Sinks == {"qdrant", "neo4j"}
EventIds == 1..MaxEvents

ASSUME KindAssumption == Kind \in [Aggregates -> Kinds]
ASSUME BatchAssumption == BatchSize \in Nat \ {0}
ASSUME AttemptsAssumption == MaxAttempts \in Nat \ {0}
ASSUME BodiesAssumption == Bodies \subseteq {"text", "empty", "foreign"}
ASSUME ErrorsAssumption ==
    SinkErrors \subseteq {"unreachable", "lost_reply", "rejected"}
ASSUME BoundsAssumption == MaxEvents \in Nat /\ MaxCrashes \in Nat

VARIABLES
    version,    \* version[a]: committed version of the canonical row, 0 if none
    nextId,     \* the bigserial sequence behind outbox.event_id
    outbox,     \* outbox[e]: the row's aggregate, version, op and body
    status,     \* status[e]: of its delivery; "none" no row, "open" not committed
    attempts,   \* attempt_count[e]
    lock,       \* locked_until[e]: "free" NULL, "held" ahead, "expired" past
    projection, \* projection_state: last_event_id and status of each sink
    point,      \* point[a]: version of a that the sink holds, 0 if no point
    handled,    \* handled[a]: last version whose effect reached the sink
    turn,       \* turn[w]: sink the next drain_once of w is for
    pc,         \* pc[w]: where w is in drain_once
    batch,      \* batch[w]: leased events w has not finished
    cur,        \* cur[w]: event w has dispatched and not yet marked, or 0
    crashes     \* crashes so far

canonicalVars == <<version, nextId, outbox>>
deliveryVars == <<status, attempts, lock, projection>>
sinkVars == <<point, handled>>
workerVars == <<turn, pc, batch, cur, crashes>>
vars == <<version, nextId, outbox, status, attempts, lock, projection,
          point, handled, turn, pc, batch, cur, crashes>>

Ops == {"write", "tombstone"}
Rows == [agg : Aggregates, ver : Nat, op : Ops, body : Bodies]
NoRow == [agg |-> "none"]
RowStatuses == {"none", "open", "pending", "in_flight", "done", "dead"}
WorkerStates ==
    {"idle", "leasing", "draining", "succeeded", "failed", "down"}

----------------------------------------------------------------------------
(* Reading the tables *)

\* Rows that other transactions can see.
Committed == {e \in EventIds : status[e] \notin {"none", "open"}}

\* resolve_sinks_for under the default backends: one sink per aggregate.
SinkOf(a) == IF Kind[a] = "memory" THEN "qdrant" ELSE "neo4j"

\* Mutant: only a dead-lettered predecessor no longer holds an event back.
Blocked_NotByDead(e) ==
    \E p \in Committed : /\ outbox[p].agg = outbox[e].agg
                         /\ outbox[p].ver < outbox[e].ver
                         /\ status[p] \notin {"done", "dead"}

\* Mutant: no NOT EXISTS, event_id order only.
Blocked_Never(e) == FALSE

\* The NOT EXISTS of the lease query: an earlier version is not done.
Blocked(e) ==
    \E p \in Committed : /\ outbox[p].agg = outbox[e].agg
                         /\ outbox[p].ver < outbox[e].ver
                         /\ status[p] # "done"

\* Mutant: SELECT without FOR UPDATE SKIP LOCKED.
RowLocked_None == {}

\* Rows a lease transaction in progress holds FOR UPDATE.
RowLocked == UNION {batch[w] : w \in {v \in Workers : pc[v] = "leasing"}}

\* Mutant: what the index comment calls the lease reaper, without more care.
Leasable_Reaping(s) ==
    {e \in Committed : /\ \/ status[e] = "pending" /\ lock[e] # "held"
                          \/ status[e] = "in_flight" /\ lock[e] = "expired"
                       /\ SinkOf(outbox[e].agg) = s
                       /\ ~Blocked(e)
                       /\ e \notin RowLocked}

Leasable(s) ==
    {e \in Committed : /\ status[e] = "pending"
                       /\ SinkOf(outbox[e].agg) = s
                       /\ lock[e] # "held"
                       /\ ~Blocked(e)
                       /\ e \notin RowLocked}

\* ORDER BY event_id LIMIT n
Lowest(S, n) == {e \in S : Cardinality({f \in S : f < e}) < n}

\* Ops a writer of this kind of row enqueues: only memories and entities end
\* in a tombstone.
OpsOf(a) == IF Kind[a] \in {"memory", "entity"} THEN Ops ELSE {"write"}
BodiesOf(a) == IF Kind[a] = "memory" THEN Bodies ELSE Bodies \cap {"text"}

\* Mutant: a memory without text is skipped instead of deleted.
Effect_SkipEmpty(r) ==
    IF r.op = "tombstone" THEN "delete"
    ELSE IF r.body = "foreign" THEN "raise"
    ELSE IF r.body = "empty" THEN "skip" ELSE "upsert"

\* What the sink's handler does with a row.
Effect(r) ==
    CASE Kind[r.agg] = "memory" ->
            CASE r.op = "tombstone"  -> "delete"
              [] r.body = "foreign"  -> "raise"
              [] r.body = "empty"    -> "delete"
              [] OTHER               -> "upsert"
      [] Kind[r.agg] = "entity"   -> IF r.op = "tombstone" THEN "delete" ELSE "upsert"
      [] Kind[r.agg] = "relation" -> IF r.op = "tombstone" THEN "raise" ELSE "upsert"
      [] Kind[r.agg] = "task"     -> IF r.op = "tombstone" THEN "skip" ELSE "upsert"

PointAfter(p, r) ==
    CASE Effect(r) = "upsert" -> r.ver
      [] Effect(r) = "delete" -> 0
      [] OTHER                -> p

----------------------------------------------------------------------------
(* Canonical transactions *)

\* The row lock of the canonical row: one open transaction per aggregate.
Writing(a) == \E e \in EventIds : status[e] = "open" /\ outbox[e].agg = a

\* enqueue_event inside a transaction that moved a to its next version.  The
\* event id is taken from the sequence now, whatever becomes of the rows.
EnqueueEvent(a) ==
    /\ nextId <= MaxEvents
    /\ ~Writing(a)
    /\ \E op \in OpsOf(a), body \in BodiesOf(a) :
          outbox' = [outbox EXCEPT ![nextId] =
                       [agg |-> a, ver |-> version[a] + 1, op |-> op, body |-> body]]
    /\ status' = [status EXCEPT ![nextId] = "open"]
    /\ nextId' = nextId + 1
    /\ UNCHANGED <<version, attempts, lock, projection, sinkVars, workerVars>>

\* session_scope commits: row and delivery become visible together.
CommitWrite(e) ==
    /\ status[e] = "open"
    /\ status' = [status EXCEPT ![e] = "pending"]
    /\ version' = [version EXCEPT ![outbox[e].agg] = outbox[e].ver]
    /\ UNCHANGED <<nextId, outbox, attempts, lock, projection, sinkVars, workerVars>>

\* session_scope rolls back: nothing is left but the gap in the sequence.
RollbackWrite(e) ==
    /\ status[e] = "open"
    /\ status' = [status EXCEPT ![e] = "none"]
    /\ outbox' = [outbox EXCEPT ![e] = NoRow]
    /\ UNCHANGED <<version, nextId, attempts, lock, projection, sinkVars, workerVars>>

----------------------------------------------------------------------------
(* A worker: drain_once *)

\* Step 1, the lease statement: select and lock rows for this sink.
Lease(w) ==
    /\ pc[w] = "idle"
    /\ batch' = [batch EXCEPT ![w] = Lowest(Leasable(turn[w]), BatchSize)]
    /\ pc' = [pc EXCEPT ![w] = "leasing"]
    /\ UNCHANGED <<canonicalVars, deliveryVars, sinkVars, turn, cur, crashes>>

\* The lease transaction commits: status in_flight, locked_until = now() + ttl.
CommitLease(w) ==
    /\ pc[w] = "leasing"
    /\ status' = [e \in EventIds |-> IF e \in batch[w] THEN "in_flight" ELSE status[e]]
    /\ lock' = [e \in EventIds |-> IF e \in batch[w] THEN "held" ELSE lock[e]]
    /\ pc' = [pc EXCEPT ![w] = "draining"]
    /\ UNCHANGED <<canonicalVars, attempts, projection, sinkVars, turn, batch, cur, crashes>>

\* Step 2: the handler brings the sink to the event's snapshot and returns.
DispatchOk(w, e) ==
    /\ pc[w] = "draining" /\ e \in batch[w]
    /\ Effect(outbox[e]) # "raise"
    /\ point' = [point EXCEPT ![outbox[e].agg] = PointAfter(@, outbox[e])]
    /\ handled' = [handled EXCEPT ![outbox[e].agg] = outbox[e].ver]
    /\ pc' = [pc EXCEPT ![w] = "succeeded"]
    /\ cur' = [cur EXCEPT ![w] = e]
    /\ UNCHANGED <<canonicalVars, deliveryVars, turn, batch, crashes>>

\* The sink's answer is an error status.  QdrantVectorStore.delete swallows
\* UnexpectedResponse, so a refused delete counts as delivered.
DispatchSwallowed(w, e) ==
    /\ pc[w] = "draining" /\ e \in batch[w]
    /\ "rejected" \in SinkErrors
    /\ Effect(outbox[e]) = "delete" /\ SinkOf(outbox[e].agg) = "qdrant"
    /\ handled' = [handled EXCEPT ![outbox[e].agg] = outbox[e].ver]
    /\ pc' = [pc EXCEPT ![w] = "succeeded"]
    /\ cur' = [cur EXCEPT ![w] = e]
    /\ UNCHANGED <<canonicalVars, deliveryVars, point, turn, batch, crashes>>

\* The handler raises before the sink changed: bad snapshot, sink down, or an
\* error status of any call but the swallowed one.
DispatchRaises(w, e) ==
    /\ pc[w] = "draining" /\ e \in batch[w]
    /\ \/ Effect(outbox[e]) = "raise"
       \/ "unreachable" \in SinkErrors /\ Effect(outbox[e]) # "skip"
       \/ "rejected" \in SinkErrors /\ Effect(outbox[e]) = "upsert"
    /\ pc' = [pc EXCEPT ![w] = "failed"]
    /\ cur' = [cur EXCEPT ![w] = e]
    /\ UNCHANGED <<canonicalVars, deliveryVars, sinkVars, turn, batch, crashes>>

\* The sink applied the call and the reply was lost: the handler raises although
\* its effect is there.
DispatchLostReply(w, e) ==
    /\ pc[w] = "draining" /\ e \in batch[w]
    /\ "lost_reply" \in SinkErrors
    /\ Effect(outbox[e]) \in {"upsert", "delete"}
    /\ point' = [point EXCEPT ![outbox[e].agg] = PointAfter(@, outbox[e])]
    /\ handled' = [handled EXCEPT ![outbox[e].agg] = outbox[e].ver]
    /\ pc' = [pc EXCEPT ![w] = "failed"]
    /\ cur' = [cur EXCEPT ![w] = e]
    /\ UNCHANGED <<canonicalVars, deliveryVars, turn, batch, crashes>>

\* Mutant: the worker forgets to let go of the event it marked.
FinishEvent_KeepsCur(w) ==
    /\ batch' = [batch EXCEPT ![w] = @ \ {cur[w]}]
    /\ pc' = [pc EXCEPT ![w] = "draining"]
    /\ UNCHANGED <<turn, cur, crashes>>

FinishEvent(w) ==
    /\ batch' = [batch EXCEPT ![w] = @ \ {cur[w]}]
    /\ cur' = [cur EXCEPT ![w] = 0]
    /\ pc' = [pc EXCEPT ![w] = "draining"]
    /\ UNCHANGED <<turn, crashes>>

\* Mutant: last_event_id = :event_id without GREATEST.
Larger_Latest(i, j) == j

Larger(i, j) == IF i < j THEN j ELSE i

MarkDone(w) ==
    LET e == cur[w]
        s == SinkOf(outbox[e].agg)
    IN  /\ pc[w] = "succeeded"
        /\ status' = [status EXCEPT ![e] = "done"]
        /\ lock' = [lock EXCEPT ![e] = "free"]
        /\ projection' = [projection EXCEPT ![s] =
                            [last |-> Larger(@.last, e), health |-> "healthy"]]
        /\ FinishEvent(w)
        /\ UNCHANGED <<canonicalVars, attempts, sinkVars>>

\* Mutant: the attempt is not counted.
MarkRetry_Uncounted(w) ==
    LET e == cur[w]
    IN  /\ pc[w] = "failed"
        /\ attempts[e] + 1 < MaxAttempts
        /\ status' = [status EXCEPT ![e] = "pending"]
        /\ lock' = [lock EXCEPT ![e] = "held"]
        /\ FinishEvent(w)
        /\ UNCHANGED <<canonicalVars, attempts, projection, sinkVars>>

\* mark_fail below the limit: back to pending, locked until the backoff ends.
MarkRetry(w) ==
    LET e == cur[w]
    IN  /\ pc[w] = "failed"
        /\ attempts[e] + 1 < MaxAttempts
        /\ attempts' = [attempts EXCEPT ![e] = @ + 1]
        /\ status' = [status EXCEPT ![e] = "pending"]
        /\ lock' = [lock EXCEPT ![e] = "held"]
        /\ FinishEvent(w)
        /\ UNCHANGED <<canonicalVars, projection, sinkVars>>

\* mark_fail at the limit: dead-letter the delivery.
MarkDead(w) ==
    LET e == cur[w]
        s == SinkOf(outbox[e].agg)
    IN  /\ pc[w] = "failed"
        /\ attempts[e] + 1 >= MaxAttempts
        /\ attempts' = [attempts EXCEPT ![e] = @ + 1]
        /\ status' = [status EXCEPT ![e] = "dead"]
        /\ lock' = [lock EXCEPT ![e] = "free"]
        /\ projection' = [projection EXCEPT ![s].health = "degraded"]
        /\ FinishEvent(w)
        /\ UNCHANGED <<canonicalVars, sinkVars>>

OtherSink(s) == CHOOSE t \in Sinks : t # s

\* drain_once returns and _run turns to the other sink.
EndDrain(w) ==
    /\ pc[w] = "draining" /\ batch[w] = {}
    /\ pc' = [pc EXCEPT ![w] = "idle"]
    /\ turn' = [turn EXCEPT ![w] = OtherSink(@)]
    /\ UNCHANGED <<canonicalVars, deliveryVars, sinkVars, batch, cur, crashes>>

----------------------------------------------------------------------------
(* The environment of the workers *)

\* The process dies, or an exception in mark_done or mark_fail ends _run.  An
\* open lease transaction is rolled back; committed leases stay as they are.
Crash(w) ==
    /\ pc[w] # "down" /\ crashes < MaxCrashes
    /\ pc' = [pc EXCEPT ![w] = "down"]
    /\ batch' = [batch EXCEPT ![w] = {}]
    /\ cur' = [cur EXCEPT ![w] = 0]
    /\ crashes' = crashes + 1
    /\ UNCHANGED <<canonicalVars, deliveryVars, sinkVars, turn>>

\* A new process, with a new worker_id, starts with the qdrant queue.
Restart(w) ==
    /\ pc[w] = "down"
    /\ pc' = [pc EXCEPT ![w] = "idle"]
    /\ turn' = [turn EXCEPT ![w] = "qdrant"]
    /\ UNCHANGED <<canonicalVars, deliveryVars, sinkVars, batch, cur, crashes>>

\* now() passes locked_until, of a backoff or of a lease.
LockExpires(e) ==
    /\ lock[e] = "held"
    /\ lock' = [lock EXCEPT ![e] = "expired"]
    /\ UNCHANGED <<canonicalVars, status, attempts, projection, sinkVars, workerVars>>

----------------------------------------------------------------------------
Init ==
    /\ version = [a \in Aggregates |-> 0]
    /\ nextId = 1
    /\ outbox = [e \in EventIds |-> NoRow]
    /\ status = [e \in EventIds |-> "none"]
    /\ attempts = [e \in EventIds |-> 0]
    /\ lock = [e \in EventIds |-> "free"]
    /\ projection = [s \in Sinks |-> [last |-> 0, health |-> "unknown"]]
    /\ point = [a \in Aggregates |-> 0]
    /\ handled = [a \in Aggregates |-> 0]
    /\ turn = [w \in Workers |-> "qdrant"]
    /\ pc = [w \in Workers |-> "idle"]
    /\ batch = [w \in Workers |-> {}]
    /\ cur = [w \in Workers |-> 0]
    /\ crashes = 0

Dispatch(w) ==
    \E e \in batch[w] : \/ DispatchOk(w, e)
                        \/ DispatchSwallowed(w, e)
                        \/ DispatchRaises(w, e)
                        \/ DispatchLostReply(w, e)

\* The steps the loop of a live worker takes by itself.
WorkerStep(w) ==
    \/ Lease(w)    \/ CommitLease(w) \/ Dispatch(w)
    \/ MarkDone(w) \/ MarkRetry(w)   \/ MarkDead(w) \/ EndDrain(w)

WriterStep ==
    \/ \E a \in Aggregates : EnqueueEvent(a)
    \/ \E e \in EventIds : CommitWrite(e) \/ RollbackWrite(e)

Next ==
    \/ WriterStep
    \/ \E w \in Workers : WorkerStep(w) \/ Crash(w) \/ Restart(w)
    \/ \E e \in EventIds : LockExpires(e)

Spec == Init /\ [][Next]_vars

(* The loop of a live worker keeps running and the clock keeps moving.      *)
(* Nothing is assumed of the writers, of the sink, or of a restart.         *)
Fairness == /\ \A w \in Workers : WF_vars(WorkerStep(w))
            /\ \A e \in EventIds : WF_vars(LockExpires(e))

FairSpec == Spec /\ Fairness

----------------------------------------------------------------------------
(* Properties *)

(* Every variable has its type; a delivery exists exactly when its outbox   *)
(* row does, under an id handed out; workers hold committed events; and a   *)
(* worker that has dispatched an event still holds it.                      *)
TypeOK ==
    /\ version \in [Aggregates -> Nat]
    /\ nextId \in 1..(MaxEvents + 1)
    /\ outbox \in [EventIds -> Rows \cup {NoRow}]
    /\ status \in [EventIds -> RowStatuses]
    /\ attempts \in [EventIds -> Nat]
    /\ lock \in [EventIds -> {"free", "held", "expired"}]
    /\ projection \in [Sinks -> [last : Nat,
                                 health : {"unknown", "healthy", "degraded"}]]
    /\ point \in [Aggregates -> Nat]
    /\ handled \in [Aggregates -> Nat]
    /\ turn \in [Workers -> Sinks]
    /\ pc \in [Workers -> WorkerStates]
    /\ batch \in [Workers -> SUBSET EventIds]
    /\ cur \in [Workers -> EventIds \cup {0}]
    /\ crashes \in Nat
    /\ \A e \in EventIds : /\ status[e] = "none" <=> outbox[e] = NoRow
                           /\ e >= nextId => status[e] = "none"
    /\ \A w \in Workers : /\ batch[w] \subseteq Committed
                          /\ pc[w] \in {"succeeded", "failed"} <=> cur[w] # 0
                          /\ cur[w] # 0 => cur[w] \in batch[w]

(* The inductive invariant behind the proofs (OutboxProofs).  The rows of   *)
(* an aggregate are its versions, each once, the open one on top.           *)
RowsAreVersions ==
    /\ \A e \in Committed : outbox[e].ver \in 1..version[outbox[e].agg]
    /\ \A e \in EventIds :
          status[e] = "open" => outbox[e].ver = version[outbox[e].agg] + 1
    /\ \A e, f \in EventIds :
          status[e] # "none" /\ status[f] # "none"
              /\ outbox[e].agg = outbox[f].agg /\ outbox[e].ver = outbox[f].ver
          => e = f
    /\ \A a \in Aggregates : \A v \in 1..version[a] :
          \E e \in Committed : outbox[e].agg = a /\ outbox[e].ver = v

Tried(e) == \/ status[e] \in {"in_flight", "done", "dead"}
            \/ attempts[e] > 0
            \/ \E w \in Workers : e \in batch[w]

(* Whatever was ever leased had all its predecessors done, and a lease      *)
(* belongs to one worker.                                                   *)
LeasesAreOrdered ==
    /\ \A e \in Committed : Tried(e) => ~Blocked(e)
    /\ \A e \in EventIds \ Committed : attempts[e] = 0
    /\ \A w \in Workers : \A e \in batch[w] :
          status[e] = (IF pc[w] = "leasing" THEN "pending" ELSE "in_flight")
    /\ \A w \in Workers : pc[w] \in {"idle", "down"} => batch[w] = {}
    /\ \A v, w \in Workers : v # w => batch[v] \cap batch[w] = {}

(* A sink shows the last done version, or the one after it.                 *)
SinkIsAtFrontier ==
    /\ \A e \in Committed :
          /\ outbox[e].ver < handled[outbox[e].agg] => status[e] = "done"
          /\ status[e] = "done" => outbox[e].ver <= handled[outbox[e].agg]
    /\ \A w \in Workers : pc[w] = "succeeded" =>
          outbox[cur[w]].ver <= handled[outbox[cur[w]].agg]
    /\ \A a \in Aggregates : handled[a] <= version[a]

IInv == TypeOK /\ RowsAreVersions /\ LeasesAreOrdered /\ SinkIsAtFrontier

(* What a sink must hold for a snapshot that is the last word on its        *)
(* aggregate: that version, or nothing if it is hidden or has no text.      *)
Wanted(r) == IF r.op = "tombstone" \/ r.body = "empty" THEN 0 ELSE r.ver

(* Rows are of a kind some writer enqueues, and the sink holds what the     *)
(* version it was brought to asks for; if no refused delete is swallowed.   *)
PointIsLastHandled ==
    /\ \A e \in EventIds : status[e] # "none" =>
          outbox[e].op \in OpsOf(outbox[e].agg) /\ outbox[e].body \in BodiesOf(outbox[e].agg)
    /\ \A e \in Committed : outbox[e].ver = handled[outbox[e].agg] =>
          point[outbox[e].agg] = Wanted(outbox[e])

(* At most one worker is at work on an aggregate, and on one event of it:   *)
(* the leases that FOR UPDATE SKIP LOCKED and the NOT EXISTS clause hand    *)
(* out never overlap, even between the select and the commit of a lease.    *)
OneHolderPerAggregate ==
    \A v, w \in Workers : \A e \in batch[v], f \in batch[w] :
        outbox[e].agg = outbox[f].agg => v = w /\ e = f

(* Once everything committed for an aggregate is marked done, the sink      *)
(* holds what the last snapshot of it asks for.                             *)
Converged ==
    \A a \in Aggregates :
        (\A e \in Committed : outbox[e].agg = a => status[e] = "done")
            => \A e \in Committed :
                  outbox[e].agg = a /\ outbox[e].ver = version[a]
                     => point[a] = Wanted(outbox[e])

(* projection_state's last_event_id is the newest done event of its sink,   *)
(* in whatever order workers finish.                                        *)
WatermarkIsNewestDone ==
    \A s \in Sinks :
        LET delivered == {e \in Committed : status[e] = "done"
                                              /\ SinkOf(outbox[e].agg) = s}
        IN  /\ \A e \in delivered : e <= projection[s].last
            /\ projection[s].last # 0 => projection[s].last \in delivered

(* A dead delivery freezes its aggregate: no later version has been tried,  *)
(* and the sink never went past the dead version.                           *)
DeadFreezesAggregate ==
    \A e, f \in Committed :
        status[e] = "dead" /\ outbox[f].agg = outbox[e].agg
            /\ outbox[f].ver > outbox[e].ver
        => /\ status[f] = "pending" /\ attempts[f] = 0
           /\ handled[outbox[e].agg] <= outbox[e].ver

(* mark_done and mark_fail update by (event_id, sink) whatever the row's    *)
(* status: what is done or dead must still never change again.              *)
KeepsOutcomes ==
    \A e \in EventIds : status[e] \in {"done", "dead"} => status'[e] = status[e]
OutcomeIsFinal == [][KeepsOutcomes]_vars

(* Each sink moves through each aggregate's versions one by one: what the   *)
(* outbox promises, OrderedDelivery, is what the workers do.                *)
Ordered == INSTANCE OrderedDelivery WITH latest <- version, shown <- handled
DeliversInOrder == Ordered!Spec

Stuck(e) == \E p \in Committed : /\ outbox[p].agg = outbox[e].agg
                                 /\ outbox[p].ver < outbox[e].ver
                                 /\ status[p] = "dead"

(* Without crashes every committed delivery ends: done, dead-lettered, or   *)
(* waiting behind a dead one of its aggregate, whatever the sinks do.       *)
EveryDeliverySettles ==
    \A e \in EventIds :
        status[e] = "pending" ~> status[e] \in {"done", "dead"} \/ Stuck(e)

(* lease_batch's promise about a crashed worker's rows: once locked_until   *)
(* has passed they do not stay in_flight.                                   *)
ExpiredLeaseIsReclaimed ==
    \A e \in EventIds :
        status[e] = "in_flight" /\ lock[e] = "expired" ~> status[e] # "in_flight"
=============================================================================
