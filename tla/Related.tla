------------------------------ MODULE Related ------------------------------
(***************************************************************************)
(* memory_related with relation = semantic (graph.py): the neighbours of a *)
(* memory by its stored vector. The seed is its own nearest point, the     *)
(* store filters by the status its points carry, the rows by the status    *)
(* they have, and an empty answer may be tried again with retired          *)
(* memories. Every step is a transaction or a call to the store of its own.*)
(* (shared_entity, the other relation, is in Listing.)                     *)
(***************************************************************************)
EXTENDS Integers, FiniteSets, FiniteSetsExt

CONSTANTS
    Kin,        \* memories
    Nearness,   \* Nearness[m][x]: similarity of their vectors, all different
    Askers,     \* concurrent calls
    Asks,       \* bound: requests [seed, limit, floor, fallback]
    MaxStirs    \* bound: changes of memories

ASSUME KinAssumption == IsFiniteSet(Kin) /\ Nearness \in [Kin -> [Kin -> Int]]
ASSUME AsksAssumption ==
    Asks \subseteq [seed : Kin, limit : 1..500, floor : Int, fallback : BOOLEAN]

VARIABLES
    kinRow,     \* kinRow[m]: "active", "retired" or "gone"
    kinPoint,   \* has m's point been left in (or put into) the store?
    asking,     \* asking[c]: the call
    stirs       \* changes so far

relatedVars == <<kinRow, kinPoint, asking, stirs>>

NoAsk == [at |-> "idle"]
Seen(m) == kinRow[m] = "active"

Foremost(n, S, seed) ==
    {m \in S : Cardinality({x \in S : Nearness[seed][x] > Nearness[seed][m]}) < n}

----------------------------------------------------------------------------
(* The call *)

\* _resolve_seed_memory: NotFoundError for a memory that is not there.
AskRelated(c, q) ==
    /\ asking[c].at \in {"idle", "answered"} /\ kinRow[q.seed] # "gone"
    /\ asking' = [asking EXCEPT ![c] =
          [at |-> "vector", q |-> q, retired |-> FALSE, page |-> {}, hits |-> {},
           \* history: nothing changes, lags or fails during the call
           calm |-> \A m \in Kin : kinPoint[m] <=> Seen(m)]]
    /\ UNCHANGED <<kinRow, kinPoint, stirs>>

\* The end of a pass: an empty one is followed by one with retired memories
\* (widen_hops and drop_predicate find nothing to widen or drop).
PassEnds(call, hits) ==
    IF hits = {} /\ call.q.fallback /\ ~call.retired
    THEN [call EXCEPT !.at = "vector", !.retired = TRUE]
    ELSE [call EXCEPT !.at = "answered", !.hits = hits]

\* The store is away: a note, and no hits.
StoreAway(c) ==
    /\ asking[c].at \in {"vector", "search"}
    /\ asking' = [asking EXCEPT ![c] = PassEnds([@ EXCEPT !.calm = FALSE], {})]
    /\ UNCHANGED <<kinRow, kinPoint, stirs>>

\* get_vector: no_embedding without a point.
FetchVector(c) ==
    /\ asking[c].at = "vector"
    /\ asking' = [asking EXCEPT ![c] =
          IF kinPoint[@.q.seed] THEN [@ EXCEPT !.at = "search"] ELSE PassEnds(@, {})]
    /\ UNCHANGED <<kinRow, kinPoint, stirs>>

\* The seed comes back with its neighbours.
PointsAskedFor(q) == q.limit + 1

\* search: a point that is there says that its memory is visible.
SearchNearest(c) ==
    /\ asking[c].at = "search"
    /\ LET q == asking[c].q
           raw == Foremost(PointsAskedFor(q), {m \in Kin : kinPoint[m]}, q.seed)
       IN  asking' = [asking EXCEPT ![c].at = "hydrate",
                         ![c].page = Foremost(q.limit, raw \ {q.seed}, q.seed)]
    /\ UNCHANGED <<kinRow, kinPoint, stirs>>

\* _hydrate_memory_responses: the rows that are there and visible by now.
Hydrated(c) ==
    {m \in asking[c].page : Seen(m) \/ (asking[c].retired /\ kinRow[m] = "retired")}

\* min_score comes after the page was cut.
HydrateRelated(c) ==
    /\ asking[c].at = "hydrate"
    /\ asking' = [asking EXCEPT ![c] =
          PassEnds(@, {m \in Hydrated(c) : Nearness[@.q.seed][m] >= @.q.floor})]
    /\ UNCHANGED <<kinRow, kinPoint, stirs>>

----------------------------------------------------------------------------
(* Others *)

\* Answers are over once the memories change.
Forgotten == [c \in Askers |->
    IF asking[c].at \in {"idle", "answered"} THEN NoAsk ELSE [asking[c] EXCEPT !.calm = FALSE]]

StirRow(m) ==
    /\ stirs < MaxStirs /\ stirs' = stirs + 1
    /\ \E to \in {"active", "retired", "gone"} :
          /\ kinRow[m] # to /\ kinRow[m] # "gone"
          /\ kinRow' = [kinRow EXCEPT ![m] = to]
    /\ asking' = Forgotten
    /\ UNCHANGED kinPoint

\* The projection of a change: a tombstone takes the point away.
ProjectPoint(m) ==
    /\ kinPoint[m] # Seen(m)
    /\ kinPoint' = [kinPoint EXCEPT ![m] = Seen(m)]
    /\ asking' = Forgotten
    /\ UNCHANGED <<kinRow, stirs>>

----------------------------------------------------------------------------
RelatedInit ==
    /\ kinRow = [m \in Kin |-> "active"]
    /\ kinPoint = [m \in Kin |-> TRUE]
    /\ asking = [c \in Askers |-> NoAsk]
    /\ stirs = 0

RelatedNext ==
    \/ \E c \in Askers :
          \/ \E q \in Asks : AskRelated(c, q)
          \/ StoreAway(c) \/ FetchVector(c) \/ SearchNearest(c) \/ HydrateRelated(c)
    \/ \E m \in Kin : StirRow(m) \/ ProjectPoint(m)

RelatedSpec == RelatedInit /\ [][RelatedNext]_relatedVars

----------------------------------------------------------------------------
(* Properties *)

(* With the projection up to date and the store answering, the neighbours   *)
(* are the nearest visible memories, as many as asked for, without the seed *)
(* and none below the floor.                                                *)
NeighboursAreNearest ==
    \A c \in Askers :
        (asking[c].at = "answered" /\ asking[c].calm /\ Seen(asking[c].q.seed)) =>
            LET q == asking[c].q
            IN  asking[c].hits =
                   {m \in Foremost(q.limit, {x \in Kin \ {q.seed} : Seen(x)}, q.seed) :
                        Nearness[q.seed][m] >= q.floor}
=============================================================================
