----------------------------- MODULE FreshRead -----------------------------
(***************************************************************************)
(* Reads with consistency="fresh" beside the projection workers            *)
(* (search/api.py memory_search, graph.py entity_neighbors): the reader    *)
(* notes the env's newest outbox event, polls projection_state until every *)
(* sink it needs has a watermark that high, or gives up at its deadline.   *)
(* One reader makes one read; all rows belong to one env.                  *)
(***************************************************************************)
EXTENDS Outbox

CONSTANT Modes      \* what the reader may ask for, a subset of ReadModes

ReadModes == {"hybrid", "sem", "graph", "neighbors"}

ASSUME ModesAssumption == Modes \subseteq ReadModes

VARIABLE read   \* the read: its state, mode, target event and, to compare,
                \* the versions that were committed when it began

readVars == <<vars, read>>

\* fresh_sinks of memory_search; entity_neighbors waits for neo4j.
SinksFor(mode) == CASE mode = "hybrid" -> Sinks
                    [] mode = "sem"    -> {"qdrant"}
                    [] OTHER           -> {"neo4j"}

NoRead == [state |-> "idle", mode |-> "none", target |-> 0,
           start |-> [a \in Aggregates |-> 0]]

\* Mutant: the oldest event instead of the newest.
Watermark_Oldest == IF Committed = {} THEN 0
                    ELSE CHOOSE m \in Committed : \A e \in Committed : m <= e

\* _capture_watermarks: max(event_id) of the env, whatever its sink.
Watermark == IF Committed = {} THEN 0
             ELSE CHOOSE m \in Committed : \A e \in Committed : e <= m

\* Mutant: the watermark has to be past the target.
CaughtUp_Past == \/ read.target = 0
                 \/ \A s \in SinksFor(read.mode) : projection[s].last > read.target

\* One poll of _wait_for_watermarks finds every needed sink at the target.
CaughtUp == \/ read.target = 0
            \/ \A s \in SinksFor(read.mode) : projection[s].last >= read.target

BeginRead(mode) ==
    /\ read.state = "idle"
    /\ read' = [state |-> "waiting", mode |-> mode, target |-> Watermark,
                start |-> version]
    /\ UNCHANGED vars

PollCaughtUp ==
    /\ read.state = "waiting" /\ CaughtUp
    /\ read' = [read EXCEPT !.state = "fresh"]
    /\ UNCHANGED vars

\* The deadline has passed at a poll that fails: memory_search degrades to
\* canonical, and entity_neighbors serves the graph as it is.
GiveUp ==
    /\ read.state = "waiting" /\ ~CaughtUp
    /\ read' = [read EXCEPT !.state =
                   IF read.mode = "neighbors" THEN "as_is" ELSE "canonical"]
    /\ UNCHANGED vars

FreshInit == Init /\ read = NoRead

FreshNext ==
    \/ Next /\ UNCHANGED read
    \/ \E mode \in Modes : BeginRead(mode)
    \/ PollCaughtUp
    \/ GiveUp

FreshSpec == FreshInit /\ [][FreshNext]_readVars

(* The workers are as fair as in Outbox; nothing is assumed of the reader.  *)
FairFreshSpec == FreshSpec /\ Fairness

----------------------------------------------------------------------------
(* "Truthful": a read answered as fresh shows, in every sink it reads and   *)
(* of every aggregate, the version that was committed when the read began,  *)
(* or a later one.                                                          *)
FreshIsTruthful ==
    read.state = "fresh" =>
        \A a \in Aggregates : SinkOf(a) \in SinksFor(read.mode)
                                 => handled[a] >= read.start[a]

\* The delivery of a that the read should have seen is not done, and an event
\* of another aggregate overtook it in the same sink, at or after the target.
Overtaken(a) ==
    \E e, f \in Committed :
        /\ outbox[e].agg = a /\ outbox[e].ver = read.start[a] /\ status[e] # "done"
        /\ outbox[f].agg # a /\ SinkOf(outbox[f].agg) = SinkOf(a) /\ status[f] = "done"
        /\ e < f /\ read.target <= f

(* What the watermark does promise a fresh read of any number of            *)
(* aggregates: it lacks a version only where the delivery of that version,  *)
(* waiting, failed or leased, was overtaken by another aggregate's. So it   *)
(* shows everything once what was committed by then has been delivered, and *)
(* never lacks a write because an older one of the same aggregate was done, *)
(* whatever ids open transactions hold while it begins.                     *)
FreshMissesOnlyOvertaken ==
    read.state = "fresh" =>
        \A a \in Aggregates :
            SinkOf(a) \in SinksFor(read.mode) /\ handled[a] < read.start[a] => Overtaken(a)

(* A read degrades only where some sink it waits for has delivered nothing  *)
(* of the newest event's age or younger; so over an unfinished delivery, if *)
(* the newest event is that sink's. (If it is another sink's, the sink may  *)
(* owe nothing, and the read waits out its deadline all the same.)          *)
DegradesOnlyWhenBehind ==
    [][read.state = "waiting" /\ read'.state = "canonical" =>
         \E s \in SinksFor(read.mode) : \A f \in Committed :
             SinkOf(outbox[f].agg) = s /\ read.target <= f => status[f] # "done"]_readVars
============================================================================
