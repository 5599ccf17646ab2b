------------------------------ MODULE MCProgress ------------------------------
(* Services whose calls wait for each other and passes that must converge,    *)
(* side by side. They share no state of the model, so one run explores them   *)
(* one at a time: part is chosen at the start and never changes, only that    *)
(* service moves, and the others stay where they begin. Each has its module's *)
(* own initial states, steps and fairness.                                    *)
EXTENDS Tasks, Relations, Compose, Popularity, Authority, Salience, Traversal

VARIABLE part
progressVars == <<part, taskVars, relVars, compVars, popVars, authVars, salVars, walkVars>>

Services == {"tasks", "relations", "compose", "counters", "authority", "salience", "walks"}

ProgressInit ==
    /\ part \in Services
    /\ TasksInit /\ RelInit /\ CompInit /\ PopInit /\ AuthInit /\ SalInit /\ WalkInit
    \* where one begins is open only where it is the one that moves
    /\ part # "authority" =>
          \A m \in RankedRows : standingRow[m].base = CHOOSE b \in BaseScores : TRUE
    /\ part # "salience" =>
          \A m \in ReadMemories : scored_rows[m].access = 0 /\ scored_rows[m].negative = 0

(* What only one service does: the others stay as they are.                   *)
OnlyTasks ==
    /\ part = "tasks"
    /\ UNCHANGED <<part, relVars, compVars, popVars, authVars, salVars, walkVars>>
OnlyRelations ==
    /\ part = "relations"
    /\ UNCHANGED <<part, taskVars, compVars, popVars, authVars, salVars, walkVars>>
OnlyCompositions ==
    /\ part = "compose"
    /\ UNCHANGED <<part, taskVars, relVars, popVars, authVars, salVars, walkVars>>
OnlyCounters ==
    /\ part = "counters"
    /\ UNCHANGED <<part, taskVars, relVars, compVars, authVars, salVars, walkVars>>
OnlyAuthority ==
    /\ part = "authority"
    /\ UNCHANGED <<part, taskVars, relVars, compVars, popVars, salVars, walkVars>>
OnlySalience ==
    /\ part = "salience"
    /\ UNCHANGED <<part, taskVars, relVars, compVars, popVars, authVars, walkVars>>
OnlyWalks ==
    /\ part = "walks"
    /\ UNCHANGED <<part, taskVars, relVars, compVars, popVars, authVars, salVars>>

ProgressNext ==
    \/ OnlyTasks /\ TasksNext
    \/ OnlyRelations /\ RelNext
    \/ OnlyCompositions /\ CompNext
    \/ OnlyCounters /\ PopNext
    \/ OnlyAuthority /\ AuthNext
    \/ OnlySalience /\ SalNext
    \/ OnlyWalks /\ WalkNext

(* The fairness of the modules. As only one service ever moves, those who     *)
(* call it share one formula for its steps: caller c of tasks, of relations,  *)
(* of compositions and of reads, and the pass or walk that runs alone.        *)
MovesOn(c) == \/ OnlyTasks /\ Proceed(c)
              \/ OnlyRelations /\ LinkProceeds(c)
GetsItsTurn(c) == \/ OnlyTasks /\ AcquireDepLock(c)
                  \/ OnlyCompositions /\ Composes(c)
                  \/ OnlySalience /\ ReadSteps(c)
RunsAlone == \/ OnlyCounters /\ Recounts
             \/ OnlyAuthority /\ AuthorityPass
             \/ OnlyWalks /\ WalkSteps
ProgressFairness ==
    /\ \A c \in Callers : WF_progressVars(MovesOn(c)) /\ SF_progressVars(GetsItsTurn(c))
    /\ WF_progressVars(RunsAlone)
ProgressSpec == ProgressInit /\ [][ProgressNext]_progressVars /\ ProgressFairness

\* One set of callers for all of them, which ProgressFairness relies on.
ASSUME SameCallers == Callers = Linkers /\ Callers = Composers /\ Callers = BumpReaders

-------------------------------------------------------------------------------
(* The constants of the run *)

TaskPriority == [t \in TaskIds |-> IF t = 2 THEN 10 ELSE 50]
StatusesAsked == {<<1, "in_progress">>, <<1, "cancelled">>}

AllLinks == {<<"m", "n">>, <<"n", "m">>, <<"t", "m">>}

ComposeRequests == {[op |-> "merge", srcs |-> {1, 2}], [op |-> "promote", srcs |-> {1, 2}],
                    [op |-> "split", srcs |-> {2}], [op |-> "derive", srcs |-> {3}]}

CitesAs(t, s, d) == [type |-> t, src |-> s, dst |-> d]
AllCitations == {CitesAs("cites", "a", "b"), CitesAs("about", "a", "b"),
                 CitesAs("lineage", "a", "b"), CitesAs("cites", "t", "b"),
                 CitesAs("related_to_popular", "b", "a")}
AllMacros == {<<"a", "b">>}

QuotedFirst == {<<1, 2, "rel_link">>, <<2, 1, "rel_link">>, <<3, 1, "lineage">>,
                <<3, 3, "rel_link">>}
QuotedLater == {<<2, 3, "playbook">>}
OneHalf == <<1, 2>>

ReadTogether == {<<1>>, <<1, 2>>, <<2, 1>>}
KindWeights == [k \in CiteKinds |-> IF k = "lineage" THEN 15 ELSE 20]
KindWindows == [k \in CiteKinds |-> IF k = "lineage" THEN 1 ELSE 2]
\* ln(1 + n) in ten-thousandths
Logs == [n \in 0..6 |-> CASE n = 0 -> 0     [] n = 1 -> 6931  [] n = 2 -> 10986
                          [] n = 3 -> 13863 [] n = 4 -> 16094 [] n = 5 -> 17918
                          [] n = 6 -> 19459]

LinkFrom(a, b, t) == [src |-> a, dst |-> b, type |-> t]
WalkedLinks == {LinkFrom(1, 3, "k"), LinkFrom(3, 4, "k"), LinkFrom(4, 2, "j"),
                LinkFrom(3, 2, "k"), LinkFrom(5, 3, "j"), LinkFrom(3, 1, "k")}
WalkFor(h, types, kind, dir, limit, fallback) ==
    [hops |-> h, types |-> types, kind |-> kind, dir |-> dir, limit |-> limit,
     fallback |-> fallback]
WalksAsked == {WalkFor(1, {"k"}, "both", "both", 2, TRUE),
               WalkFor(2, {"k", "j"}, "both", "both", 2, FALSE),
               WalkFor(2, {"k", "j"}, "entity", "out", 1, FALSE),
               WalkFor(2, {"k"}, "memory", "both", 1, TRUE)}

-------------------------------------------------------------------------------
(* Properties of one service each, joined where a reader asks one question    *)

(* Whatever made the counters drift (stale citers, cascades, supersede        *)
(* chains, a pass that overwrote a concurrent link), once callers pause the   *)
(* pass brings them to the canonical values. Memories that cite each other do *)
(* not drive each other's authority around for ever: it comes to rest within  *)
(* one unit of the sums of the citers' saliences. A change of the formula     *)
(* reaches every active memory, a few per pass and though a pass gives a row  *)
(* up that changed under it (dream/passes/recount.py). And negatives outweigh *)
(* whatever else a score counts (dream/salience.py).                          *)
ScoresSettle ==
    /\ []NegativesDominate
    /\ <>[]((part = "counters" => Exact)
            /\ (part = "authority" => AuthorityAtRest /\ AllStamped))

(* Every call returns: of tasks, also those that wait for the lock of the     *)
(* dependencies; of relations, also when two wait for each other's nodes; of  *)
(* compositions, which lock in one order; reads that count accesses, also     *)
(* when they wait for each other's rows; and walks over a growing graph. The  *)
(* callers are interchangeable in every module, so one stands for all.        *)
Busy(c) == \/ call[c].at # "idle" \/ link[c].at # "idle" \/ composer[c].at # "idle"
           \/ bump[c].at = "read" \/ Walking
EveryCallReturns == LET c == CHOOSE c \in Callers : TRUE IN Busy(c) ~> ~Busy(c)
===============================================================================
