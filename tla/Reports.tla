------------------------------ MODULE Reports ------------------------------
(***************************************************************************)
(* The two reports that walk a graph under a limit and say whether they    *)
(* were cut short: mem_lineage (memory_mcp/provenance.py), a recursive     *)
(* query up and one down from a memory, and task_tree (tasks/api.py), a    *)
(* depth-first walk along depends_on with one query per task.  Links are   *)
(* added while a report is being made.                                     *)
(***************************************************************************)
EXTENDS Integers, Sequences, SequencesExt, FiniteSetsExt

CONSTANTS
    Readers,    \* clients asking for reports
    Points,     \* memories or tasks, numbered by priority
    Arcs,       \* the links that may exist: <<from, to>> pairs
    Depths, Limits,    \* max_depth, and max_edges or max_nodes, asked
    MaxNewArcs  \* bound on the links added to the first graph

ASSUME ReportsAssumption ==
    /\ Points \subseteq Nat /\ IsFiniteSet(Points) /\ Arcs \subseteq Points \X Points
    /\ Depths \subseteq Nat /\ Limits \subseteq Nat \ {0} /\ MaxNewArcs \in Nat

VARIABLES
    arcs,       \* the links: parent to child, or task to dependency
    report,     \* the calls
    grown       \* links added

reportVars == <<arcs, report, grown>>

ReportsInit ==
    /\ arcs \in SUBSET Arcs
    /\ report = [r \in Readers |-> [pc |-> "idle"]]
    /\ grown = 0

AddArc ==
    /\ grown < MaxNewArcs /\ grown' = grown + 1
    /\ \E r \in Readers : report[r].pc \notin {"idle", "done"}
    /\ \E a \in Arcs \ arcs : arcs' = arcs \cup {a}
    /\ UNCHANGED report

-----------------------------------------------------------------------------
(* mem_lineage                                                             *)

\* The far end of an arc, walking from children to parents (up) or back.
Near(up, a) == IF up THEN a[2] ELSE a[1]
FarEnd(up, a) == IF up THEN a[1] ELSE a[2]

\* The recursive query's rows: the walks of at most d + 1 arcs that CYCLE has
\* not stopped, one row for each walk, whose last arc it reports.
Onward(up, w) ==
    {Append(w, a) : a \in {b \in arcs : /\ Near(up, b) = FarEnd(up, Last(w))
                                       /\ \A i \in DOMAIN w : Near(up, w[i]) # Near(up, b)}}
WalksFrom(up, seed, d) ==
    LET walks[k \in 0 .. d] ==
            IF k = 0 THEN {<<a>> : a \in {b \in arcs : Near(up, b) = seed}}
            ELSE UNION {Onward(up, w) : w \in walks[k - 1]}
    IN  walks
Walks(up, seed, d) ==
    LET walks == WalksFrom(up, seed, d) IN UNION {walks[k] : k \in 0 .. d}

\* _apply_lineage_edge_cap: the shallowest rows of both directions survive.
CutAt(rows, cap) ==
    IF Cardinality(rows) <= cap THEN {rows}
    ELSE {kept \in kSubset(cap, rows) :
            \A w \in rows \ kept, k \in kept : Len(k[2]) <= Len(w[2])}

AskLineage(r) ==
    /\ report[r].pc = "idle"
    /\ \E s \in Points, d \in Depths \ {0}, c \in Limits :
         report' = [report EXCEPT ![r] =
           [pc |-> "ancestors", seed |-> s, depth |-> d, cap |-> c, rows |-> {},
            lines |-> <<>>, stack |-> <<>>, cut |-> FALSE, first |-> arcs]]
    /\ UNCHANGED <<arcs, grown>>

\* One transaction for each direction; rows deeper than asked only set the
\* truncated flag.
Deeper(w, all) == \E x \in all : Len(x) > w.depth

WalkLineage(r) ==
    LET w  == report[r]
        up == w.pc = "ancestors"
        all == Walks(up, w.seed, w.depth) IN
    /\ w.pc \in {"ancestors", "descendants"}
    /\ report' = [report EXCEPT
         ![r].rows = @ \cup {<<up, x>> : x \in {y \in all : Len(y) <= w.depth}},
         ![r].cut = @ \/ Deeper(w, all),
         ![r].pc = IF up THEN "descendants" ELSE "cap"]
    /\ UNCHANGED <<arcs, grown>>

ReplyLineage(r) ==
    LET w == report[r] IN
    /\ w.pc = "cap"
    /\ \E kept \in CutAt(w.rows, w.cap) :
         report' = [report EXCEPT ![r].rows = kept, ![r].pc = "done",
                                  ![r].cut = @ \/ kept # w.rows]
    /\ UNCHANGED <<arcs, grown>>

-----------------------------------------------------------------------------
(* task_tree                                                               *)

AskTree(r) ==
    /\ report[r].pc = "idle"
    /\ \E s \in Points, d \in Depths, c \in Limits :
         report' = [report EXCEPT ![r] =
           [pc |-> "tree", seed |-> s, depth |-> d, cap |-> c, rows |-> {},
            lines |-> <<>>, stack |-> <<{s}>>, cut |-> FALSE,
            first |-> arcs]]
    /\ UNCHANGED <<arcs, grown>>

\* _task_tree_children: the dependencies not seen yet.
Children(p, seen) == {a[2] : a \in {b \in arcs : b[1] = p}} \ seen

\* A list of siblings is walked by priority; the depth is the lists around it.
Depth(w) == Len(w.stack) - 1
IsNext(p, todo) == p \in todo /\ \A q \in todo : p <= q

\* Out of depth with tasks below, the whole walk stops.
StopsTree(w, below) == Depth(w) >= w.depth /\ below # {}

TopWithout(stack, p) == [stack EXCEPT ![Len(stack)] = @ \ {p}]

\* The next task of the innermost list: out of lines, the whole walk stops;
\* seen meanwhile, it is skipped; otherwise it gets a line and a list of its own.
Visited(w, p) ==
    LET rest == TopWithout(w.stack, p)
        below == Children(p, ToSet(w.lines) \cup {p})
    IN  IF Len(w.lines) >= w.cap THEN [w EXCEPT !.cut = TRUE, !.pc = "done"]
        ELSE IF p \in ToSet(w.lines) THEN [w EXCEPT !.stack = rest]
        ELSE IF StopsTree(w, below)
        THEN [w EXCEPT !.lines = Append(@, p), !.cut = TRUE, !.pc = "done"]
        ELSE [w EXCEPT !.lines = Append(@, p),
                       !.stack = IF Depth(w) >= w.depth THEN rest ELSE Append(rest, below)]

VisitTask(r) ==
    /\ report[r].pc = "tree"
    /\ \E p \in Last(report[r].stack) :
          /\ IsNext(p, Last(report[r].stack))
          /\ report' = [report EXCEPT ![r] = Visited(@, p)]
    /\ UNCHANGED <<arcs, grown>>

\* The end of a list; the walk ends with the root's.
FinishList(r) ==
    /\ report[r].pc = "tree" /\ Last(report[r].stack) = {}
    /\ report' = [report EXCEPT ![r].stack = Front(@),
                   ![r].pc = IF Len(report[r].stack) = 1 THEN "done" ELSE @]
    /\ UNCHANGED <<arcs, grown>>

ReportsNext ==
    \/ AddArc
    \/ \E r \in Readers : \/ AskLineage(r) \/ WalkLineage(r) \/ ReplyLineage(r)
                          \/ AskTree(r) \/ VisitTask(r) \/ FinishList(r)

ReportsSpec == ReportsInit /\ [][ReportsNext]_reportVars

-----------------------------------------------------------------------------
(* Properties                                                              *)

\* The points reachable from p in at most so many steps as there are points.
Reach(up, p, es) ==
    LET reach[n \in 0 .. Cardinality(Points)] ==
            IF n = 0 THEN {p}
            ELSE reach[n - 1] \cup
                 {FarEnd(up, a) : a \in {b \in es : Near(up, b) \in reach[n - 1]}}
    IN  reach
ReachOf(up, p, es) == Reach(up, p, es)[Cardinality(Points)]

\* Of the graph the call began with: every link of the seed's lineage, and every
\* task below the root.
HoldsLineage(w, up) ==
    {a \in w.first : Near(up, a) \in ReachOf(up, w.seed, w.first)}
        \subseteq {Last(x[2]) : x \in {y \in w.rows : y[1] = up}}
HoldsTree(w) == ReachOf(FALSE, w.seed, w.first) \subseteq ToSet(w.lines)

\* A report that is not marked as truncated is complete, whatever cycles and
\* shared branches the walk met; and a task tree lists no task twice.
UntruncatedReportsAreComplete ==
    \A r \in Readers : report[r].pc = "done" =>
        /\ IsInjective(report[r].lines)
        /\ ~report[r].cut => IF report[r].lines = <<>>
                             THEN \A up \in BOOLEAN : HoldsLineage(report[r], up)
                             ELSE HoldsTree(report[r])
=============================================================================
