----------------------------- MODULE Traversal -----------------------------
(***************************************************************************)
(* Graph traversal: ent_neighbors and mem_neighbors (graph.py) over the    *)
(* two stores behind them, a recursive query in Postgres                   *)
(* (db/graph/postgres.py) and a variable-length pattern in Neo4j           *)
(* (db/graph/neo4j.py).                                                    *)
(*                                                                         *)
(* A store returns one hit per path and a page at a time; canonical rows   *)
(* are read afterwards, in another transaction, to drop what is hidden.  A *)
(* caller repeats its call with next_cursor until there is none, while     *)
(* others link nodes and retire memories.                                  *)
(***************************************************************************)
EXTENDS Naturals, Sequences, FiniteSets, SequencesExt

CONSTANTS
    EntityNodes, MemoryNodes, TaskNodes,    \* numbers, in the order of the kinds
    WalkOrigin,     \* where the walk starts
    LinkChoices,    \* relations [src, dst, type] that callers may add
    Stores,         \* graph_backend: "postgres", "neo4j"
    WalkRequests,   \* requests [hops, types, kind, dir, limit, fallback]
    MaxHops,        \* the schema's bound of hops
    MaxWalkChanges  \* bound: changes by others

VARIABLES
    walkLinks,  \* relations, projected to either store
    hidden,     \* memories archived, superseded or retired
    walk,       \* the caller's request, where it is, and what it was given
    walkTurns,  \* changes so far
    still       \* nothing changed since the request began

walkVars == <<walkLinks, hidden, walk, walkTurns, still>>

Vertices == EntityNodes \cup MemoryNodes \cup TaskNodes
AllTypes == {e.type : e \in LinkChoices}
NoWalk == [at |-> "idle"]

ASSUME OriginIsNode == WalkOrigin \in EntityNodes \cup MemoryNodes
ASSUME WalkBounds == MaxHops \in Nat /\ MaxWalkChanges \in Nat
ASSUME StoresKnown == Stores \subseteq {"postgres", "neo4j"}
\* A graph node is an entity, a memory or a task.
ASSUME NodeKinds ==
    /\ Vertices \subseteq Nat
    /\ EntityNodes \cap MemoryNodes = {} /\ TaskNodes \cap (EntityNodes \cup MemoryNodes) = {}
ASSUME LinksJoinNodes == \A e \in LinkChoices : e.src \in Vertices /\ e.dst \in Vertices
\* What the schema admits.
ASSUME RequestsAdmitted ==
    WalkRequests \subseteq [hops : 1..MaxHops, types : SUBSET AllTypes,
                           kind : {"entity", "memory", "both"}, dir : {"out", "in", "both"},
                           limit : Nat \ {0}, fallback : BOOLEAN]

----------------------------------------------------------------------------
(* Stores *)

\* Where an edge leads from v.
Far(e, v) == IF e.src = v THEN e.dst ELSE e.src
Leaves(e, v, dir) == \/ dir \in {"out", "both"} /\ e.src = v
                     \/ dir \in {"in", "both"} /\ e.dst = v

\* Postgres visits a node once in a path, Neo4j takes a relation once.
Extends(store, p, e) ==
    IF store = "postgres" THEN Far(e, Last(p.nodes)) \notin ToSet(p.nodes)
                          ELSE e \notin ToSet(p.edges)

StartPath == [nodes |-> <<WalkOrigin>>, edges |-> << >>, tie |-> 0]
Along(p, e) == [nodes |-> Append(p.nodes, Far(e, Last(p.nodes))),
                edges |-> Append(p.edges, e), tie |-> 100 * p.tie + 10 * e.src + e.dst]
Longer(store, dir, p) ==
    {Along(p, e) : e \in {x \in walkLinks : Leaves(x, Last(p.nodes), dir) /\ Extends(store, p, x)}}
OfLength(store, dir) ==
    LET paths[k \in 0..MaxHops] ==
            IF k = 0 THEN {StartPath} ELSE UNION {Longer(store, dir, p) : p \in paths[k - 1]}
    IN  paths

KindsAsked(r) == CASE r.kind = "entity" -> EntityNodes
                   [] r.kind = "memory" -> MemoryNodes
                   [] OTHER -> Vertices

\* Paths of one to hops relations; the type filter is about every one of them,
\* the kind filter about the node at the end.
Paths(store, r) ==
    {p \in UNION {OfLength(store, r.dir)[k] : k \in 1..r.hops} :
        /\ \A e \in ToSet(p.edges) : e.type \in r.types
        /\ Last(p.nodes) \in KindsAsked(r)}

\* ORDER BY path length, kind and record; other ties as the plan has them, here
\* by the relations of the path.
Rank(p) == (Len(p.edges) * 10 + Last(p.nodes)) * 1000000 + p.tie

\* OFFSET from LIMIT to - from
Before(paths, p) == Cardinality({q \in paths : Rank(q) < Rank(p)})
Page(paths, from, to) == {p \in paths : Before(paths, p) \in from..(to - 1)}

PastCursor(offset, limit) == offset + limit

\* _query_shape_key
Shape(r) == [hops |-> r.hops, types |-> r.types, kind |-> r.kind,
             dir |-> r.dir, limit |-> r.limit]
Cursor(r, offset) == {[shape |-> Shape(r), offset |-> offset]}
NoCursor == {}
StartOf(cursor) == IF cursor = NoCursor THEN 0 ELSE (CHOOSE c \in cursor : TRUE).offset

----------------------------------------------------------------------------
(* The call *)

\* Both kinds of node that Neo4j does not label Entity are read as a memory.
ReadAs(store, v) == IF v \in EntityNodes THEN "entity"
                    ELSE IF v \in MemoryNodes \/ store = "neo4j" THEN "memory"
                    ELSE "task"

\* Mutant: only the end of a path is filtered.
PathVisible_EndOnly(store, p, all) ==
    ReadAs(store, Last(p.nodes)) = "memory" =>
        Last(p.nodes) \in MemoryNodes /\ (all \/ Last(p.nodes) \notin hidden)

\* _is_memory_visible, of the end and of each node on the way.
PathVisible(store, p, all) ==
    \A v \in ToSet(p.nodes) :
        ReadAs(store, v) = "memory" => v \in MemoryNodes /\ (all \/ v \notin hidden)

\* _project_hits drops the start and what is not visible.
Hits(store, rows, all) ==
    {Last(p.nodes) : p \in {q \in rows : /\ Last(q.nodes) # WalkOrigin
                                                /\ PathVisible(store, q, all)}}

BeginWalk(r, store) ==
    /\ walk.at = "idle"
    /\ walk' = [at |-> "query", store |-> store, asked |-> r, now |-> r, all |-> FALSE,
                cursor |-> NoCursor, rows |-> {}, next |-> NoCursor,
                used |-> {}, got |-> {}, ever |-> {}]
    /\ still' = TRUE
    /\ UNCHANGED <<walkLinks, hidden, walkTurns>>

\* neighbors(): one page of the paths there are.
Query ==
    /\ walk.at = "query"
    /\ IF \E c \in walk.cursor : c.shape # Shape(walk.now)
       THEN walk' = [walk EXCEPT !.at = "refused"]    \* INVALID_CURSOR
       ELSE LET paths == Paths(walk.store, walk.now)
                from == StartOf(walk.cursor)
                to == from + walk.now.limit
            IN  walk' = [walk EXCEPT !.at = "resolve", !.rows = Page(paths, from, to),
                           !.next = IF Cardinality(paths) > to
                                    THEN Cursor(walk.now, PastCursor(from, walk.now.limit))
                                    ELSE NoCursor]
    /\ UNCHANGED <<walkLinks, hidden, walkTurns, still>>

\* _finalize_neighbor_hits looks up the name of a task among the memories.
NamesTask == \E p \in walk.rows : ReadAs(walk.store, Last(p.nodes)) = "task"
                                         /\ PathVisible(walk.store, p, walk.all)
Found == Hits(walk.store, walk.rows, walk.all)
Resolving == walk.at = "resolve" /\ UNCHANGED <<walkLinks, hidden, walkTurns, still>>

ResolveTask ==
    /\ Resolving /\ NamesTask
    /\ walk' = [walk EXCEPT !.at = "crashed"]

\* The answer; the caller asks for the next page with its own request.
AnswerWalk ==
    /\ Resolving /\ ~NamesTask
    /\ Found # {} \/ ~walk.asked.fallback \/ walk.all
    /\ walk' = [walk EXCEPT !.at = IF walk.next = NoCursor THEN "done" ELSE "query",
                            !.got = @ \cup Found,
                            !.ever = @ \cup walk.used,
                            !.cursor = walk.next, !.now = walk.asked,
                            !.all = FALSE, !.used = {}]

Relax(step, r, all) ==
    /\ Resolving /\ ~NamesTask /\ walk.asked.fallback /\ Found = {} /\ ~walk.all
    /\ walk' = [walk EXCEPT !.at = "query", !.now = r, !.all = all,
                            !.used = @ \cup {step}]

\* _step_widen_hops
WidenHops ==
    /\ walk.at = "resolve" /\ walk.used = {} /\ walk.now.hops < MaxHops
    /\ Relax("widen_hops", [walk.now EXCEPT !.hops = @ + 1], FALSE)

\* _step_drop_predicate
DropPredicate ==
    /\ walk.at = "resolve" /\ "drop_predicate" \notin walk.used
    /\ "widen_hops" \in walk.used \/ walk.now.hops = MaxHops
    /\ walk.now.types # AllTypes
    /\ Relax("drop_predicate", [walk.now EXCEPT !.types = AllTypes], FALSE)

IncludeRetired ==
    /\ walk.at = "resolve"
    /\ "widen_hops" \in walk.used \/ walk.now.hops = MaxHops
    /\ walk.now.types = AllTypes
    /\ Relax("include_retired", walk.now, TRUE)

----------------------------------------------------------------------------
(* Others *)

Others == /\ walkTurns < MaxWalkChanges /\ walkTurns' = walkTurns + 1
          /\ still' = FALSE /\ UNCHANGED walk

LinkNodes(e) == e \notin walkLinks /\ walkLinks' = walkLinks \cup {e} /\ Others /\ UNCHANGED hidden
Retire(m) == m \notin hidden /\ hidden' = hidden \cup {m} /\ Others /\ UNCHANGED walkLinks

WalkInit == /\ walkLinks = {} /\ hidden = {} /\ walk = NoWalk
            /\ walkTurns = 0 /\ still = TRUE

WalkSteps == Query \/ ResolveTask \/ AnswerWalk \/ WidenHops \/ DropPredicate \/ IncludeRetired

WalkNext == \/ \E r \in WalkRequests, s \in Stores : BeginWalk(r, s)
            \/ WalkSteps
            \/ \E e \in LinkChoices : LinkNodes(e)
            \/ \E m \in MemoryNodes \ {WalkOrigin} : Retire(m)

WalkSpec == WalkInit /\ [][WalkNext]_walkVars /\ WF_walkVars(WalkSteps)

----------------------------------------------------------------------------
(* Properties *)

\* What there is to find: nodes within hops of the start, through relations of
\* the types and nodes that may be shown; a task is passed only by Postgres.
OpenNodes(store, all) ==
    EntityNodes \cup (IF all THEN MemoryNodes ELSE MemoryNodes \ hidden)
       \cup (IF store = "postgres" THEN TaskNodes ELSE {})
Joined(r, open, inner) ==
    {v \in open : \E e \in walkLinks, u \in inner :
                    e.type \in r.types /\ Leaves(e, u, r.dir) /\ Far(e, u) = v}
Within(r, open) ==
    LET near[k \in 0..MaxHops] ==
            IF k = 0 THEN {WalkOrigin} ELSE near[k - 1] \cup Joined(r, open, near[k - 1])
    IN  near
Nearby(r, store, all) ==
    (Within(r, OpenNodes(store, all))[r.hops] \cap KindsAsked(r)) \ (TaskNodes \cup {WalkOrigin})

Finished == walk.at = "done" /\ still
Walking == walk.at \in {"query", "resolve"}

\* "Clients should iterate next_cursor until None" (graph.py): a caller who does
\* has then seen each neighbor that may be shown and nothing else, from either
\* store and whatever the limit, when nothing changed meanwhile.
PagesCoverNeighbors ==
    Finished /\ walk.ever = {} => walk.got = Nearby(walk.asked, walk.store, FALSE)

\* The request at the end of the ladder.
Loosest(r) == [r EXCEPT !.hops = IF @ < MaxHops THEN @ + 1 ELSE @, !.types = AllTypes]
OnePage(store, r) == Cardinality(Paths(store, r)) <= r.limit

\* Memories that are hidden are given only when nothing else could be found, by
\* any of the looser requests. The ladder retries a page that shows nothing: so
\* this is about requests whose paths, at their loosest, make one page.
HiddenOnlyAsLastResort ==
    Finished /\ walk.got \cap hidden # {} /\ OnePage(walk.store, Loosest(walk.asked)) =>
        Nearby(Loosest(walk.asked), walk.store, FALSE) = {}

\* memory_neighbors gives what may be shown, and what is hidden only as a last
\* resort (graph.py).
WalksFindWhatMayBeShown == PagesCoverNeighbors /\ HiddenOnlyAsLastResort
=============================================================================
