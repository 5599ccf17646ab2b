----------------------------- MODULE Relations -----------------------------
(***************************************************************************)
(* Typed edges between graph nodes: relation_link (relations.py) and       *)
(* task_link_memory (tasks/api.py), which write the same two tables.       *)
(*                                                                         *)
(* Both first make sure that each endpoint has its graph_nodes row.  What  *)
(* a transaction inserted or updated is seen by nobody else until it       *)
(* commits, and another transaction that wants the same key or row waits   *)
(* for it; Postgres ends one of the transactions that wait for each other. *)
(***************************************************************************)
EXTENDS Naturals, FiniteSets

CONSTANTS
    Linkers,      \* concurrent calls
    Records,      \* entities, memories and tasks of one env
    TaskRecords,  \* the tasks: their nodes are made with them
    Pairs,        \* bound: the pairs <<src, dst>> that calls link
    Properties,   \* values of a relation's properties
    MaxLinks      \* bound: calls begun

NoProperties == "{}"

ASSUME EmptyProperties == NoProperties \in Properties
ASSUME TasksAreRecords == TaskRecords \subseteq Records
ASSUME PairsOfRecords == Pairs \subseteq Records \X Records
ASSUME LinkBound == MaxLinks \in Nat

VARIABLES
    gnode,       \* records that have a committed graph_nodes row
    rel,         \* rel[<<src, dst>>]: committed version (0: no row) and properties
    linkEvents,  \* committed outbox events of relations
    link,        \* link[c]: the transaction of call c
    answer,      \* answer[c]: what the last call of c came back with
    links        \* calls so far

relVars == <<gnode, rel, linkEvents, link, answer, links>>

\* No self-loops.
Edges == {e \in Pairs : e[1] # e[2]}
NoRow == [ver |-> 0, props |-> NoProperties]
NoLink == [at |-> "idle", tool |-> "none", edge |-> <<>>, props |-> NoProperties, expected |-> 0,
           made |-> {}, seen |-> 0, row |-> NoRow]
NoAnswer == [kind |-> "none", edge |-> <<>>, ver |-> 0, props |-> NoProperties]

Endpoint(c) == IF link[c].at \in {"src", "addSrc"} THEN link[c].edge[1] ELSE link[c].edge[2]

----------------------------------------------------------------------------
(* Waiting for the transactions of others *)

Made(c) == link[c].made
Holds(c, e) == link[c].edge = e /\ link[c].row # NoRow

Blockers(c) ==
    {d \in Linkers \ {c} :
        \/ link[c].at \in {"addSrc", "addDst"} /\ Endpoint(c) \in Made(d)
        \/ link[c].at \in {"insert", "update"} /\ Holds(d, link[c].edge)}

Blocked(c) == Blockers(c) # {}

\* c waits, directly or not, only for transactions that wait in a circle.
Deadlocked(c) ==
    \E S \in SUBSET Linkers : c \in S /\ \A d \in S : Blockers(d) \cap S # {}

----------------------------------------------------------------------------
(* One call *)

LinkGoes(c, at) == link' = [link EXCEPT ![c].at = at]

LinkEnds(c, kind, r) ==
    /\ link' = [link EXCEPT ![c] = NoLink]
    /\ answer' = [answer EXCEPT ![c] = [kind |-> kind, edge |-> link[c].edge,
                                        ver |-> r.ver, props |-> r.props]]

LinkFails(c, why) ==
    LinkEnds(c, why, NoRow) /\ UNCHANGED <<gnode, rel, linkEvents, links>>

\* relation_link: no self-loop; expected_version 0 stands for none.
BeginRelationLink(c, e, p, v) ==
    /\ link[c] = NoLink /\ links < MaxLinks
    /\ link' = [link EXCEPT ![c] = [NoLink EXCEPT !.at = "src", !.tool = "relation_link",
                                                  !.edge = e, !.props = p, !.expected = v]]
    /\ links' = links + 1
    /\ UNCHANGED <<gnode, rel, linkEvents, answer>>

\* task_link_memory: an edge without properties.
BeginTaskLink(c, e) ==
    /\ link[c] = NoLink /\ links < MaxLinks
    /\ e[1] \in TaskRecords /\ e[2] \notin TaskRecords
    /\ link' = [link EXCEPT ![c] = [NoLink EXCEPT !.at = "src", !.tool = "task_link_memory",
                                                  !.edge = e]]
    /\ links' = links + 1
    /\ UNCHANGED <<gnode, rel, linkEvents, answer>>

After(at) == IF at \in {"src", "addSrc"} THEN "dst" ELSE "edge"

\* SELECT the endpoint's node.
FindNode(c) ==
    /\ link[c].at \in {"src", "dst"}
    /\ LinkGoes(c, IF Endpoint(c) \in gnode \cup Made(c) THEN After(link[c].at)
                   ELSE IF link[c].at = "src" THEN "addSrc" ELSE "addDst")
    /\ UNCHANGED <<gnode, rel, linkEvents, answer, links>>

\* INSERT the node: it may have been committed since the SELECT.
AddNode(c) ==
    /\ link[c].at \in {"addSrc", "addDst"} /\ ~Blocked(c)
    /\ Endpoint(c) \notin gnode
    /\ link' = [link EXCEPT ![c].at = After(@), ![c].made = @ \cup {Endpoint(c)}]
    /\ UNCHANGED <<gnode, rel, linkEvents, answer, links>>

\* relation_link inserts under a SAVEPOINT and takes the winner's row.
AdoptNode(c) ==
    /\ link[c].at \in {"addSrc", "addDst"} /\ ~Blocked(c)
    /\ Endpoint(c) \in gnode /\ link[c].tool = "relation_link"
    /\ LinkGoes(c, After(link[c].at))
    /\ UNCHANGED <<gnode, rel, linkEvents, answer, links>>

\* task_link_memory does not: the unique violation ends the call.
LoseNode(c) ==
    /\ link[c].at \in {"addSrc", "addDst"} /\ ~Blocked(c)
    /\ Endpoint(c) \in gnode /\ link[c].tool = "task_link_memory"
    /\ LinkFails(c, "IntegrityError")

\* SELECT the relation (relation_link) or INSERT .. ON CONFLICT DO NOTHING.
FindEdge(c) ==
    LET r == rel[link[c].edge]
    IN  /\ link[c].at = "edge"
        /\ \/ link[c].tool = "task_link_memory" \/ r.ver = 0
           \/ link[c].expected \in {0, r.ver}
        /\ link' = [link EXCEPT
              ![c].seen = r.ver,
              ![c].at = IF link[c].tool = "task_link_memory" \/ r.ver = 0 THEN "insert"
                        ELSE IF r.props = link[c].props THEN "same" ELSE "update"]
        /\ UNCHANGED <<gnode, rel, linkEvents, answer, links>>

RefuseVersion(c) ==
    /\ link[c].at = "edge" /\ link[c].tool = "relation_link"
    /\ rel[link[c].edge].ver # 0 /\ link[c].expected \notin {0, rel[link[c].edge].ver}
    /\ LinkFails(c, "VersionConflictError")

InsertEdge(c) ==
    /\ link[c].at = "insert" /\ ~Blocked(c)
    /\ rel[link[c].edge].ver = 0
    /\ link' = [link EXCEPT ![c].at = "commit",
                            ![c].row = [ver |-> 1, props |-> link[c].props]]
    /\ UNCHANGED <<gnode, rel, linkEvents, answer, links>>

\* The key was committed after the SELECT: relation_link fails on the unique
\* key, task_link_memory reads the row that is there.
EdgeTaken(c) ==
    /\ link[c].at = "insert" /\ ~Blocked(c)
    /\ rel[link[c].edge].ver # 0
    /\ IF link[c].tool = "relation_link"
       THEN LinkFails(c, "IntegrityError")
       ELSE LinkGoes(c, "same") /\ UNCHANGED <<gnode, rel, linkEvents, answer, links>>

\* Mutant: UPDATE ... WHERE id = :id alone.
Unmoved_Always(c) == TRUE

\* UPDATE ... WHERE id = :id AND version = :expected, on the committed row.
Unmoved(c) == rel[link[c].edge].ver = link[c].seen

UpdateEdge(c) ==
    /\ link[c].at = "update" /\ ~Blocked(c) /\ Unmoved(c)
    /\ link' = [link EXCEPT ![c].at = "commit",
                            ![c].row = [ver |-> link[c].seen + 1, props |-> link[c].props]]
    /\ UNCHANGED <<gnode, rel, linkEvents, answer, links>>

LoseUpdate(c) ==
    /\ link[c].at = "update" /\ ~Blocked(c) /\ ~Unmoved(c)
    /\ LinkFails(c, "VersionConflictError")

\* The row, its nodes and its outbox event become visible together.
CommitLinkChange(c) ==
    LET e == link[c].edge
    IN  /\ link[c].at = "commit"
        /\ gnode' = gnode \cup Made(c)
        /\ rel' = [rel EXCEPT ![e] = link[c].row]
        /\ linkEvents' = linkEvents \cup {[seq |-> Cardinality(linkEvents) + 1, edge |-> e,
                                           ver |-> link[c].row.ver,
                                           props |-> link[c].row.props]}
        /\ LinkEnds(c, "ok", link[c].row)
        /\ UNCHANGED links

\* Nothing to write to the relation; nodes made on the way stay.
CommitLinkNoOp(c) ==
    /\ link[c].at = "same"
    /\ gnode' = gnode \cup Made(c)
    /\ LinkEnds(c, "ok", rel[link[c].edge])
    /\ UNCHANGED <<rel, linkEvents, links>>

\* Postgres cancels one transaction of the circle.
BreakDeadlock(c) == Deadlocked(c) /\ LinkFails(c, "DeadlockDetected")

----------------------------------------------------------------------------
RelInit ==
    /\ gnode = TaskRecords
    /\ rel = [e \in Edges |-> NoRow]
    /\ linkEvents = {}
    /\ link = [c \in Linkers |-> NoLink]
    /\ answer = [c \in Linkers |-> NoAnswer]
    /\ links = 0

LinkProceeds(c) ==
    \/ FindNode(c)      \/ AddNode(c)      \/ AdoptNode(c)        \/ LoseNode(c)
    \/ FindEdge(c)      \/ RefuseVersion(c) \/ InsertEdge(c)      \/ EdgeTaken(c)
    \/ UpdateEdge(c)    \/ LoseUpdate(c)   \/ CommitLinkChange(c) \/ CommitLinkNoOp(c)
    \/ BreakDeadlock(c)

RelNext ==
    \E c \in Linkers :
        \/ \E e \in Edges : \/ \E p \in Properties, v \in {0, 1} : BeginRelationLink(c, e, p, v)
                            \/ BeginTaskLink(c, e)
        \/ LinkProceeds(c)

(* A transaction that does not wait goes on, and Postgres looks for         *)
(* deadlocks as long as a transaction waits.                                *)
RelFairness == \A c \in Linkers : WF_relVars(LinkProceeds(c))
RelSpec == RelInit /\ [][RelNext]_relVars /\ RelFairness

----------------------------------------------------------------------------
(* Properties *)

(* The outbox holds exactly the history of every relation: one event for    *)
(* each version it went through, the last with the properties it now has;   *)
(* a relation joins two records that have their nodes.                      *)
RelationHistory ==
    \A e \in Edges :
        LET es == {x \in linkEvents : x.edge = e}
        IN  /\ {x.ver : x \in es} = 1..rel[e].ver
            /\ Cardinality(es) = rel[e].ver
            /\ rel[e].ver > 0 => /\ \E x \in es : x.ver = rel[e].ver /\ x.props = rel[e].props
                                 /\ {e[1], e[2]} \subseteq gnode

(* A call that answers "ok" tells of a state the relation really was in.    *)
AnswersAreHistory ==
    \A c \in Linkers :
        answer[c].kind = "ok" =>
            \E x \in linkEvents :
                /\ x.edge = answer[c].edge
                /\ x.ver = answer[c].ver /\ x.props = answer[c].props

(* What relation calls answer, and the events they leave, is the history    *)
(* each relation had (relations.py, tasks/api.py).                          *)
RelationsAreTold == RelationHistory /\ AnswersAreHistory

(* The inductive invariant behind the proofs (RelationsProofs): types; a    *)
(* call is in a transaction exactly while it has an edge to link.           *)
Rows == [ver : Nat, props : Properties]
LinkTypes ==
    [at : {"idle", "src", "addSrc", "dst", "addDst", "edge", "insert", "update", "same", "commit"},
     tool : {"none", "relation_link", "task_link_memory"}, edge : Edges \cup {<<>>},
     props : Properties, expected : Nat, made : SUBSET Records, seen : Nat, row : Rows]
AnswerKinds == {"none", "ok", "IntegrityError", "VersionConflictError", "DeadlockDetected"}
RelTypeOK ==
    /\ gnode \subseteq Records
    /\ rel \in [Edges -> Rows]
    /\ linkEvents \subseteq [seq : Nat, edge : Edges, ver : Nat, props : Properties]
    /\ IsFiniteSet(linkEvents)
    /\ link \in [Linkers -> LinkTypes]
    /\ \A c \in Linkers : IF link[c].at = "idle" THEN link[c] = NoLink ELSE link[c].edge \in Edges
    /\ answer \in [Linkers -> [kind : AnswerKinds, edge : Edges \cup {<<>>}, ver : Nat,
                               props : Properties]]

(* The one transaction that wrote a relation's row and has not committed    *)
(* wrote the version after the committed one.                               *)
WritesNext(c) ==
    /\ link[c].at = "commit" <=> link[c].row # NoRow
    /\ link[c].at = "commit" =>
          /\ link[c].row.ver = rel[link[c].edge].ver + 1
          /\ \A d \in Linkers : link[d].at = "commit" /\ link[d].edge = link[c].edge => d = c

(* The nodes a transaction has behind it are there, or it made them; and a  *)
(* relation with nothing to write to exists.                                *)
NodesBehind(c) ==
    /\ link[c].at \in {"dst", "addDst"} => link[c].edge[1] \in gnode \cup Made(c)
    /\ link[c].at \in {"edge", "insert", "update", "same", "commit"} =>
          {link[c].edge[1], link[c].edge[2]} \subseteq gnode \cup Made(c)
    /\ link[c].at = "same" => rel[link[c].edge].ver > 0

RelInv == /\ RelTypeOK
          /\ \A c \in Linkers : WritesNext(c) /\ NodesBehind(c)
          /\ RelationsAreTold
=============================================================================
