--------------------------- MODULE RelationsProofs ---------------------------
(***************************************************************************)
(* Proofs about Relations, for any callers, records, pairs and properties, *)
(* and about Popularity, for any memories, tasks, edges and macros.        *)
(***************************************************************************)
EXTENDS Relations, Popularity, FiniteSetTheorems, TLAPS

----------------------------------------------------------------------------
(* The steps of one call *)

\* Between its begin and its end: nothing is committed.
Goes(c) == \/ FindNode(c) \/ AddNode(c) \/ AdoptNode(c) \/ FindEdge(c) \/ InsertEdge(c)
           \/ EdgeTaken(c) /\ LinkGoes(c, "same") /\ UNCHANGED <<gnode, rel, linkEvents, answer>>
           \/ UpdateEdge(c)
Begins(c) == \E e \in Edges : \/ \E p \in Properties, v \in {0, 1} : BeginRelationLink(c, e, p, v)
                              \/ BeginTaskLink(c, e)
Fails(c) == \E why \in AnswerKinds \ {"none", "ok"} : LinkFails(c, why) /\ link[c].at # "idle"
Commits(c) == CommitLinkChange(c) \/ CommitLinkNoOp(c)

\* The rest of the state as a transaction leaves it for others.
Unseen == UNCHANGED <<gnode, rel, linkEvents, answer>>

LEMMA LinkSteps ==
    ASSUME RelTypeOK, RelNext
    PROVE  \E c \in Linkers : Begins(c) \/ Goes(c) \/ Fails(c) \/ Commits(c)
  <1>1. PICK c \in Linkers : Begins(c) \/ LinkProceeds(c)
    BY DEF RelNext, Begins
  <1>2. ASSUME BreakDeadlock(c) PROVE link[c].at # "idle"
    <2>1. PICK S \in SUBSET Linkers : c \in S /\ \A d \in S : Blockers(d) \cap S # {}
      BY <1>2 DEF BreakDeadlock, Deadlocked
    <2>2. link[c].at \in {"addSrc", "addDst", "insert", "update"}
      BY <2>1 DEF Blockers
    <2> QED BY <2>2
  <1>3. BreakDeadlock(c) => Fails(c)
    BY <1>2 DEF BreakDeadlock, Fails, AnswerKinds
  <1>4. LoseNode(c) \/ RefuseVersion(c) \/ LoseUpdate(c) => Fails(c)
    BY DEF LoseNode, RefuseVersion, LoseUpdate, Fails, AnswerKinds
  <1>5. EdgeTaken(c) => Fails(c) \/ Goes(c)
    BY DEF EdgeTaken, Fails, AnswerKinds, Goes
  <1> QED BY <1>1, <1>3, <1>4, <1>5 DEF LinkProceeds, Goes, Commits

LEMMA BeginStep ==
    ASSUME RelTypeOK, NEW c \in Linkers, Begins(c)
    PROVE  /\ link' = [link EXCEPT ![c] = link'[c]] /\ link'[c] \in LinkTypes
           /\ link'[c].at = "src" /\ link'[c].edge \in Edges
           /\ link'[c].row = NoRow /\ Unseen
  <1>1. NoLink \in LinkTypes /\ link \in [Linkers -> LinkTypes]
    BY EmptyProperties DEF RelTypeOK, NoLink, LinkTypes, Rows, NoRow
  <1>2. PICK e \in Edges : \/ \E p \in Properties, v \in {0, 1} : BeginRelationLink(c, e, p, v)
                           \/ BeginTaskLink(c, e)
    BY DEF Begins
  <1>3. ASSUME NEW p \in Properties, NEW v \in {0, 1}, BeginRelationLink(c, e, p, v)
        PROVE  /\ link' = [link EXCEPT ![c] = link'[c]] /\ link'[c] \in LinkTypes
               /\ link'[c].at = "src" /\ link'[c].edge \in Edges
               /\ link'[c].row = NoRow /\ Unseen
    <2>1. link'[c] = [at |-> "src", tool |-> "relation_link", edge |-> e, props |-> p,
                      expected |-> v, made |-> {}, seen |-> 0, row |-> NoRow]
      BY <1>1, <1>3 DEF BeginRelationLink, NoLink
    <2>2. link' = [link EXCEPT ![c] = link'[c]] /\ Unseen
      BY <1>1, <1>3 DEF BeginRelationLink, Unseen
    <2>3. NoRow \in Rows
      BY EmptyProperties DEF Rows, NoRow
    <2>4. link'[c] \in LinkTypes
      BY <1>2, <1>3, <2>1, <2>3, EmptyProperties DEF LinkTypes
    <2>5. link'[c].at = "src" /\ link'[c].edge \in Edges /\ link'[c].row = NoRow
      BY <2>1
    <2> QED BY <2>2, <2>4, <2>5
  <1>4. ASSUME BeginTaskLink(c, e)
        PROVE  /\ link' = [link EXCEPT ![c] = link'[c]] /\ link'[c] \in LinkTypes
               /\ link'[c].at = "src" /\ link'[c].edge \in Edges
               /\ link'[c].row = NoRow /\ Unseen
    <2>1. link'[c] = [at |-> "src", tool |-> "task_link_memory", edge |-> e, props |-> NoProperties,
                      expected |-> 0, made |-> {}, seen |-> 0, row |-> NoRow]
      BY <1>1, <1>4 DEF BeginTaskLink, NoLink
    <2>2. link' = [link EXCEPT ![c] = link'[c]] /\ Unseen
      BY <1>1, <1>4 DEF BeginTaskLink, Unseen
    <2>3. NoRow \in Rows
      BY EmptyProperties DEF Rows, NoRow
    <2>4. link'[c] \in LinkTypes
      BY <1>2, <1>4, <2>1, <2>3, EmptyProperties DEF LinkTypes
    <2>5. link'[c].at = "src" /\ link'[c].edge \in Edges /\ link'[c].row = NoRow
      BY <2>1
    <2> QED BY <2>2, <2>4, <2>5
  <1> QED BY <1>2, <1>3, <1>4

LEMMA FailStep ==
    ASSUME RelTypeOK, NEW c \in Linkers, Fails(c) \/ Commits(c)
    PROVE  /\ link' = [link EXCEPT ![c] = link'[c]]
           /\ link'[c] = NoLink /\ NoLink \in LinkTypes
           /\ link[c].at # "idle" /\ link[c].edge \in Edges /\ link[c] \in LinkTypes
  <1>1. NoLink \in LinkTypes /\ link \in [Linkers -> LinkTypes]
    BY EmptyProperties DEF RelTypeOK, NoLink, LinkTypes, Rows, NoRow
  <1>2. link' = [link EXCEPT ![c] = NoLink] /\ link[c].at # "idle"
    BY DEF Fails, Commits, CommitLinkChange, CommitLinkNoOp, LinkFails, LinkEnds
  <1> QED BY <1>1, <1>2 DEF RelTypeOK

\* The record of c's transaction with other values in the fields that change.
At(c, at, made, seen, row) ==
    [at |-> at, tool |-> link[c].tool, edge |-> link[c].edge, props |-> link[c].props,
     expected |-> link[c].expected, made |-> made, seen |-> seen, row |-> row]

(* A transaction on its way: where it is, and what it has behind it.        *)
LEMMA GoesStep ==
    ASSUME RelTypeOK, NEW c \in Linkers, WritesNext(c), NodesBehind(c), Goes(c)
    PROVE  /\ link' = [link EXCEPT ![c] = link'[c]] /\ link'[c] \in LinkTypes
           /\ link[c].edge \in Edges /\ link'[c].edge = link[c].edge
           /\ link'[c].at # "idle" /\ Unseen
           /\ NodesBehind(c)'
           /\ link'[c].at = "commit" <=> link'[c].row # NoRow
           /\ link'[c].at = "commit" =>
                 /\ link'[c].row.ver = rel[link[c].edge].ver + 1
                 /\ ~ \E d \in Linkers \ {c} : Holds(d, link[c].edge)
  <1>1. link[c] \in LinkTypes /\ link \in [Linkers -> LinkTypes]
    BY DEF RelTypeOK
  <1>2. link[c].at # "idle" => link[c].edge \in Edges
    BY DEF RelTypeOK
  <1>3. CASE FindNode(c)
    <2>1. link[c].at \in {"src", "dst"} /\ Unseen
      BY <1>3 DEF FindNode, Unseen
    <2>2. PICK at \in {"addSrc", "addDst", "dst", "edge"} :
             /\ link' = [link EXCEPT ![c].at = at]
             /\ at = "dst" => Endpoint(c) \in gnode \cup Made(c) /\ link[c].at = "src"
             /\ at = "edge" => Endpoint(c) \in gnode \cup Made(c) /\ link[c].at = "dst"
             /\ at = "addDst" => link[c].at = "dst"
      BY <1>3, <2>1 DEF FindNode, LinkGoes, After
    <2>3. link' = [link EXCEPT ![c] = link'[c]] /\ link'[c] = [link[c] EXCEPT !.at = at]
      BY <1>1, <2>2
    <2>4. /\ link'[c] \in LinkTypes /\ link'[c].at = at /\ link'[c].made = link[c].made
          /\ link'[c].row = link[c].row /\ link'[c].edge = link[c].edge
      BY <1>1, <2>3 DEF LinkTypes
    <2>5. NodesBehind(c)'
      BY <2>1, <2>2, <2>4 DEF NodesBehind, Unseen, Endpoint, Made
    <2> QED BY <1>2, <2>1, <2>3, <2>4, <2>5 DEF WritesNext
  <1>4. CASE AddNode(c)
    <2>1. Endpoint(c) \in Records
      BY <1>1, <1>2, <1>4, PairsOfRecords DEF AddNode, Endpoint, Edges
    <2>2. link'[c] = At(c, After(link[c].at), link[c].made \cup {Endpoint(c)}, link[c].seen,
                        link[c].row)
      BY <1>1, <1>4 DEF AddNode, At, LinkTypes
    <2>3. link' = [link EXCEPT ![c] = link'[c]]
      BY <1>1, <1>4 DEF AddNode
    <2>4. /\ link'[c].at = After(link[c].at) /\ link'[c].made = link[c].made \cup {Endpoint(c)}
          /\ link'[c].row = link[c].row /\ link'[c].edge = link[c].edge
      BY <2>2 DEF At
    <2>5. link'[c] \in LinkTypes
      BY <1>1, <2>1, <2>2 DEF At, LinkTypes, After
    <2>6. Unseen /\ link[c].at \in {"addSrc", "addDst"}
      BY <1>4 DEF AddNode, Unseen
    <2>7. NodesBehind(c)'
      BY <1>1, <1>2, <2>4, <2>6 DEF NodesBehind, Unseen, Endpoint, Made, After
    <2> QED BY <1>2, <2>3, <2>4, <2>5, <2>6, <2>7 DEF WritesNext, After
  <1>5. CASE AdoptNode(c)
    BY <1>1, <1>2, <1>5
       DEF AdoptNode, LinkGoes, Unseen, Endpoint, Made, After, LinkTypes, NodesBehind, WritesNext
  <1>6. CASE FindEdge(c)
    <2>1. link[c].at = "edge" /\ Unseen /\ rel[link[c].edge].ver \in Nat
      BY <1>2, <1>6 DEF FindEdge, Unseen, RelTypeOK, Rows
    <2>2. PICK at \in {"insert", "same", "update"} :
             /\ link'[c] = At(c, at, link[c].made, rel[link[c].edge].ver, link[c].row)
             /\ at = "same" => rel[link[c].edge].ver # 0
      BY <1>1, <1>6 DEF FindEdge, At, LinkTypes
    <2>3. link' = [link EXCEPT ![c] = link'[c]]
      BY <1>1, <1>6 DEF FindEdge
    <2>4. /\ link'[c].at = at /\ link'[c].made = link[c].made
          /\ link'[c].row = link[c].row /\ link'[c].edge = link[c].edge
      BY <2>2 DEF At
    <2>5. link'[c] \in LinkTypes
      BY <1>1, <2>1, <2>2 DEF At, LinkTypes
    <2>6. NodesBehind(c)'
      BY <2>1, <2>2, <2>4 DEF NodesBehind, Unseen, Made
    <2> QED BY <1>2, <2>1, <2>3, <2>4, <2>5, <2>6 DEF WritesNext
  <1>7. CASE EdgeTaken(c) /\ LinkGoes(c, "same") /\ UNCHANGED <<gnode, rel, linkEvents, answer>>
    <2>1. link[c].at = "insert" /\ Unseen /\ rel[link[c].edge].ver # 0
      BY <1>7 DEF EdgeTaken, Unseen
    <2>2. rel[link[c].edge].ver \in Nat
      BY <1>2, <2>1 DEF RelTypeOK, Rows
    <2>3. link'[c] = At(c, "same", link[c].made, link[c].seen, link[c].row)
      BY <1>1, <1>7 DEF LinkGoes, At, LinkTypes
    <2>4. link' = [link EXCEPT ![c] = link'[c]]
      BY <1>1, <1>7 DEF LinkGoes
    <2>5. /\ link'[c].at = "same" /\ link'[c].made = link[c].made
          /\ link'[c].row = link[c].row /\ link'[c].edge = link[c].edge
      BY <2>3 DEF At
    <2>6. link'[c] \in LinkTypes
      BY <1>1, <2>3 DEF At, LinkTypes
    <2>7. NodesBehind(c)'
      BY <2>1, <2>2, <2>5 DEF NodesBehind, Unseen, Made
    <2> QED BY <1>2, <2>1, <2>4, <2>5, <2>6, <2>7 DEF WritesNext
  <1>8. CASE InsertEdge(c)
    <2>1. /\ link[c].at = "insert" /\ Unseen /\ ~Blocked(c)
          /\ rel[link[c].edge].ver = 0
      BY <1>8 DEF InsertEdge, Unseen
    <2> DEFINE row == [ver |-> 1, props |-> link[c].props]
    <2>2. link'[c] = At(c, "commit", link[c].made, link[c].seen, row)
      BY <1>1, <1>8 DEF InsertEdge, At, LinkTypes
    <2>3. link' = [link EXCEPT ![c] = link'[c]]
      BY <1>1, <1>8 DEF InsertEdge
    <2>4. /\ row \in Rows /\ row # NoRow /\ row.ver = rel[link[c].edge].ver + 1
      BY <1>1, <2>1 DEF LinkTypes, Rows, NoRow
    <2> HIDE DEF row
    <2>5. /\ link'[c].at = "commit" /\ link'[c].made = link[c].made
          /\ link'[c].row = row /\ link'[c].edge = link[c].edge
      BY <2>2 DEF At
    <2>6. link'[c] \in LinkTypes
      BY <1>1, <2>2, <2>4 DEF At, LinkTypes
    <2>7. NodesBehind(c)'
      BY <2>1, <2>5 DEF NodesBehind, Unseen, Made
    <2>8. ~ \E d \in Linkers \ {c} : Holds(d, link[c].edge)
      BY <2>1 DEF Blocked, Blockers
    <2> QED BY <1>2, <2>1, <2>3, <2>4, <2>5, <2>6, <2>7, <2>8
  <1>9. CASE UpdateEdge(c)
    <2>1. /\ link[c].at = "update" /\ Unseen /\ ~Blocked(c)
          /\ rel[link[c].edge].ver = link[c].seen
      BY <1>9 DEF UpdateEdge, Unseen, Unmoved
    <2> DEFINE row == [ver |-> link[c].seen + 1, props |-> link[c].props]
    <2>2. link'[c] = At(c, "commit", link[c].made, link[c].seen, row)
      BY <1>1, <1>9 DEF UpdateEdge, At, LinkTypes
    <2>3. link' = [link EXCEPT ![c] = link'[c]]
      BY <1>1, <1>9 DEF UpdateEdge
    <2>4. /\ row \in Rows /\ row # NoRow /\ row.ver = rel[link[c].edge].ver + 1
      BY <1>1, <2>1 DEF LinkTypes, Rows, NoRow
    <2> HIDE DEF row
    <2>5. /\ link'[c].at = "commit" /\ link'[c].made = link[c].made
          /\ link'[c].row = row /\ link'[c].edge = link[c].edge
      BY <2>2 DEF At
    <2>6. link'[c] \in LinkTypes
      BY <1>1, <2>2, <2>4 DEF At, LinkTypes
    <2>7. NodesBehind(c)'
      BY <2>1, <2>5 DEF NodesBehind, Unseen, Made
    <2>8. ~ \E d \in Linkers \ {c} : Holds(d, link[c].edge)
      BY <2>1 DEF Blocked, Blockers
    <2> QED BY <1>2, <2>1, <2>3, <2>4, <2>5, <2>6, <2>7, <2>8
  <1> QED BY <1>3, <1>4, <1>5, <1>6, <1>7, <1>8, <1>9 DEF Goes

----------------------------------------------------------------------------
(* The invariant, kept by what is not seen, by failures and by commits *)

LinksTyped ==
    /\ link \in [Linkers -> LinkTypes]
    /\ \A c \in Linkers : IF link[c].at = "idle" THEN link[c] = NoLink ELSE link[c].edge \in Edges

LEMMA UnseenNext ==
    ASSUME RelInv, NEW c \in Linkers, Begins(c) \/ Goes(c)
    PROVE  RelInv'
  <1>1. RelTypeOK /\ RelationsAreTold /\ \A d \in Linkers : WritesNext(d) /\ NodesBehind(d)
    BY DEF RelInv
  <1>2. /\ link' = [link EXCEPT ![c] = link'[c]] /\ link'[c] \in LinkTypes
        /\ link'[c].at # "idle" /\ link'[c].edge \in Edges /\ Unseen /\ NodesBehind(c)'
        /\ link'[c].at = "commit" <=> link'[c].row # NoRow
        /\ link'[c].at = "commit" =>
              /\ link'[c].row.ver = rel[link'[c].edge].ver + 1
              /\ ~ \E d \in Linkers \ {c} : Holds(d, link'[c].edge)
    <2>1. CASE Begins(c)
      <3>1. NodesBehind(c)'
        BY <1>1, <2>1, BeginStep DEF NodesBehind
      <3> QED BY <1>1, <2>1, <3>1, BeginStep
    <2>2. CASE Goes(c)
      BY <1>1, <2>2, GoesStep
    <2> QED BY <2>1, <2>2
  <1>3. /\ \A d \in Linkers \ {c} : link'[d] = link[d]
        /\ link' \in [Linkers -> LinkTypes]
    BY <1>1, <1>2 DEF RelTypeOK
  <1>4. RelTypeOK'
    <2>1. LinksTyped'
      BY <1>1, <1>2, <1>3 DEF LinksTyped, RelTypeOK
    <2> QED BY <1>1, <1>2, <2>1 DEF RelTypeOK, LinksTyped, Unseen
  <1>5. ASSUME NEW d \in Linkers PROVE WritesNext(d)' /\ NodesBehind(d)'
    <2>1. CASE d # c
      <3>1. NodesBehind(d)'
        BY <1>1, <1>2, <1>3, <2>1 DEF NodesBehind, Made, Unseen
      <3>2. link[d].at = "commit" /\ link'[c].at = "commit" => link'[c].edge # link[d].edge
        BY <1>1, <1>2, <2>1 DEF WritesNext, Holds
      <3>3. WritesNext(d)'
        BY <1>1, <1>2, <1>3, <2>1, <3>2 DEF WritesNext, Unseen
      <3> QED BY <3>1, <3>3
    <2>2. CASE d = c
      <3>1. ASSUME NEW o \in Linkers, link'[o].at = "commit", link'[c].at = "commit",
                   link'[o].edge = link'[c].edge
            PROVE  o = c
        <4>1. o # c => Holds(o, link'[c].edge)
          BY <1>1, <1>3, <3>1 DEF WritesNext, Holds
        <4> QED BY <1>2, <3>1, <4>1
      <3>2. rel' = rel
        BY <1>2 DEF Unseen
      <3> QED BY <1>2, <2>2, <3>1, <3>2 DEF WritesNext
    <2> QED BY <2>1, <2>2
  <1>6. RelationsAreTold'
    BY <1>1, <1>2 DEF RelationsAreTold, RelationHistory, AnswersAreHistory, Unseen
  <1> QED BY <1>4, <1>5, <1>6 DEF RelInv

(* A failed transaction leaves nothing behind.                              *)
LEMMA FailNext ==
    ASSUME RelInv, NEW c \in Linkers, Fails(c)
    PROVE  RelInv'
  <1>1. RelTypeOK /\ RelationsAreTold /\ \A d \in Linkers : WritesNext(d) /\ NodesBehind(d)
    BY DEF RelInv
  <1>2. /\ link' = [link EXCEPT ![c] = link'[c]] /\ link'[c] = NoLink /\ NoLink \in LinkTypes
        /\ link[c].edge \in Edges /\ UNCHANGED <<gnode, rel, linkEvents>>
    BY <1>1, FailStep DEF Fails, LinkFails
  <1>3. PICK why \in AnswerKinds \ {"none", "ok"} :
           answer' = [answer EXCEPT ![c] = [kind |-> why, edge |-> link[c].edge,
                                            ver |-> NoRow.ver, props |-> NoRow.props]]
    BY DEF Fails, LinkFails, LinkEnds
  <1>4. /\ \A d \in Linkers \ {c} : link'[d] = link[d] /\ answer'[d] = answer[d]
        /\ link' \in [Linkers -> LinkTypes] /\ answer'[c].kind # "ok"
    BY <1>1, <1>2, <1>3 DEF RelTypeOK
  <1>5. RelTypeOK'
    <2>1. LinksTyped'
      BY <1>1, <1>2, <1>4 DEF LinksTyped, RelTypeOK, NoLink
    <2>2. answer' \in [Linkers -> [kind : AnswerKinds, edge : Edges \cup {<<>>}, ver : Nat,
                                   props : Properties]]
      BY <1>1, <1>2, <1>3, EmptyProperties DEF RelTypeOK, NoRow
    <2> QED BY <1>1, <1>2, <2>1, <2>2 DEF RelTypeOK, LinksTyped
  <1>6. ASSUME NEW d \in Linkers PROVE WritesNext(d)' /\ NodesBehind(d)'
    <2>1. CASE d # c
      BY <1>1, <1>2, <1>4, <2>1 DEF WritesNext, NodesBehind, Made, NoLink
    <2>2. CASE d = c
      BY <1>2, <2>2 DEF WritesNext, NodesBehind, NoLink
    <2> QED BY <2>1, <2>2
  <1>7. RelationsAreTold'
    <2>1. AnswersAreHistory'
      BY <1>1, <1>2, <1>4 DEF RelationsAreTold, AnswersAreHistory
    <2> QED BY <1>1, <1>2, <2>1 DEF RelationsAreTold, RelationHistory
  <1> QED BY <1>5, <1>6, <1>7 DEF RelInv

(* What an event of a relation adds to the history of it.                   *)
LEMMA EventAdded ==
    ASSUME RelTypeOK, RelationHistory, NEW e \in Edges, NEW x, x \notin linkEvents, x.edge = e,
           x.ver = rel[e].ver + 1, linkEvents' = linkEvents \cup {x}
    PROVE  LET es == {y \in linkEvents' : y.edge = e}
           IN  {y.ver : y \in es} = 1..x.ver /\ Cardinality(es) = x.ver
  <1> DEFINE old == {y \in linkEvents : y.edge = e}
             es == {y \in linkEvents' : y.edge = e}
  <1>1. rel[e].ver \in Nat
    BY DEF RelTypeOK, Rows
  <1>2. {y.ver : y \in old} = 1..rel[e].ver /\ Cardinality(old) = rel[e].ver
    BY DEF RelationHistory
  <1>3. es = old \cup {x} /\ x \notin old
    OBVIOUS
  <1>4. IsFiniteSet(old)
    <2>1. old \subseteq linkEvents /\ IsFiniteSet(linkEvents)
      BY DEF RelTypeOK
    <2> QED BY <2>1, FS_Subset
  <1> HIDE DEF old, es
  <1>5. Cardinality(es) = x.ver
    <2>1. Cardinality(old \cup {x}) = Cardinality(old) + 1
      BY <1>3, <1>4, FS_AddElement
    <2>2. Cardinality(old) = rel[e].ver
      BY <1>2
    <2> QED BY <1>3, <2>1, <2>2
  <1>6. {y.ver : y \in es} = {y.ver : y \in old} \cup {x.ver}
    BY <1>3
  <1>7. {y.ver : y \in es} = 1..x.ver
    BY <1>1, <1>2, <1>6
  <1> QED BY <1>5, <1>7 DEF es

(* The events of a relation have versions that its row went through.        *)
LEMMA VersionsInRange ==
    ASSUME RelationHistory
    PROVE  \A e \in Edges : \A y \in linkEvents : y.edge = e => y.ver \in 1..rel[e].ver
  <1> TAKE e \in Edges
  <1>1. {x.ver : x \in {z \in linkEvents : z.edge = e}} = 1..rel[e].ver
    BY DEF RelationHistory
  <1> QED BY <1>1

(* CommitLinkChange: the row, its nodes and its event, at once.             *)
LEMMA CommitNext ==
    ASSUME RelInv, NEW c \in Linkers, CommitLinkChange(c)
    PROVE  RelInv'
  <1> DEFINE e == link[c].edge
             row == link[c].row
             x == [seq |-> Cardinality(linkEvents) + 1, edge |-> e, ver |-> row.ver,
                   props |-> row.props]
  <1>1. /\ RelTypeOK /\ RelationHistory /\ AnswersAreHistory
        /\ \A d \in Linkers : WritesNext(d) /\ NodesBehind(d)
    BY DEF RelInv, RelationsAreTold
  <1>2. /\ link' = [link EXCEPT ![c] = link'[c]] /\ link'[c] = NoLink /\ NoLink \in LinkTypes
        /\ e \in Edges /\ link[c] \in LinkTypes
    BY <1>1, FailStep DEF Commits
  <1>3. /\ link[c].at = "commit"
        /\ gnode' = gnode \cup link[c].made
        /\ rel' = [rel EXCEPT ![e] = row]
        /\ linkEvents' = linkEvents \cup {x}
        /\ answer' = [answer EXCEPT ![c] = [kind |-> "ok", edge |-> e,
                                            ver |-> row.ver, props |-> row.props]]
    BY DEF CommitLinkChange, LinkEnds, Made
  <1>4. row \in Rows /\ row.ver = rel[e].ver + 1 /\ rel[e].ver \in Nat
    BY <1>1, <1>2, <1>3 DEF WritesNext, LinkTypes, RelTypeOK, Rows
  <1>5. /\ \A d \in Linkers \ {c} : link'[d] = link[d] /\ answer'[d] = answer[d]
        /\ link' \in [Linkers -> LinkTypes]
        /\ rel'[e] = row /\ \A f \in Edges \ {e} : rel'[f] = rel[f]
        /\ rel' \in [Edges -> Rows]
    BY <1>1, <1>2, <1>3, <1>4 DEF RelTypeOK
  <1>6. x \in [seq : Nat, edge : Edges, ver : Nat, props : Properties]
    <2>1. Cardinality(linkEvents) \in Nat
      BY <1>1, FS_CardinalityType DEF RelTypeOK
    <2> QED BY <1>2, <1>4, <2>1 DEF Rows
  <1>7. /\ x.edge = e /\ x.ver = row.ver /\ x.props = row.props
        /\ answer'[c].edge = e /\ answer'[c].ver = row.ver /\ answer'[c].props = row.props
    BY <1>1, <1>3 DEF RelTypeOK
  <1>8. x \notin linkEvents
    <2>1. \A y \in linkEvents : y.edge = e => y.ver \in 1..rel[e].ver
      BY <1>1, <1>2, VersionsInRange
    <2> QED BY <1>4, <1>7, <2>1
  <1>9. {e[1], e[2]} \subseteq gnode'
    BY <1>1, <1>3 DEF NodesBehind, Made
  <1> HIDE DEF x
  <1>10. RelTypeOK'
    <2>1. LinksTyped'
      BY <1>1, <1>2, <1>5 DEF LinksTyped, RelTypeOK, NoLink
    <2>2. answer' \in [Linkers -> [kind : AnswerKinds, edge : Edges \cup {<<>>}, ver : Nat,
                                   props : Properties]]
      BY <1>1, <1>2, <1>3, <1>4 DEF RelTypeOK, Rows, AnswerKinds
    <2>3. linkEvents' \subseteq [seq : Nat, edge : Edges, ver : Nat, props : Properties]
      BY <1>1, <1>3, <1>6 DEF RelTypeOK
    <2>4. IsFiniteSet(linkEvents')
      BY <1>1, <1>3, FS_AddElement DEF RelTypeOK
    <2>5. gnode' \subseteq Records
      BY <1>1, <1>2, <1>3 DEF RelTypeOK, LinkTypes
    <2> QED BY <1>5, <2>1, <2>2, <2>3, <2>4, <2>5 DEF RelTypeOK, LinksTyped
  <1> HIDE DEF row, e
  <1>11. ASSUME NEW d \in Linkers PROVE WritesNext(d)' /\ NodesBehind(d)'
    <2>1. CASE d # c
      <3>1. link[d].at = "commit" => link[d].edge # e
        BY <1>1, <1>3, <2>1 DEF WritesNext, e
      <3>2. link[d].at # "idle" => link[d].edge \in Edges
        BY <1>1 DEF RelTypeOK
      <3>3. WritesNext(d)'
        <4>1. link[d].at = "commit" => rel'[link[d].edge] = rel[link[d].edge]
          BY <1>5, <3>1, <3>2
        <4>2. link'[c].at # "commit"
          BY <1>2 DEF NoLink
        <4> QED BY <1>1, <1>5, <2>1, <4>1, <4>2 DEF WritesNext
      <3>4. NodesBehind(d)'
        <4>1. link[d].at = "same" => rel'[link[d].edge].ver > 0
          BY <1>1, <1>4, <1>5, <3>2 DEF NodesBehind
        <4> QED BY <1>1, <1>3, <1>5, <2>1, <4>1 DEF NodesBehind, Made
      <3> QED BY <3>3, <3>4
    <2>2. CASE d = c
      BY <1>2, <2>2 DEF WritesNext, NodesBehind, NoLink
    <2> QED BY <2>1, <2>2
  <1>12. RelationHistory'
    <2>1. ASSUME NEW f \in Edges
          PROVE  LET es == {y \in linkEvents' : y.edge = f}
                 IN  /\ {y.ver : y \in es} = 1..rel'[f].ver
                     /\ Cardinality(es) = rel'[f].ver
                     /\ rel'[f].ver > 0 =>
                          /\ \E y \in es : y.ver = rel'[f].ver /\ y.props = rel'[f].props
                          /\ {f[1], f[2]} \subseteq gnode'
      <3>1. CASE f = e
        <4>1. LET es == {y \in linkEvents' : y.edge = e}
              IN  {y.ver : y \in es} = 1..x.ver /\ Cardinality(es) = x.ver
          BY <1>1, <1>2, <1>3, <1>4, <1>7, <1>8, EventAdded
        <4>2. x \in {y \in linkEvents' : y.edge = e}
          BY <1>3, <1>7
        <4> QED BY <1>5, <1>7, <1>9, <3>1, <4>1, <4>2
      <3>2. CASE f # e
        <4>1. {y \in linkEvents' : y.edge = f} = {y \in linkEvents : y.edge = f}
          BY <1>3, <1>7, <3>2
        <4>2. rel'[f] = rel[f] /\ gnode \subseteq gnode'
          BY <1>3, <1>5, <3>2
        <4> QED BY <1>1, <4>1, <4>2 DEF RelationHistory
      <3> QED BY <3>1, <3>2
    <2> QED BY <2>1 DEF RelationHistory
  <1>13. AnswersAreHistory'
    BY <1>1, <1>3, <1>5, <1>7 DEF AnswersAreHistory
  <1> QED BY <1>10, <1>11, <1>12, <1>13 DEF RelInv, RelationsAreTold

(* CommitLinkNoOp: the nodes, and an answer that tells of the row as it is. *)
LEMMA NoOpNext ==
    ASSUME RelInv, NEW c \in Linkers, CommitLinkNoOp(c)
    PROVE  RelInv'
  <1> DEFINE e == link[c].edge
  <1>1. /\ RelTypeOK /\ RelationHistory /\ AnswersAreHistory
        /\ \A d \in Linkers : WritesNext(d) /\ NodesBehind(d)
    BY DEF RelInv, RelationsAreTold
  <1>2. /\ link' = [link EXCEPT ![c] = link'[c]] /\ link'[c] = NoLink /\ NoLink \in LinkTypes
        /\ e \in Edges /\ link[c] \in LinkTypes
    BY <1>1, FailStep DEF Commits
  <1>3. /\ gnode' = gnode \cup link[c].made /\ rel' = rel /\ linkEvents' = linkEvents
        /\ answer' = [answer EXCEPT ![c] = [kind |-> "ok", edge |-> e,
                                            ver |-> rel[e].ver, props |-> rel[e].props]]
    BY DEF CommitLinkNoOp, LinkEnds, Made
  <1>4. rel[e] \in Rows /\ rel[e].ver > 0
    BY <1>1, <1>2 DEF CommitLinkNoOp, NodesBehind, RelTypeOK
  <1>5. /\ \A d \in Linkers \ {c} : link'[d] = link[d] /\ answer'[d] = answer[d]
        /\ link' \in [Linkers -> LinkTypes]
        /\ answer'[c].edge = e /\ answer'[c].ver = rel[e].ver /\ answer'[c].props = rel[e].props
    BY <1>1, <1>2, <1>3 DEF RelTypeOK
  <1>6. RelTypeOK'
    <2>1. LinksTyped'
      BY <1>1, <1>2, <1>5 DEF LinksTyped, RelTypeOK, NoLink
    <2>2. answer' \in [Linkers -> [kind : AnswerKinds, edge : Edges \cup {<<>>}, ver : Nat,
                                   props : Properties]]
      BY <1>1, <1>2, <1>3, <1>4 DEF RelTypeOK, Rows, AnswerKinds
    <2>3. gnode' \subseteq Records
      BY <1>1, <1>2, <1>3 DEF RelTypeOK, LinkTypes
    <2> QED BY <1>1, <1>3, <2>1, <2>2, <2>3 DEF RelTypeOK, LinksTyped
  <1> HIDE DEF e
  <1>7. ASSUME NEW d \in Linkers PROVE WritesNext(d)' /\ NodesBehind(d)'
    <2>1. CASE d # c
      BY <1>1, <1>2, <1>3, <1>5, <2>1 DEF WritesNext, NodesBehind, Made, NoLink
    <2>2. CASE d = c
      BY <1>2, <2>2 DEF WritesNext, NodesBehind, NoLink
    <2> QED BY <2>1, <2>2
  <1>8. RelationHistory'
    BY <1>1, <1>3 DEF RelationHistory
  <1>9. AnswersAreHistory'
    <2>1. \E y \in linkEvents : y.edge = e /\ y.ver = rel[e].ver /\ y.props = rel[e].props
      BY <1>1, <1>2, <1>4 DEF RelationHistory
    <2> QED BY <1>1, <1>3, <1>5, <2>1 DEF AnswersAreHistory
  <1> QED BY <1>6, <1>7, <1>8, <1>9 DEF RelInv, RelationsAreTold

----------------------------------------------------------------------------
LEMMA RelInvInit == RelInit => RelInv
  <1> SUFFICES ASSUME RelInit PROVE RelInv
    OBVIOUS
  <1>1. NoRow \in Rows /\ NoLink \in LinkTypes /\ NoRow.ver = 0 /\ NoLink.at = "idle"
    BY EmptyProperties DEF NoRow, Rows, NoLink, LinkTypes
  <1>2. NoAnswer \in [kind : AnswerKinds, edge : Edges \cup {<<>>}, ver : Nat, props : Properties]
        /\ NoAnswer.kind # "ok"
    BY EmptyProperties DEF NoAnswer, AnswerKinds
  <1>3. RelTypeOK
    BY <1>1, <1>2, TasksAreRecords, FS_EmptySet DEF RelInit, RelTypeOK
  <1>4. \A c \in Linkers : WritesNext(c) /\ NodesBehind(c)
    BY <1>1 DEF RelInit, WritesNext, NodesBehind, NoLink
  <1>5. RelationHistory
    <2>1. \A e \in Edges : rel[e].ver = 0 /\ {x \in linkEvents : x.edge = e} = {}
      BY <1>1 DEF RelInit
    <2>2. Cardinality({}) = 0 /\ {x.ver : x \in {}} = 1..0
      BY FS_EmptySet
    <2>3. ASSUME NEW e \in Edges, NEW es, es = {x \in linkEvents : x.edge = e}
          PROVE  /\ {x.ver : x \in es} = 1..rel[e].ver /\ Cardinality(es) = rel[e].ver
                 /\ ~(rel[e].ver > 0)
      <3>1. es = {} /\ rel[e].ver = 0
        BY <2>1, <2>3
      <3> QED BY <2>2, <3>1
    <2> QED BY <2>3 DEF RelationHistory
  <1>6. AnswersAreHistory
    BY <1>2 DEF RelInit, AnswersAreHistory
  <1> QED BY <1>3, <1>4, <1>5, <1>6 DEF RelInv, RelationsAreTold

LEMMA RelInvNext == RelInv /\ [RelNext]_relVars => RelInv'
  <1> SUFFICES ASSUME RelInv, [RelNext]_relVars PROVE RelInv'
    OBVIOUS
  <1>1. CASE RelNext
    <2>1. PICK c \in Linkers : Begins(c) \/ Goes(c) \/ Fails(c) \/ Commits(c)
      BY <1>1, LinkSteps DEF RelInv
    <2> QED BY <2>1, UnseenNext, FailNext, CommitNext, NoOpNext DEF Commits
  <1>2. CASE UNCHANGED relVars
    <2>1. UNCHANGED <<gnode, rel, linkEvents, link, answer>>
      BY <1>2 DEF relVars
    <2>2. RelTypeOK' /\ \A c \in Linkers : WritesNext(c)' /\ NodesBehind(c)'
      BY <2>1 DEF RelInv, RelTypeOK, WritesNext, NodesBehind, Made
    <2>3. RelationHistory' /\ AnswersAreHistory'
      BY <2>1 DEF RelInv, RelationsAreTold, RelationHistory, AnswersAreHistory
    <2> QED BY <2>2, <2>3 DEF RelInv, RelationsAreTold
  <1> QED BY <1>1, <1>2

(* Two transactions never hold a row each of the same relation, and a       *)
(* relation's nodes are there when it is.                                   *)
THEOREM RelationsInvariant == RelSpec => []RelInv
  <1> QED BY RelInvInit, RelInvNext, PTL DEF RelSpec

(* Whatever calls of relation_link and task_link_memory meet, wait for each *)
(* other or are cancelled in a deadlock: the events of a relation are its   *)
(* versions, one each, and an answer "ok" tells of one of them.             *)
THEOREM RelationsTellTheirHistory == RelSpec => []RelationsAreTold
  <1>1. RelInv => RelationsAreTold
    BY DEF RelInv
  <1> QED BY <1>1, RelationsInvariant, PTL

----------------------------------------------------------------------------
(* Popularity: what is counted *)

EdgeColumns == {"rel_link", "lineage", "task"}

LEMMA EdgeFacts ==
    ASSUME PopTyped, NEW e \in cites
    PROVE  /\ e.dst \in Cited /\ e.src \in Cited \cup TaskSources
           /\ e.type = "lineage" => e.src \in Cited
           /\ e.src \in Cited => e.src \notin TaskSources
  BY CitationShapes, NodesApart DEF PopTyped

(* Without successors a chain is one memory.                                *)
LEMMA NoChains ==
    ASSUME \A m \in Cited : standing[m].by = m
    PROVE  Chains = {<<m, m>> : m \in Cited}
  <1>1. UNION {Links[m] : m \in Cited} = {}
    BY DEF Links
  <1>2. Chains = {p \in Cited \X Cited : \A S \in SUBSET Cited : p[1] \in S => p[2] \in S}
    BY <1>1 DEF Chains
  <1>3. ASSUME NEW m \in Cited, NEW n \in Cited
        PROVE  (\A S \in SUBSET Cited : m \in S => n \in S) <=> m = n
    <2>1. {m} \in SUBSET Cited /\ m \in {m}
      OBVIOUS
    <2> QED BY <2>1
  <1> QED BY <1>2, <1>3

LEMMA OwnChain == \A m \in Cited : <<m, m>> \in Chains
  BY DEF Chains

LEMMA CitersFinite ==
    ASSUME PopTyped, NEW m, NEW k
    PROVE  /\ IsFiniteSet(CitersOf(m, k)) /\ Cardinality(CitersOf(m, k)) \in Nat
           /\ CitersOf(m, k) \subseteq cites
  <1>1. CitersOf(m, k) \subseteq cites
    BY DEF CitersOf
  <1> QED BY <1>1, FS_Subset, FS_CardinalityType DEF PopTyped

(* What the recount should find is what the triggers keep.                  *)
LEMMA CanonicalCounts ==
    ASSUME PopTyped, TriggersReach, triggered, NEW m \in Cited, NEW k \in EdgeColumns
    PROVE  /\ Canonical[m][k] = Cardinality(CitersOf(m, k))
           /\ k # "lineage" => RelationsOn(m, k, Chains, ActiveOnes) = Cardinality(CitersOf(m, k))
           /\ k = "lineage" => LineageOn(m) = Cardinality(CitersOf(m, k))
  <1>1. \A e \in cites : e.dst = m => <<e.src, m>> \notin Chains
    <2>1. Chains = {<<n, n>> : n \in Cited}
      BY NoChains DEF TriggersReach
    <2> QED BY <2>1 DEF TriggersReach
  <1>2. {e \in cites : /\ e.dst = m /\ Counts(e) /\ Column(e) = k
                       /\ \/ e.src \in TaskSources
                          \/ /\ e.src \in ActiveOnes
                             /\ e.type = "lineage" \/ <<e.src, m>> \notin Chains}
          = CitersOf(m, k)
    BY <1>1 DEF CitersOf
  <1>3. Canonical[m][k] = Cardinality(CitersOf(m, k))
    <2>1. k \in Columns /\ k # "playbook"
      BY DEF EdgeColumns, Columns
    <2> QED BY <1>2, <2>1 DEF Canonical
  <1>4. ASSUME k # "lineage"
        PROVE  {e \in cites : /\ e.type # "lineage" /\ Counts(e) /\ e.dst = m /\ Column(e) = k
                              /\ ~LeftOut(e, Chains, ActiveOnes)} = CitersOf(m, k)
    BY <1>1, <1>4 DEF CitersOf, LeftOut, Column
  <1>5. ASSUME k = "lineage"
        PROVE  {e \in cites : e.type = "lineage" /\ e.dst = m /\ e.src \in ActiveOnes}
                 = CitersOf(m, k)
    <2>1. \A e \in cites : /\ e.type = "lineage" => e.src \notin TaskSources
                           /\ Column(e) = "lineage" <=> e.type = "lineage"
                           /\ e.type = "lineage" => Counts(e)
      BY EdgeFacts DEF Column, Counts
    <2> QED BY <1>5, <2>1 DEF CitersOf
  <1> QED BY <1>3, <1>4, <1>5 DEF RelationsOn, LineageOn

----------------------------------------------------------------------------
(* Popularity: callers and triggers *)

\* A caller changes something.
Calls == \/ \E e \in Citations : Cite(e)
         \/ \E m \in Cited, to \in {"stale", "retired", "active"} : ChangeStatus(m, to)
         \/ \E m, n \in Cited : Supersede(m, n)
         \/ \E m \in Cited : HardDelete(m)

StandingTyped ==
    /\ standing = [m \in Cited |-> standing[m]]
    /\ \A m \in Cited : /\ DOMAIN standing[m] = {"status", "by", "ver"}
                        /\ standing[m].status \in {"active", "stale", "retired", "superseded", "gone"}

LEMMA CallsTyped ==
    ASSUME PopTyped, Calls
    PROVE  PopTyped' /\ quiet' = FALSE
  <1>1. quiet' = FALSE /\ UNCHANGED <<pass, scored>>
    BY DEF Calls, Cite, ChangeStatus, Supersede, HardDelete, EditCites
  <1>2. cites' \subseteq Citations /\ IsFiniteSet(cites')
    <2>1. CASE \E e \in Citations : Cite(e)
      BY <2>1, FS_AddElement DEF Cite, PopTyped
    <2>2. CASE cites' \subseteq cites
      BY <2>2, FS_Subset DEF PopTyped
    <2> QED BY <2>1, <2>2 DEF Calls, ChangeStatus, Supersede, HardDelete
  <1>3. DOMAIN counted' = Cited /\ \A m \in Cited : DOMAIN counted'[m] = Columns
    <2>1. CASE \E e \in Citations : Cite(e)
      <3>1. PICK e \in Citations : counted' = BumpOnInsert(e)
        BY <2>1 DEF Cite
      <3>2. CASE Counts(e)
        <4>1. counted' = [counted EXCEPT ![e.dst] = [counted[e.dst] EXCEPT ![Column(e)] =
                                                        counted[e.dst][Column(e)] + 1]]
          BY <3>1, <3>2 DEF BumpOnInsert
        <4> QED BY <4>1 DEF PopTyped
      <3>3. CASE ~Counts(e)
        BY <3>1, <3>3 DEF BumpOnInsert, PopTyped
      <3> QED BY <3>2, <3>3
    <2>2. CASE \E m, to : counted' = BumpOnFlip(m, to)
      BY <2>2 DEF BumpOnFlip
    <2>3. CASE \E x : counted' = [DropOnCascade(x) EXCEPT ![x] = Zero]
      BY <2>3 DEF DropOnCascade, Zero
    <2> QED BY <2>1, <2>2, <2>3 DEF Calls, ChangeStatus, Supersede, HardDelete
  <1>4. StandingTyped'
    <2>1. CASE \E e \in Citations : Cite(e)
      BY <2>1 DEF Cite, PopTyped, StandingTyped
    <2>2. ASSUME NEW m \in Cited, NEW to \in {"stale", "retired", "active"}, ChangeStatus(m, to)
          PROVE  StandingTyped'
      BY <2>2 DEF ChangeStatus, PopTyped, StandingTyped
    <2>3. ASSUME NEW m \in Cited, NEW n \in Cited, Supersede(m, n)
          PROVE  StandingTyped'
      BY <2>3 DEF Supersede, PopTyped, StandingTyped
    <2>4. ASSUME NEW m \in Cited, HardDelete(m)
          PROVE  StandingTyped'
      BY <2>4 DEF HardDelete, PopTyped, StandingTyped
    <2> QED BY <2>1, <2>2, <2>3, <2>4 DEF Calls
  <1> QED BY <1>1, <1>2, <1>3, <1>4 DEF PopTyped, StandingTyped

(* The insert trigger counts the new edge.                                  *)
LEMMA CiteReaches ==
    ASSUME PopTyped, TriggersReach, PopTyped', NEW e \in Citations, Cite(e)
    PROVE  TriggersReach'
  <1> SUFFICES ASSUME triggered' PROVE TriggersReach'
    BY DEF TriggersReach
  <1>1. /\ triggered /\ e.src \in TaskSources \cup ActiveOnes /\ <<e.src, e.dst>> \notin Chains
        /\ e \notin cites /\ cites' = cites \cup {e} /\ counted' = BumpOnInsert(e)
        /\ UNCHANGED standing
    BY DEF Cite
  <1>2. ActiveOnes' = ActiveOnes
    BY <1>1 DEF ActiveOnes, Standing
  <1>3. e.dst \in Cited /\ e.src # e.dst
    <2>1. e.dst \in Cited
      BY CitationShapes
    <2> QED BY <1>1, <2>1, OwnChain
  <1>4. ASSUME NEW m \in Cited, NEW k \in EdgeColumns
        PROVE  counted'[m][k] = Cardinality(CitersOf(m, k)')
    <2>1. counted[m][k] = Cardinality(CitersOf(m, k)) /\ k \in Columns
      BY <1>1 DEF TriggersReach, EdgeColumns, Columns
    <2>2. CASE Counts(e) /\ e.dst = m /\ Column(e) = k
      <3>1. CitersOf(m, k)' = CitersOf(m, k) \cup {e} /\ e \notin CitersOf(m, k)
        BY <1>1, <1>2, <2>2 DEF CitersOf, Counts, Column
      <3>2. Cardinality(CitersOf(m, k) \cup {e}) = Cardinality(CitersOf(m, k)) + 1
        BY <3>1, CitersFinite, FS_AddElement
      <3>3. counted'[m][k] = counted[m][k] + 1
        BY <1>1, <2>1, <2>2 DEF BumpOnInsert, PopTyped
      <3> QED BY <2>1, <3>1, <3>2, <3>3
    <2>3. CASE ~(Counts(e) /\ e.dst = m /\ Column(e) = k)
      <3>1. CitersOf(m, k)' = CitersOf(m, k)
        BY <1>1, <1>2, <2>3 DEF CitersOf, Counts, Column
      <3>2. counted'[m][k] = counted[m][k]
        BY <1>1, <1>3, <2>1, <2>3 DEF BumpOnInsert, PopTyped
      <3> QED BY <2>1, <3>1, <3>2
    <2> QED BY <2>2, <2>3
  <1>5. \A m \in Cited : standing'[m].by = m /\ Standing(m)' \in {"active", "retired"}
    BY <1>1 DEF TriggersReach, Standing
  <1>6. \A x \in cites' : x.src # x.dst
    BY <1>1, <1>3 DEF TriggersReach
  <1>7. Columns \ {"playbook"} = EdgeColumns
    BY DEF Columns, EdgeColumns
  <1> QED BY <1>4, <1>5, <1>6, <1>7 DEF TriggersReach

(* The status trigger takes off all edges of a memory that ends.            *)
LEMMA StatusReaches ==
    ASSUME PopTyped, TriggersReach, NEW x \in Cited, NEW to \in {"stale", "retired", "active"},
           ChangeStatus(x, to)
    PROVE  TriggersReach'
  <1> SUFFICES ASSUME triggered' PROVE TriggersReach'
    BY DEF TriggersReach
  <1>1. triggered /\ Standing(x) = "active" /\ to = "retired"
    <2>1. triggered' = (triggered /\ "stale" \notin {Standing(x), to}) /\ to \in Moves[Standing(x)]
      BY DEF ChangeStatus
    <2>2. triggered /\ to # "stale"
      BY <2>1
    <2>3. Standing(x) \in {"active", "retired"}
      BY <2>2 DEF TriggersReach
    <2>4. Moves["active"] = {"stale", "retired"} /\ Moves["retired"] = {}
      BY DEF Moves
    <2> QED BY <2>1, <2>2, <2>3, <2>4
  <1>2. /\ standing' = [standing EXCEPT ![x].status = "retired", ![x].ver = @ + 1]
        /\ counted' = BumpOnFlip(x, to) /\ UNCHANGED cites
    BY <1>1 DEF ChangeStatus
  <1>3. /\ \A m \in Cited : standing'[m].by = standing[m].by
        /\ \A m \in Cited : m # x => Standing(m)' = Standing(m)
        /\ Standing(x)' = "retired"
    BY <1>2 DEF PopTyped, Standing
  <1>4. ActiveOnes' = ActiveOnes \ {x} /\ x \in ActiveOnes /\ x \notin TaskSources
    BY <1>1, <1>3, NodesApart DEF ActiveOnes
  <1>5. ASSUME NEW m \in Cited, NEW k \in EdgeColumns
        PROVE  counted'[m][k] = Cardinality(CitersOf(m, k)')
    <2> DEFINE F == {e \in cites : e.src = x /\ e.dst = m /\ Counts(e) /\ Column(e) = k}
    <2>1. counted[m][k] = Cardinality(CitersOf(m, k)) /\ k \in Columns
      BY <1>1 DEF TriggersReach, EdgeColumns, Columns
    <2>2. F \subseteq CitersOf(m, k) /\ CitersOf(m, k)' = CitersOf(m, k) \ F
      BY <1>2, <1>4 DEF CitersOf, Counts, Column
    <2>3. counted'[m][k] = Less(counted[m][k], Cardinality(F))
      BY <1>1, <1>2, <2>1 DEF BumpOnFlip, FlipBy, Fan
    <2> HIDE DEF F
    <2>4. IsFiniteSet(CitersOf(m, k)) /\ Cardinality(CitersOf(m, k)) \in Nat
      BY CitersFinite
    <2>5. Cardinality(F) \in Nat /\ Cardinality(F) <= Cardinality(CitersOf(m, k))
      BY <2>2, <2>4, FS_Subset, FS_CardinalityType
    <2>6. CitersOf(m, k) \cap F = F
      BY <2>2
    <2>7. Cardinality(CitersOf(m, k) \ F) = Cardinality(CitersOf(m, k)) - Cardinality(F)
      BY <2>4, <2>6, FS_Difference
    <2> QED BY <2>1, <2>2, <2>3, <2>4, <2>5, <2>7 DEF Less
  <1>6. \A m \in Cited : standing'[m].by = m /\ Standing(m)' \in {"active", "retired"}
    BY <1>1, <1>3 DEF TriggersReach
  <1>7. \A e \in cites' : e.src # e.dst
    BY <1>1, <1>2 DEF TriggersReach
  <1>8. Columns \ {"playbook"} = EdgeColumns
    BY DEF Columns, EdgeColumns
  <1> QED BY <1>5, <1>6, <1>7, <1>8 DEF TriggersReach

(* A caller disturbs the pass, and the triggers follow as far as they reach. *)
LEMMA CallsKeep ==
    ASSUME PopInv, Calls
    PROVE  PopInv'
  <1>1. PopTyped' /\ quiet' = FALSE
    BY CallsTyped DEF PopInv
  <1>2. TriggersReach'
    <2>1. CASE ~triggered'
      BY <2>1 DEF TriggersReach
    <2> QED BY <1>1, <2>1, CiteReaches, StatusReaches
            DEF Calls, Supersede, HardDelete, PopInv
  <1> QED BY <1>1, <1>2 DEF PopInv, QuietCounts, QuietScores

----------------------------------------------------------------------------
(* Popularity: the pass *)

LEMMA PopInvInit == PopInit => PopInv
  <1> SUFFICES ASSUME PopInit PROVE PopInv
    OBVIOUS
  <1>1. PopTyped
    BY FS_EmptySet DEF PopInit, PopTyped, NoPass, Zero
  <1>2. TriggersReach
    <2>1. \A m \in Cited : \A k \in Columns : CitersOf(m, k) = {} /\ counted[m][k] = 0
      BY DEF PopInit, CitersOf, Zero
    <2> QED BY <2>1, FS_EmptySet DEF TriggersReach, PopInit, Standing
  <1> QED BY <1>1, <1>2 DEF PopInv, PopInit, QuietCounts, QuietScores, NoPass

\* The statements of the pass that only read.
Reads == \/ BeginRecount \/ LoadActive \/ CountRelations \/ CountLineage \/ CountMacros
         \/ LoadTargets \/ EndRecount

LEMMA ReadsKeep ==
    ASSUME PopInv, Reads
    PROVE  PopInv'
  <1>1. PopTyped /\ TriggersReach /\ QuietCounts /\ QuietScores
    BY DEF PopInv
  <1>2. UNCHANGED <<standing, cites, counted, scored, triggered>>
    BY DEF Reads, BeginRecount, LoadActive, CountRelations, CountLineage, CountMacros,
           LoadTargets, EndRecount, PassGoes
  <1>3. ActiveOnes' = ActiveOnes /\ Chains' = Chains
    BY <1>2 DEF ActiveOnes, Standing, Chains, Links
  <1>4. \A m, k : CitersOf(m, k)' = CitersOf(m, k)
    BY <1>2, <1>3 DEF CitersOf, Counts, Column
  <1>5. /\ \A m, k : RelationsOn(m, k, Chains, ActiveOnes)' = RelationsOn(m, k, Chains, ActiveOnes)
        /\ \A m : LineageOn(m)' = LineageOn(m)
    BY <1>2, <1>3 DEF RelationsOn, LineageOn, Counts, Column, LeftOut
  <1>6. TriggersReach'
    BY <1>1, <1>2, <1>4 DEF TriggersReach, Standing
  <1>7. CASE BeginRecount
    <2>1. pass' = [NoPass EXCEPT !.at = "active", !.chain = Chains]
      BY <1>7 DEF BeginRecount, PassGoes
    <2>2. /\ pass'.at = "active" /\ pass'.chain = Chains /\ pass'.adjusted = {} /\ pass'.targets = {}
          /\ DOMAIN pass' = DOMAIN NoPass /\ pass'.want = NoPass.want
      BY <2>1 DEF NoPass
    <2>3. PopTyped'
      BY <1>1, <1>2, <2>2 DEF PopTyped, NoPass, Zero
    <2> QED BY <1>3, <1>6, <2>2, <2>3 DEF PopInv, QuietCounts, QuietScores
  <1>8. CASE LoadActive
    <2>1. pass' = [pass EXCEPT !.at = "relations", !.active = ActiveOnes] /\ UNCHANGED quiet
          /\ pass.at = "active"
      BY <1>8 DEF LoadActive, PassGoes
    <2>2. /\ pass'.at = "relations" /\ pass'.active = ActiveOnes /\ pass'.chain = pass.chain
          /\ DOMAIN pass' = DOMAIN pass /\ pass'.want = pass.want /\ pass'.adjusted = pass.adjusted
          /\ pass'.targets = pass.targets
      BY <1>1, <2>1 DEF PopTyped
    <2>3. PopTyped'
      BY <1>1, <1>2, <2>2 DEF PopTyped
    <2> QED BY <1>1, <1>3, <1>6, <2>1, <2>2, <2>3 DEF PopInv, QuietCounts, QuietScores
  <1>9. CASE CountRelations
    <2> DEFINE w == [m \in Cited |->
            [pass.want[m] EXCEPT !.rel_link = RelationsOn(m, "rel_link", pass.chain, pass.active),
                                 !.task = RelationsOn(m, "task", pass.chain, pass.active)]]
    <2>1. pass' = [pass EXCEPT !.at = "lineage", !.want = w] /\ UNCHANGED quiet
          /\ pass.at = "relations"
      BY <1>9 DEF CountRelations, PassGoes
    <2>2. /\ DOMAIN w = Cited
          /\ \A m \in Cited :
                /\ DOMAIN w[m] = Columns
                /\ \A k \in {"rel_link", "task"} :
                      w[m][k] = RelationsOn(m, k, pass.chain, pass.active)
      BY <1>1 DEF PopTyped, Columns
    <2> HIDE DEF w
    <2>3. /\ pass'.at = "lineage" /\ pass'.active = pass.active /\ pass'.chain = pass.chain
          /\ DOMAIN pass' = DOMAIN pass /\ pass'.want = w /\ pass'.adjusted = pass.adjusted
          /\ pass'.targets = pass.targets
      BY <1>1, <2>1 DEF PopTyped
    <2>4. PopTyped'
      BY <1>1, <1>2, <2>2, <2>3 DEF PopTyped
    <2>5. QuietCounts'
      <3> SUFFICES ASSUME quiet PROVE QuietCounts'
        BY <2>1 DEF QuietCounts
      <3>1. pass.chain = Chains /\ pass.active = ActiveOnes
        BY <1>1, <2>1 DEF QuietCounts
      <3> QED BY <1>3, <1>5, <2>2, <2>3, <3>1 DEF QuietCounts
    <2> QED BY <1>6, <2>3, <2>4, <2>5 DEF PopInv, QuietScores
  <1>10. CASE CountLineage
    <2> DEFINE w == [m \in Cited |-> [pass.want[m] EXCEPT !.lineage = LineageOn(m)]]
    <2>1. pass' = [pass EXCEPT !.at = "macros", !.want = w] /\ UNCHANGED quiet
          /\ pass.at = "lineage"
      BY <1>10 DEF CountLineage, PassGoes
    <2>2. /\ DOMAIN w = Cited
          /\ \A m \in Cited :
                /\ DOMAIN w[m] = Columns /\ w[m]["lineage"] = LineageOn(m)
                /\ \A k \in {"rel_link", "task"} : w[m][k] = pass.want[m][k]
      BY <1>1 DEF PopTyped, Columns
    <2> HIDE DEF w
    <2>3. /\ pass'.at = "macros" /\ pass'.active = pass.active /\ pass'.chain = pass.chain
          /\ DOMAIN pass' = DOMAIN pass /\ pass'.want = w /\ pass'.adjusted = pass.adjusted
          /\ pass'.targets = pass.targets
      BY <1>1, <2>1 DEF PopTyped
    <2>4. PopTyped'
      BY <1>1, <1>2, <2>2, <2>3 DEF PopTyped
    <2>5. QuietCounts'
      <3> SUFFICES ASSUME quiet PROVE QuietCounts'
        BY <2>1 DEF QuietCounts
      <3>1. /\ pass.chain = Chains /\ pass.active = ActiveOnes
            /\ \A m \in Cited : \A k \in {"rel_link", "task"} :
                  pass.want[m][k] = RelationsOn(m, k, Chains, ActiveOnes)
        BY <1>1, <2>1 DEF QuietCounts
      <3> QED BY <1>3, <1>5, <2>2, <2>3, <3>1 DEF QuietCounts
    <2> QED BY <1>6, <2>3, <2>4, <2>5 DEF PopInv, QuietScores
  <1>11. CASE CountMacros
    <2> DEFINE w == [m \in Cited |-> [pass.want[m] EXCEPT !.playbook = MacrosOn(m, pass.active)]]
    <2>1. pass' = [pass EXCEPT !.at = "apply", !.want = w] /\ UNCHANGED quiet
          /\ pass.at = "macros"
      BY <1>11 DEF CountMacros, PassGoes
    <2>2. /\ DOMAIN w = Cited
          /\ \A m \in Cited :
                /\ DOMAIN w[m] = Columns
                /\ \A k \in EdgeColumns : w[m][k] = pass.want[m][k]
      BY <1>1 DEF PopTyped, Columns, EdgeColumns
    <2> HIDE DEF w
    <2>3. /\ pass'.at = "apply" /\ pass'.active = pass.active /\ pass'.chain = pass.chain
          /\ DOMAIN pass' = DOMAIN pass /\ pass'.want = w /\ pass'.adjusted = pass.adjusted
          /\ pass'.targets = pass.targets
      BY <1>1, <2>1 DEF PopTyped
    <2>4. PopTyped'
      BY <1>1, <1>2, <2>2, <2>3 DEF PopTyped
    <2>5. QuietCounts'
      <3> SUFFICES ASSUME quiet PROVE QuietCounts'
        BY <2>1 DEF QuietCounts
      <3>1. /\ pass.chain = Chains /\ pass.active = ActiveOnes
            /\ \A m \in Cited : \A k \in {"rel_link", "task"} :
                  pass.want[m][k] = RelationsOn(m, k, Chains, ActiveOnes)
            /\ \A m \in Cited : pass.want[m]["lineage"] = LineageOn(m)
        BY <1>1, <2>1 DEF QuietCounts
      <3> QED BY <1>3, <1>5, <2>2, <2>3, <3>1 DEF QuietCounts, EdgeColumns
    <2> QED BY <1>6, <2>3, <2>4, <2>5 DEF PopInv, QuietScores
  <1>12. CASE LoadTargets
    <2> DEFINE v == [m \in Cited |-> standing[m].ver]
               t == pass.targets \cap ActiveOnes
    <2>1. pass' = [pass EXCEPT !.at = "rescore", !.targets = t, !.vers = v, !.want = counted]
          /\ UNCHANGED quiet /\ pass.at = "load"
      BY <1>12 DEF LoadTargets, PassGoes
    <2>2. \A m \in Cited : v[m] = standing[m].ver
      OBVIOUS
    <2>3. t = pass.targets \cap ActiveOnes /\ ActiveOnes \subseteq Cited
      BY DEF ActiveOnes
    <2> HIDE DEF v, t
    <2>4. /\ pass'.at = "rescore" /\ pass'.targets = t /\ pass'.vers = v /\ pass'.want = counted
          /\ DOMAIN pass' = DOMAIN pass /\ pass'.adjusted = pass.adjusted
      BY <1>1, <2>1 DEF PopTyped
    <2>5. PopTyped'
      BY <1>1, <1>2, <2>3, <2>4 DEF PopTyped
    <2>6. QuietScores'
      <3> SUFFICES ASSUME quiet PROVE QuietScores'
        BY <2>1 DEF QuietScores
      <3>1. pass.targets = pass.adjusted
        BY <1>1, <2>1 DEF QuietScores
      <3> QED BY <1>2, <1>3, <2>2, <2>3, <2>4, <3>1 DEF QuietScores
    <2> QED BY <1>6, <2>4, <2>5, <2>6 DEF PopInv, QuietCounts
  <1>13. CASE EndRecount
    <2>1. pass' = [NoPass EXCEPT !.adjusted = pass.adjusted, !.conflict = pass.conflict]
          /\ UNCHANGED quiet /\ pass.at = "rescore" /\ pass.targets = {}
      BY <1>13 DEF EndRecount, PassGoes
    <2>2. /\ pass'.at = "idle" /\ pass'.adjusted = pass.adjusted /\ pass'.targets = {}
          /\ DOMAIN pass' = DOMAIN NoPass /\ pass'.want = NoPass.want
      BY <2>1 DEF NoPass
    <2>3. PopTyped'
      BY <1>1, <1>2, <2>2 DEF PopTyped, NoPass, Zero
    <2>4. QuietScores'
      BY <1>1, <1>2, <1>3, <2>1, <2>2 DEF QuietScores
    <2> QED BY <1>6, <2>2, <2>3, <2>4 DEF PopInv, QuietCounts
  <1> QED BY <1>7, <1>8, <1>9, <1>10, <1>11, <1>12, <1>13 DEF Reads

(* The counters that the pass writes are those of its own reading.          *)
LEMMA ApplyKeeps ==
    ASSUME PopInv, ApplyCounters
    PROVE  PopInv'
  <1>1. PopTyped /\ TriggersReach /\ QuietCounts /\ QuietScores
    BY DEF PopInv
  <1>2. /\ pass.at = "apply" /\ UNCHANGED <<standing, cites, scored, quiet>>
        /\ triggered' = (triggered /\ quiet)
        /\ counted' = [m \in Cited |-> IF m \in Drifted THEN pass.want[m] ELSE counted[m]]
    BY DEF ApplyCounters
  <1>3. /\ pass'.at = "load" /\ pass'.targets = Drifted /\ pass'.adjusted = Drifted
        /\ DOMAIN pass' = DOMAIN pass /\ pass'.want = pass.want
    BY <1>1 DEF ApplyCounters, PopTyped, Rescored
  <1>4. Drifted \subseteq Cited
    BY DEF Drifted
  <1>5. PopTyped'
    BY <1>1, <1>2, <1>3, <1>4 DEF PopTyped
  <1>6. ActiveOnes' = ActiveOnes
    BY <1>2 DEF ActiveOnes, Standing
  <1>7. \A m, k : CitersOf(m, k)' = CitersOf(m, k)
    BY <1>2, <1>6 DEF CitersOf, Counts, Column
  <1>8. TriggersReach'
    <2> SUFFICES ASSUME triggered, quiet PROVE TriggersReach'
      BY <1>2 DEF TriggersReach
    <2>1. ASSUME NEW m \in Cited, NEW k \in EdgeColumns
          PROVE  counted'[m][k] = Cardinality(CitersOf(m, k))
      <3>1. pass.want[m][k] = Cardinality(CitersOf(m, k))
        <4>1. k = "lineage" => pass.want[m][k] = LineageOn(m)
          BY <1>1, <1>2 DEF QuietCounts
        <4>2. k # "lineage" => pass.want[m][k] = RelationsOn(m, k, Chains, ActiveOnes)
          BY <1>1, <1>2 DEF QuietCounts, EdgeColumns
        <4> QED BY <1>1, <4>1, <4>2, CanonicalCounts
      <3>2. counted[m][k] = Cardinality(CitersOf(m, k))
        BY <1>1 DEF TriggersReach, EdgeColumns, Columns
      <3> QED BY <1>2, <3>1, <3>2
    <2>2. Columns \ {"playbook"} = EdgeColumns
      BY DEF Columns, EdgeColumns
    <2>3. \A m \in Cited : standing'[m].by = m /\ Standing(m)' \in {"active", "retired"}
      BY <1>1, <1>2 DEF TriggersReach, Standing
    <2>4. \A e \in cites' : e.src # e.dst
      BY <1>1, <1>2 DEF TriggersReach
    <2> QED BY <1>7, <2>1, <2>2, <2>3, <2>4 DEF TriggersReach
  <1> QED BY <1>3, <1>5, <1>8 DEF PopInv, QuietCounts, QuietScores

(* A rescored row has the counters it was read with.                        *)
LEMMA RescoreKeeps ==
    ASSUME PopInv, NEW x \in Cited, Rescore(x)
    PROVE  PopInv'
  <1>1. PopTyped /\ TriggersReach /\ QuietCounts /\ QuietScores
    BY DEF PopInv
  <1>2. /\ pass.at = "rescore" /\ x \in pass.targets
        /\ UNCHANGED <<cites, counted, triggered, quiet>>
        /\ pass' = [pass EXCEPT !.targets = @ \ {x}]
             \/ pass' = [pass EXCEPT !.targets = @ \ {x}, !.conflict = TRUE]
    BY DEF Rescore
  <1>3. /\ pass'.at = "rescore" /\ pass'.targets = pass.targets \ {x}
        /\ pass'.vers = pass.vers /\ pass'.want = pass.want
        /\ pass'.adjusted = pass.adjusted /\ DOMAIN pass' = DOMAIN pass
    BY <1>1, <1>2 DEF PopTyped
  <1>4. /\ \A m \in Cited : /\ standing'[m].status = standing[m].status
                            /\ standing'[m].by = standing[m].by
                            /\ DOMAIN standing'[m] = DOMAIN standing[m]
                            /\ m # x => standing'[m].ver = standing[m].ver
        /\ standing' = [m \in Cited |-> standing'[m]]
    BY <1>1 DEF Rescore, PopTyped
  <1>5. /\ DOMAIN scored' = Cited
        /\ \A m \in Cited : m # x => scored'[m] = scored[m]
        /\ standing[x].ver = pass.vers[x] => scored'[x] = pass.want[x]
    BY <1>1 DEF Rescore, PopTyped
  <1>6. ActiveOnes' = ActiveOnes
    BY <1>4 DEF ActiveOnes, Standing
  <1>7. \A m, k : CitersOf(m, k)' = CitersOf(m, k)
    BY <1>2, <1>6 DEF CitersOf, Counts, Column
  <1>8. TriggersReach'
    BY <1>1, <1>2, <1>4, <1>7 DEF TriggersReach, Standing
  <1>9. PopTyped'
    BY <1>1, <1>2, <1>3, <1>4, <1>5 DEF PopTyped
  <1>10. QuietScores'
    <2> SUFFICES ASSUME quiet PROVE QuietScores'
      BY <1>2 DEF QuietScores
    <2>1. /\ \A m \in pass.targets : pass.vers[m] = standing[m].ver /\ pass.want[m] = counted[m]
          /\ \A m \in pass.adjusted \cap ActiveOnes : scored[m] = counted[m] \/ m \in pass.targets
      BY <1>1, <1>2 DEF QuietScores
    <2>2. scored'[x] = counted'[x]
      BY <1>2, <1>5, <2>1
    <2>3. \A m \in pass'.targets : pass'.vers[m] = standing'[m].ver /\ pass'.want[m] = counted'[m]
      <3> SUFFICES ASSUME NEW m \in pass.targets, m # x
                   PROVE  pass.vers[m] = standing'[m].ver /\ pass.want[m] = counted[m]
        BY <1>2, <1>3
      <3>1. standing'[m].ver = standing[m].ver
        BY <1>1, <1>4 DEF PopTyped
      <3> QED BY <2>1, <3>1
    <2>4. \A m \in pass'.adjusted \cap ActiveOnes' :
             scored'[m] = counted'[m] \/ m \in pass'.targets
      BY <1>1, <1>2, <1>3, <1>5, <1>6, <2>1, <2>2 DEF PopTyped
    <2> QED BY <1>3, <2>3, <2>4 DEF QuietScores
  <1> QED BY <1>3, <1>8, <1>9, <1>10 DEF PopInv, QuietCounts

LEMMA PopInvNext == PopInv /\ [PopNext]_popVars => PopInv'
  <1> SUFFICES ASSUME PopInv, [PopNext]_popVars PROVE PopInv'
    OBVIOUS
  <1>1. CASE UNCHANGED popVars
    <2>1. ActiveOnes' = ActiveOnes /\ Chains' = Chains
      BY <1>1 DEF popVars, ActiveOnes, Standing, Chains, Links
    <2>2. \A m, k : CitersOf(m, k)' = CitersOf(m, k)
      BY <1>1, <2>1 DEF popVars, CitersOf, Counts, Column
    <2>3. /\ \A m, k : RelationsOn(m, k, Chains, ActiveOnes)' = RelationsOn(m, k, Chains, ActiveOnes)
          /\ \A m : LineageOn(m)' = LineageOn(m)
      BY <1>1, <2>1 DEF popVars, RelationsOn, LineageOn, Counts, Column, LeftOut
    <2> QED BY <1>1, <2>1, <2>2, <2>3
            DEF popVars, PopInv, PopTyped, TriggersReach, QuietCounts, QuietScores, Standing
  <1>2. CASE Calls
    BY <1>2, CallsKeep
  <1>3. CASE Reads
    BY <1>3, ReadsKeep
  <1>4. CASE ApplyCounters
    BY <1>4, ApplyKeeps
  <1>5. CASE \E m \in Cited : Rescore(m)
    BY <1>5, RescoreKeeps
  <1> QED BY <1>1, <1>2, <1>3, <1>4, <1>5 DEF PopNext, Recounts, Calls, Reads

(* While the triggers reach, each column is the number of its edges; an     *)
(* undisturbed pass has counted what there is and scores what it adjusts.   *)
THEOREM PopularityInvariant == PopSpec => []PopInv
  <1> QED BY PopInvInit, PopInvNext, PTL DEF PopSpec

(* The counters of citations are exact as far as the triggers of migration  *)
(* 0017 reach, and a pass that nothing disturbed leaves no adjusted active  *)
(* row with the salience of its old counters (recount.py).                  *)
THEOREM CountersStaySound == PopSpec => []CountersAreSound
  <1>1. PopInv => CountersAreSound
    <2> SUFFICES ASSUME PopInv PROVE TriggersAreExact /\ AdjustedIsRescored
      BY DEF CountersAreSound
    <2>1. PopTyped /\ TriggersReach /\ QuietScores
      BY DEF PopInv
    <2>2. TriggersAreExact
      <3> SUFFICES ASSUME triggered, NEW m \in Cited, NEW k \in Columns \ {"playbook"}
                   PROVE  counted[m][k] = Canonical[m][k]
        BY DEF TriggersAreExact
      <3>1. k \in EdgeColumns
        BY DEF Columns, EdgeColumns
      <3>2. counted[m][k] = Cardinality(CitersOf(m, k))
        BY <2>1 DEF TriggersReach
      <3> QED BY <2>1, <3>1, <3>2, CanonicalCounts
    <2>3. AdjustedIsRescored
      BY <2>1 DEF QuietScores, AdjustedIsRescored
    <2> QED BY <2>2, <2>3
  <1> QED BY <1>1, PopularityInvariant, PTL

=============================================================================
