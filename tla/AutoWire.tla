------------------------------ MODULE AutoWire ------------------------------
(***************************************************************************)
(* The auto-wired edges of mem_decompose (autowire.py, decomposers.py):    *)
(* before the transaction every piece of the source is searched for        *)
(* popular neighbours (stage A), in the transaction each piece is linked   *)
(* to its own, in a savepoint of its own (stage B), and a retry is         *)
(* answered with the links there are by then.                              *)
(***************************************************************************)
EXTENDS Integers, FiniteSets

CONSTANTS
    Pieces,        \* the children of the request, by index
    Neighbours,    \* memories of the environment, by id
    Origin,        \* the source
    Elders,        \* its lineage ancestors
    Salience,      \* Salience[m]
    Similarity,    \* Similarity[c][m]
    SimThreshold,  \* autowire_sim_threshold
    PullLimit,     \* autowire_candidate_limit
    PieceTopK,     \* autowire_decompose_per_child_top_k
    TotalCap,      \* autowire_decompose_total_cap
    MaxMeddling    \* bound: steps of others

\* _autowire_invariants
ASSUME CapsFit == PieceTopK <= PullLimit /\ PieceTopK <= TotalCap
ASSUME WiringShapes ==
    /\ IsFiniteSet(Pieces) /\ Pieces \subseteq Nat
    /\ IsFiniteSet(Neighbours) /\ Neighbours \subseteq Nat
    /\ Salience \in [Neighbours -> Nat] /\ Similarity \in [Pieces -> [Neighbours -> Nat]]
    /\ {PieceTopK, TotalCap} \subseteq Nat
ASSUME OneSource == Origin \in Neighbours /\ Elders \subseteq Neighbours

VARIABLES
    life,        \* life[m]: committed status of a neighbour
    indexed,     \* neighbours whose point in qdrant says active
    pieceLinks,  \* committed related_to_popular relations <<piece, neighbour>>
    wiring,      \* the call
    answered,    \* its answers: [links, replay]
    meddling     \* steps of others so far

wireVars == <<life, indexed, pieceLinks, wiring, answered, meddling>>

PiecePairs == Pieces \X Neighbours
Score(p) == Salience[p[2]] * Similarity[p[1]][p[2]]

\* (combined_score DESC, dst_id DESC, child_idx ASC)
Better(p, q) ==
    \/ Score(p) > Score(q)
    \/ Score(p) = Score(q) /\ (p[2] > q[2] \/ (p[2] = q[2] /\ p[1] < q[1]))

Best(n, S) == {p \in S : Cardinality({q \in S : Better(q, p)}) < n}

----------------------------------------------------------------------------
(* Stage A *)

Ranked(S) == {m \in S : Cardinality({x \in S : Salience[x] > Salience[m]
                                  \/ (Salience[x] = Salience[m] /\ x > m)}) < PullLimit}

\* The most salient active memories; the limit comes before the source and
\* its ancestors are left out.
Pulled == Ranked({m \in Neighbours : life[m] = "active"}) \ (Elders \cup {Origin})

Degraded == [c \in Pieces |-> {}]

\* The pieces that are searched for are no playbooks, no directives and not
\* blank: any of them.
Suited == (SUBSET Pieces) \ {{}}

\* An embedder that fails, or nothing to search for, leaves no candidates.
BeginWiring ==
    /\ wiring.at = "start"
    /\ \E suited \in Suited :
          \/ /\ Pulled # {}
             /\ wiring' = [wiring EXCEPT !.at = "search", !.pulled = Pulled, !.todo = suited]
          \/ wiring' = [wiring EXCEPT !.at = "wire", !.pulled = Pulled, !.todo = Pieces]
    /\ UNCHANGED <<life, indexed, pieceLinks, answered, meddling>>

SearchLimit == IF PullLimit > 2 * PieceTopK THEN PullLimit ELSE 2 * PieceTopK

\* The most similar active points, without those below the threshold.
Similar(c) ==
    {m \in indexed : /\ Similarity[c][m] >= SimThreshold
                     /\ Cardinality({x \in indexed : Similarity[c][x] > Similarity[c][m]})
                            < SearchLimit}

\* One search of asyncio.gather: it fails, or finds what the index says.
SearchPiece(c) ==
    /\ wiring.at = "search" /\ c \in wiring.todo
    /\ \/ wiring' = [wiring EXCEPT !.todo = @ \ {c}, !.hits[c] = Similar(c), !.heard = @ \cup {c}]
       \/ wiring' = [wiring EXCEPT !.todo = @ \ {c}]
    /\ UNCHANGED <<life, indexed, pieceLinks, answered, meddling>>

Eligible == {p \in wiring.heard \X wiring.pulled : p[2] \in wiring.hits[p[1]]}

\* Per piece the best few, ...
TopOfPiece == UNION {Best(PieceTopK, {p \in Eligible : p[1] = c}) : c \in Pieces}

\* ... and the best of these where they are too many.
Capped == Best(TotalCap, TopOfPiece)

\* Nothing at all where every search failed: the same as none found.
RankPieces ==
    /\ wiring.at = "search" /\ wiring.todo = {}
    /\ wiring' = [wiring EXCEPT !.at = "wire", !.todo = Pieces,
                     !.near = [c \in Pieces |-> {m \in Neighbours : <<c, m>> \in Capped}]]
    /\ UNCHANGED <<life, indexed, pieceLinks, answered, meddling>>

----------------------------------------------------------------------------
(* Stage B *)

\* _ensure_graph_node: a neighbour deleted since is left out; its status is
\* not looked at again.
Wired(c) == {c} \X {m \in wiring.near[c] : life[m] # "gone"}

\* Mutant: no savepoint, so what was linked before the error stays.
RolledBack_Kept(part) == part

RolledBack(part) == {}

\* Each piece in its savepoint: linked, or the error undoes its links only.
WirePiece(c) ==
    /\ wiring.at = "wire" /\ c \in wiring.todo /\ \A x \in wiring.todo : c <= x
    /\ \/ wiring' = [wiring EXCEPT !.todo = @ \ {c}, !.fresh = @ \cup Wired(c),
                                   !.told[c] = {p[2] : p \in Wired(c)}]
       \/ \E part \in SUBSET Wired(c) :
             wiring' = [wiring EXCEPT !.todo = @ \ {c}, !.fresh = @ \cup RolledBack(part),
                                      !.broke = @ \cup {c}]
    /\ UNCHANGED <<life, indexed, pieceLinks, answered, meddling>>

\* The commit, and the first answer: what each savepoint returned.
CommitPieces ==
    /\ wiring.at = "wire" /\ wiring.todo = {}
    /\ wiring' = [wiring EXCEPT !.at = "made"]
    /\ pieceLinks' = pieceLinks \cup wiring.fresh
    /\ answered' = answered \cup {[links |-> wiring.told, replay |-> FALSE]}
    /\ UNCHANGED <<life, indexed, meddling>>

LinksOf(c) == {m \in Neighbours : <<c, m>> \in pieceLinks}

\* A retry: reconstruct_auto_wired_by_child reads the links there are now.
ReplayWiring ==
    /\ wiring.at = "made"
    /\ answered' = answered \cup {[links |-> [c \in Pieces |-> LinksOf(c)], replay |-> TRUE]}
    /\ UNCHANGED <<life, indexed, pieceLinks, wiring, meddling>>

----------------------------------------------------------------------------
(* Others *)

Meddle == meddling < MaxMeddling /\ meddling' = meddling + 1 /\ UNCHANGED answered

\* memory_update or delete of a neighbour; its links go with the row.
EndNeighbour(m) ==
    /\ \E to \in {"retired", "gone"} :
          /\ life[m] # "gone" /\ life[m] # to
          /\ life' = [life EXCEPT ![m] = to]
          /\ pieceLinks' = IF to = "gone" THEN {p \in pieceLinks : p[2] # m} ELSE pieceLinks
    /\ Meddle /\ UNCHANGED <<indexed, wiring>>

\* The projection catches up.
IndexNeighbour(m) ==
    /\ m \in indexed /\ life[m] # "active"
    /\ indexed' = indexed \ {m}
    /\ UNCHANGED <<life, pieceLinks, wiring, answered, meddling>>

\* relation_link of a related_to_popular relation.
LinkPiece(p) ==
    /\ wiring.at = "made" /\ life[p[2]] # "gone" /\ p \notin pieceLinks
    /\ pieceLinks' = pieceLinks \cup {p}
    /\ Meddle /\ UNCHANGED <<life, indexed, wiring>>

----------------------------------------------------------------------------
WireInit ==
    /\ life = [m \in Neighbours |-> "active"]
    /\ indexed = Neighbours
    /\ pieceLinks = {}
    /\ wiring = [at |-> "start", pulled |-> {}, todo |-> {}, heard |-> {},
                 hits |-> Degraded, near |-> Degraded, fresh |-> {}, told |-> Degraded,
                 broke |-> {}]
    /\ answered = {}
    /\ meddling = 0

WireNext ==
    \/ BeginWiring \/ RankPieces \/ CommitPieces \/ ReplayWiring
    \/ \E c \in Pieces : SearchPiece(c) \/ WirePiece(c)
    \/ \E m \in Neighbours : EndNeighbour(m) \/ IndexNeighbour(m)
    \/ \E p \in PiecePairs : LinkPiece(p)

WireSpec == WireInit /\ [][WireNext]_wireVars

----------------------------------------------------------------------------
(* Properties *)

(* The caps drop the worst candidates: a candidate of a piece that was      *)
(* searched is left out only where its piece has as many better ones as it  *)
(* may have, or where all pieces together have as many better ones as the   *)
(* total allows; and no more than the total are kept.                       *)
CapsDropTheWorst ==
    wiring.at = "wire" =>
        LET kept == {p \in PiecePairs : p[2] \in wiring.near[p[1]]}
        IN  /\ Cardinality(kept) <= TotalCap
            /\ kept # {} => \A p \in Eligible \ kept :
                  LET better == {q \in Eligible : Better(q, p)}
                  IN  \/ Cardinality({q \in better : q[1] = p[1]}) >= PieceTopK
                      \/ Cardinality(kept \cap better) = TotalCap

(* The first answer is what was committed: every piece with the pieceLinks its *)
(* savepoint made, and none for a piece whose savepoint was rolled back,       *)
(* whatever became of the pieces before it.                                    *)
FirstAnswerIsCommitted ==
    [][wiring.at = "wire" /\ wiring'.at = "made" =>
          \A a \in answered' : \A c \in Pieces :
              /\ a.links[c] = {m \in Neighbours : <<c, m>> \in pieceLinks'}
              /\ c \in wiring.broke => a.links[c] = {}]_wireVars

(* mem_decompose wires each piece to the best neighbours within the caps,   *)
(* and its answer is what it committed (decomposers.py).                    *)
PiecesAreWiredWell == []CapsDropTheWorst /\ FirstAnswerIsCommitted

(* The inductive invariant behind the proofs (ComposeProofs).               *)
WiringTyped ==
    /\ DOMAIN wiring = {"at", "pulled", "todo", "heard", "hits", "near", "fresh", "told", "broke"}
    /\ wiring.at \in {"start", "search", "wire", "made"}
    /\ wiring.pulled \subseteq Neighbours /\ wiring.heard \subseteq Pieces
    /\ wiring.told \in [Pieces -> SUBSET Neighbours] /\ wiring.fresh \subseteq PiecePairs

(* A piece is linked to the candidates that were kept, or to none.          *)
NearIsCapped ==
    \/ wiring.near = Degraded
    \/ wiring.at = "made"
    \/ /\ wiring.at = "wire"
       /\ wiring.near = [c \in Pieces |-> {m \in Neighbours : <<c, m>> \in Capped}]

(* Every piece was told the links its savepoint made, the pieces to come    *)
(* and the broken ones none.                                                *)
SavepointsAreTold ==
    /\ wiring.at \in {"start", "search"} =>
          wiring.fresh = {} /\ wiring.told = Degraded /\ wiring.broke = {}
    /\ wiring.at # "made" => pieceLinks = {} /\ answered = {}
    /\ wiring.at = "wire" => \A c \in Pieces :
          /\ wiring.told[c] = {m \in Neighbours : <<c, m>> \in wiring.fresh}
          /\ c \in wiring.todo => c \notin wiring.broke
          /\ c \in wiring.todo \cup wiring.broke => wiring.told[c] = {}

WireInv == WiringTyped /\ NearIsCapped /\ SavepointsAreTold
=============================================================================
