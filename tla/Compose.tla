------------------------------ MODULE Compose ------------------------------
(***************************************************************************)
(* mem_compose (composers.py: several sources, one new memory),            *)
(* mem_decompose (decomposers.py: one source, several new ones) and the    *)
(* auto-wired edges of what they make (autowire.py).                       *)
(*                                                                         *)
(* A call locks its sources in the order of their ids, looks its dedupe    *)
(* key up, and only then validates, so that a retry of a call whose        *)
(* sources are over by now is answered with what the first one made.       *)
(***************************************************************************)
EXTENDS Naturals, FiniteSets

CONSTANTS
    Composers,    \* concurrent calls
    Sources,      \* memories there at first
    MaxMemories,  \* bound: memory ids
    MaxCompositions,\* bound: calls begun
    Requests,     \* bound: requests [op, srcs] that callers make
    MaxOthers,    \* bound: changes by others
    CallerKeys    \* idempotency keys that callers choose

MemIds == 1..MaxMemories
ComposeOps == {"merge", "promote"}

ASSUME SourcesAreIds == Sources \subseteq MemIds
ASSUME ComposeBounds == {MaxMemories, MaxCompositions, MaxOthers} \subseteq Nat
ASSUME RequestShapes ==
    \A r \in Requests : /\ r.op \in ComposeOps \cup {"split", "derive"} /\ r.srcs \subseteq MemIds
                        /\ IF r.op \in ComposeOps THEN Cardinality(r.srcs) = 2
                                                  ELSE Cardinality(r.srcs) = 1

VARIABLES
    cmem,          \* cmem[m]: committed status, and what superseded it (0: nothing)
    descent,       \* committed memory_lineage rows <<parent, child, relation>>
    claims,        \* committed dedupe keys: [table, key, req, made]
    wired,         \* committed related_to_popular relations <<src, dst>>
    composer,      \* composer[c]: the transaction of call c
    replies,       \* answers: [table, key, req, made, srcs]
    compositions,  \* calls so far
    others         \* changes by others so far

compVars == <<cmem, descent, claims, wired, composer, replies, compositions, others>>

NoComposition == [at |-> "idle", req |-> [op |-> "none", srcs |-> {}], key |-> <<>>,
                  locked |-> {}, near |-> {}]

Table(r) == IF r.op \in ComposeOps THEN "memories" ELSE "decompose_operations"
Free == {m \in MemIds : cmem[m].status = "none"}
Needs(r) == IF r.op \in ComposeOps THEN 1 ELSE 2
\* The ids of new rows, in order.
Fresh(n) == {m \in Free : Cardinality({x \in Free : x < m}) < n}

\* The dedupe key: the caller's, or a hash of the request.
DedupeKey(k, r) == IF k = "none" THEN <<"hash", r>> ELSE <<"caller", k>>

Claim(t, k) == {x \in claims : x.table = t /\ x.key = k}

----------------------------------------------------------------------------
(* Stage A of auto-wire, before the transaction *)

Ancestors(S) ==
    {a \in MemIds : \A T \in SUBSET MemIds :
        S \subseteq T /\ (\A e \in descent : e[2] \in T => e[1] \in T) => a \in T}

\* Active neighbours that are neither a source nor an ancestor of one.
Candidates(S) == {m \in MemIds : cmem[m].status = "active"} \ Ancestors(S)

\* autowire_top_k = 1, scores falling with the id; none where stage A fails.
Nearest(S) == {m \in S : \A x \in S : m <= x}

----------------------------------------------------------------------------
(* The call *)

BeginComposition(c, r, k) ==
    /\ composer[c] = NoComposition /\ compositions < MaxCompositions
    /\ \E near \in {{}, Nearest(Candidates(r.srcs))} :
          composer' = [composer EXCEPT ![c] = [at |-> "lock", req |-> r, key |-> DedupeKey(k, r),
                                               locked |-> {}, near |-> near]]
    /\ compositions' = compositions + 1
    /\ UNCHANGED <<cmem, descent, claims, wired, replies, others>>

ComposerEnds(c) == composer' = [composer EXCEPT ![c] = NoComposition]

RowLocks == UNION {composer[d].locked : d \in Composers}

\* Mutant: the rows are locked in any order.
NextToLock_Any(c) == composer[c].req.srcs \ composer[c].locked

\* _lock_memories: SELECT ... ORDER BY id FOR UPDATE.
NextToLock(c) ==
    LET left == composer[c].req.srcs \ composer[c].locked
    IN  {m \in left : \A x \in left : m <= x}

LockSource(c) ==
    /\ composer[c].at = "lock"
    /\ \E m \in NextToLock(c) :
          /\ m \notin RowLocks
          /\ composer' = [composer EXCEPT
                ![c].locked = @ \cup {m},
                ![c].at = IF composer[c].req.srcs \subseteq composer[c].locked \cup {m}
                          THEN "locked" ELSE "lock"]
    /\ UNCHANGED <<cmem, descent, claims, wired, replies, compositions, others>>

ParentsOf(m) == {e[1] : e \in {x \in descent : x[2] = m}}
RelationsOf(m) == {e[3] : e \in {x \in descent : x[2] = m}}
RelationOf(op) == CASE op = "merge" -> "supersedes"      [] op = "promote" -> "promoted_from"
                    [] op = "split" -> "split_from"      [] op = "derive"  -> "derived_from"

Reply(t, k, r, made, srcs) == [table |-> t, key |-> k, req |-> r, made |-> made, srcs |-> srcs]

\* The answer again, or InvalidInputError (nothing but the end of the call).
Answer(c, x, fits, srcs) ==
    /\ replies' = IF ~fits THEN replies
                  ELSE replies \cup {Reply(x.table, x.key, composer[c].req, x.made, srcs)}
    /\ ComposerEnds(c)
    /\ UNCHANGED <<cmem, descent, claims, wired, compositions, others>>

\* Mutant: the mode is not compared.
SameMode_Any(x, r) == TRUE

\* _reconstruct_replay_from_lineage: the mode is read off the lineage, and a
\* lineage of two kinds has none.
SameMode(x, r) == \A m \in x.made : RelationsOf(m) = {RelationOf(r.op)}

ReplayCompose(c) ==
    /\ composer[c].at = "locked" /\ composer[c].req.op \in ComposeOps
    /\ \E x \in Claim("memories", composer[c].key) :
          Answer(c, x, SameMode(x, composer[c].req), UNION {ParentsOf(m) : m \in x.made})

\* decompose_operations keeps a fingerprint of the request.
SameScope(x, r) == x.req = r

ReplayDecompose(c) ==
    /\ composer[c].at = "locked" /\ composer[c].req.op \notin ComposeOps
    /\ \E x \in Claim("decompose_operations", composer[c].key) :
          Answer(c, x, SameScope(x, composer[c].req), x.req.srcs)

Usable(r) == \A m \in r.srcs : cmem[m].status \in {"active", "stale"}

\* InvalidTransitionError: a source is over.
RefuseSources(c) ==
    /\ composer[c].at = "locked"
    /\ Claim(Table(composer[c].req), composer[c].key) = {}
    /\ ~Usable(composer[c].req)
    /\ ComposerEnds(c)
    /\ UNCHANGED <<cmem, descent, claims, wired, replies, compositions, others>>

Claimed(t, k) ==
    \E d \in Composers : /\ composer[d].at = "claimed" /\ composer[d].key = k
                         /\ Table(composer[d].req) = t

\* INSERT of the row that carries the key; it waits for one of another
\* transaction, and replays if that one commits.
ClaimKey(c) ==
    LET t == Table(composer[c].req)
    IN  /\ composer[c].at = "locked"
        /\ Claim(t, composer[c].key) = {} /\ Usable(composer[c].req)
        /\ ~Claimed(t, composer[c].key)
        /\ composer' = [composer EXCEPT ![c].at = "claimed"]
        /\ UNCHANGED <<cmem, descent, claims, wired, replies, compositions, others>>

\* Stage B: the candidates are not looked at again.
AutoWire(c, made) == wired \cup (made \X composer[c].near)

\* New rows, lineage, ended sources and auto-wired edges, in one commit.
CommitNew(c, ended) ==
    LET r == composer[c].req
        made == Fresh(Needs(r))
    IN  /\ composer[c].at = "claimed" /\ Cardinality(made) = Needs(r)
        /\ cmem' = [m \in MemIds |-> IF m \in made THEN [status |-> "active", by |-> 0]
                                     ELSE IF m \in r.srcs THEN ended[m] ELSE cmem[m]]
        /\ descent' = descent \cup {<<p, m, RelationOf(r.op)>> : p \in r.srcs, m \in made}
        /\ claims' = claims \cup {[table |-> Table(r), key |-> composer[c].key, req |-> r,
                                   made |-> made]}
        /\ wired' = AutoWire(c, made)
        /\ replies' = replies \cup {Reply(Table(r), composer[c].key, r, made, r.srcs)}
        /\ ComposerEnds(c)
        /\ UNCHANGED <<compositions, others>>

\* merge: the sources are superseded by the new memory; promote: they stay.
CommitCompose(c) ==
    /\ composer[c].req.op \in ComposeOps
    /\ CommitNew(c, [m \in MemIds |->
          IF composer[c].req.op = "promote" THEN cmem[m]
          ELSE [status |-> "superseded", by |-> CHOOSE x \in Fresh(1) : TRUE]])

\* split: the source is retired; derive: it stays.
CommitDecompose(c) ==
    /\ composer[c].req.op \in {"split", "derive"}
    /\ CommitNew(c, [m \in MemIds |->
          IF composer[c].req.op = "derive" THEN cmem[m] ELSE [status |-> "retired", by |-> 0]])

\* An error before the commit: rolled back.
AbortComposition(c) ==
    /\ composer[c].at = "claimed"
    /\ ComposerEnds(c)
    /\ UNCHANGED <<cmem, descent, claims, wired, replies, compositions, others>>

----------------------------------------------------------------------------
(* Others *)

OtherChange == others < MaxOthers /\ others' = others + 1

\* A status change of an unlocked row (memory_update).
RetireMemory(m) ==
    /\ m \in Sources \ RowLocks /\ cmem[m].status = "active"
    /\ cmem' = [cmem EXCEPT ![m].status = "retired"]
    /\ OtherChange
    /\ UNCHANGED <<descent, claims, wired, composer, replies, compositions>>

\* An accepted merge proposal: m is superseded by keep (dream/api.py).
CurateMerge(keep, m) ==
    /\ keep # m /\ {keep, m} \cap RowLocks = {}
    /\ cmem[keep].status = "active" /\ cmem[m].status = "active"
    /\ cmem' = [cmem EXCEPT ![m] = [status |-> "superseded", by |-> keep]]
    /\ descent' = descent \cup {<<m, keep, "supersedes">>}
    /\ OtherChange
    /\ UNCHANGED <<claims, wired, composer, replies, compositions>>

----------------------------------------------------------------------------
CompInit ==
    /\ cmem = [m \in MemIds |-> [status |-> IF m \in Sources THEN "active" ELSE "none", by |-> 0]]
    /\ descent = {} /\ claims = {} /\ wired = {}
    /\ composer = [c \in Composers |-> NoComposition]
    /\ replies = {}
    /\ compositions = 0
    /\ others = 0

Composes(c) ==
    \/ LockSource(c)    \/ ReplayCompose(c) \/ ReplayDecompose(c) \/ RefuseSources(c)
    \/ ClaimKey(c)      \/ CommitCompose(c) \/ CommitDecompose(c) \/ AbortComposition(c)

CompNext ==
    \/ \E c \in Composers :
          \/ \E r \in Requests, k \in CallerKeys \cup {"none"} : BeginComposition(c, r, k)
          \/ Composes(c)
    \/ \E m \in MemIds : RetireMemory(m)
    \/ \E keep, m \in MemIds : CurateMerge(keep, m)

(* A transaction goes on when what it waits for is there; Postgres queues   *)
(* the waiters of a row lock.                                               *)
CompFairness == \A c \in Composers : SF_compVars(Composes(c))
CompSpec == CompInit /\ [][CompNext]_compVars /\ CompFairness

----------------------------------------------------------------------------
(* Properties *)

(* A retry gets the first answer again: for one dedupe key all answers name *)
(* the same new memories, those of mem_decompose made by the same request   *)
(* and those of mem_compose by a request of the same kind and from at least *)
(* the same sources (merges accepted since add to their lineage).           *)
RepliesAgree ==
    \A x \in replies, z \in claims :
        x.table = z.table /\ x.key = z.key =>
            /\ x.made = z.made /\ z.req.srcs \subseteq x.srcs
            /\ x.req.op = z.req.op
            /\ x.table = "decompose_operations" => x.req = z.req

(* No memory ends twice: of the calls that supersede or retire a source one *)
(* went through, and the memory knows which.                                *)
SourcesEndOnce ==
    \A s \in MemIds :
        LET ends == {e \in descent : e[1] = s /\ e[3] \in {"supersedes", "split_from"}}
        IN  /\ Cardinality({e[3] : e \in ends}) <= 1
            /\ \A e \in ends : e[3] = "supersedes" =>
                    cmem[s] = [status |-> "superseded", by |-> e[2]]

(* A new memory is auto-wired to neighbours, never to what it was made of,  *)
(* though the neighbours were looked up before the transaction.             *)
WiredOutside == \A x \in claims : wired \cap (x.made \X x.req.srcs) = {}

(* A composition happens once whatever is retried, ends a source at most    *)
(* once, and is wired to others than its sources (composers.py).            *)
CompositionsHappenOnce == RepliesAgree /\ SourcesEndOnce /\ WiredOutside

(* The inductive invariant behind the proofs (ComposeProofs).               *)
Keys == {DedupeKey(k, r) : k \in CallerKeys \cup {"none"}, r \in Requests}
Transactions == [at : {"idle", "lock", "locked", "claimed"},
                 req : Requests \cup {NoComposition.req}, key : Keys \cup {<<>>},
                 locked : SUBSET MemIds, near : SUBSET MemIds]
CompTypeOK ==
    /\ cmem \in [MemIds -> [status : {"none", "active", "superseded", "retired"}, by : Nat]]
    /\ composer \in [Composers -> Transactions]
    /\ \A c \in Composers : IF composer[c].at = "idle" THEN composer[c] = NoComposition
                                                      ELSE composer[c].req \in Requests

(* A call locks its sources, all of them before it validates, and each row  *)
(* is locked once; what stage A found is none of the sources.               *)
SourcesLocked(c) ==
    /\ composer[c].locked \subseteq composer[c].req.srcs
    /\ composer[c].at \in {"locked", "claimed"} => composer[c].req.srcs \subseteq composer[c].locked
    /\ \A d \in Composers \ {c} : composer[d].locked \cap composer[c].locked = {}
    /\ composer[c].near \cap composer[c].req.srcs = {}

(* A row with a dedupe key that is not committed yet is the only one with   *)
(* that key, and the sources of its call are still to be had.               *)
ClaimIsNew(c) ==
    composer[c].at = "claimed" =>
        /\ Usable(composer[c].req)
        /\ Claim(Table(composer[c].req), composer[c].key) = {}
        /\ \A d \in Composers :
              /\ composer[d].at = "claimed" /\ composer[d].key = composer[c].key
              /\ Table(composer[d].req) = Table(composer[c].req)
              => d = c

(* A committed composition: its new memories exist and descend from every   *)
(* source in its own way, and its key is its own.                           *)
ClaimsAreMade ==
    \A z \in claims :
        /\ z.req \in Requests /\ z.table = Table(z.req)
        /\ z.made # {} /\ z.made \subseteq MemIds \ Free
        /\ \A p \in z.req.srcs, m \in z.made : <<p, m, RelationOf(z.req.op)>> \in descent
        /\ \A x \in claims : x.table = z.table /\ x.key = z.key => x = z
RepliesAreOfClaims ==
    \A x \in replies : \E z \in claims : x.table = z.table /\ x.key = z.key

(* What the lineage says of an ended source is what its row says.           *)
EndsAreTold ==
    \A e \in descent :
        /\ e[1] \in MemIds
        /\ e[3] = "supersedes" => cmem[e[1]] = [status |-> "superseded", by |-> e[2]]
        /\ e[3] = "split_from" => cmem[e[1]].status = "retired"
WiresFromMade == \A w \in wired : w[1] \in MemIds \ Free

CompInv == /\ CompTypeOK
           /\ \A c \in Composers : SourcesLocked(c) /\ ClaimIsNew(c)
           /\ ClaimsAreMade /\ RepliesAreOfClaims /\ EndsAreTold /\ WiresFromMade
           /\ RepliesAgree /\ WiredOutside
=============================================================================
