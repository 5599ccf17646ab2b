---------------------------- MODULE ComposeProofs ----------------------------
(***************************************************************************)
(* Proofs about Compose, for any calls, sources, requests and keys, and    *)
(* about AutoWire, for any pieces, neighbours, scores and caps.            *)
(***************************************************************************)
EXTENDS Compose, AutoWire, FiniteSetTheorems, WellFoundedInduction, TLAPS

----------------------------------------------------------------------------
(* Requests and what they make *)

LEMMA RequestFacts ==
    \A r \in Requests : /\ r.op \in {"merge", "promote", "split", "derive"}
                        /\ r.srcs \subseteq MemIds /\ r.srcs # {}
  BY RequestShapes, FS_EmptySet DEF ComposeOps

\* The mode of a replay can be read off the lineage.
LEMMA RelationsDiffer ==
    \A o, p \in {"merge", "promote", "split", "derive"} : RelationOf(o) = RelationOf(p) => o = p
  BY DEF RelationOf

\* A new memory has an id that was free; a composition makes one.
LEMMA MadeFacts ==
    ASSUME NEW r \in Requests, Cardinality(Fresh(Needs(r))) = Needs(r)
    PROVE  /\ Fresh(Needs(r)) \subseteq Free /\ Fresh(Needs(r)) # {}
           /\ r.op \in ComposeOps => Fresh(Needs(r)) = {CHOOSE x \in Fresh(1) : TRUE}
  <1>1. Fresh(Needs(r)) \subseteq Free
    BY DEF Fresh
  <1>2. Fresh(Needs(r)) # {}
    BY FS_EmptySet DEF Needs
  <1>3. ASSUME r.op \in ComposeOps PROVE Fresh(Needs(r)) = {CHOOSE x \in Fresh(1) : TRUE}
    <2>1. Needs(r) = 1
      BY <1>3 DEF Needs
    <2>2. IsFiniteSet(MemIds)
      BY ComposeBounds, FS_Interval DEF MemIds
    <2>3. IsFiniteSet(Fresh(1))
      BY <2>2, FS_Subset DEF Fresh, Free
    <2>4. \E x : Fresh(1) = {x}
      BY <2>1, <2>3, FS_Singleton
    <2> QED BY <2>1, <2>4
  <1> QED BY <1>1, <1>2, <1>3

----------------------------------------------------------------------------
(* One call moves *)

CallsInv == CompTypeOK /\ \A c \in Composers : SourcesLocked(c) /\ ClaimIsNew(c)
TablesInv == /\ ClaimsAreMade /\ RepliesAreOfClaims /\ EndsAreTold /\ WiresFromMade
             /\ RepliesAgree /\ WiredOutside

\* A transaction: idle, or about a request.
IsTransaction(t) ==
    /\ t \in Transactions
    /\ IF t.at = "idle" THEN t = NoComposition ELSE t.req \in Requests

LEMMA OneMoves ==
    ASSUME CallsInv, NEW c \in Composers, composer' = [composer EXCEPT ![c] = composer'[c]],
           IsTransaction(composer'[c]), cmem' = cmem, claims' = claims,
           SourcesLocked(c)', ClaimIsNew(c)'
    PROVE  CallsInv'
  <1>1. /\ CompTypeOK /\ \A d \in Composers : SourcesLocked(d) /\ ClaimIsNew(d)
        /\ composer \in [Composers -> Transactions]
    BY DEF CallsInv, CompTypeOK
  <1>2. /\ \A d \in Composers \ {c} : composer'[d] = composer[d]
        /\ composer' \in [Composers -> Transactions]
    BY <1>1 DEF IsTransaction
  <1>3. CompTypeOK'
    <2>1. \A d \in Composers : IF composer'[d].at = "idle" THEN composer'[d] = NoComposition
                                                           ELSE composer'[d].req \in Requests
      BY <1>1, <1>2 DEF CompTypeOK, IsTransaction
    <2> QED BY <1>1, <1>2, <2>1 DEF CompTypeOK
  <1>4. ASSUME NEW d \in Composers \ {c} PROVE SourcesLocked(d)' /\ ClaimIsNew(d)'
    <2>1. composer'[d] = composer[d] /\ SourcesLocked(d) /\ ClaimIsNew(d)
      BY <1>1, <1>2
    <2>2. composer'[c].locked \cap composer'[d].locked = {}
      BY <1>4 DEF SourcesLocked
    <2>3. SourcesLocked(d)'
      BY <1>2, <1>4, <2>1, <2>2 DEF SourcesLocked
    <2>4. /\ composer'[d].at = "claimed" /\ composer'[c].at = "claimed"
          /\ composer'[c].key = composer'[d].key
          /\ Table(composer'[c].req) = Table(composer'[d].req)
          => d = c
      BY <1>4 DEF ClaimIsNew
    <2>5. ClaimIsNew(d)'
      BY <1>2, <1>4, <2>1, <2>4 DEF ClaimIsNew, Usable, Claim
    <2> QED BY <2>3, <2>5
  <1> QED BY <1>3, <1>4 DEF CallsInv

(* A call that has ended holds nothing.                                     *)
LEMMA CallEnds ==
    ASSUME CallsInv, NEW c \in Composers, ComposerEnds(c)
    PROVE  /\ composer' = [composer EXCEPT ![c] = composer'[c]]
           /\ composer'[c] = NoComposition /\ IsTransaction(composer'[c])
           /\ SourcesLocked(c)' /\ ClaimIsNew(c)'
  <1>1. composer' = [composer EXCEPT ![c] = NoComposition] /\ composer'[c] = NoComposition
    BY DEF ComposerEnds, CallsInv, CompTypeOK
  <1>2. IsTransaction(NoComposition)
    BY DEF IsTransaction, Transactions, NoComposition
  <1>3. SourcesLocked(c)' /\ ClaimIsNew(c)'
    BY <1>1 DEF SourcesLocked, ClaimIsNew, NoComposition
  <1> QED BY <1>1, <1>2, <1>3

(* Stage A finds no source, so nothing is wired to what it is made of.      *)
LEMMA BeginNext ==
    ASSUME CallsInv, NEW c \in Composers, NEW r \in Requests, NEW k \in CallerKeys \cup {"none"},
           BeginComposition(c, r, k)
    PROVE  CallsInv'
  <1>1. PICK near \in {{}, Nearest(Candidates(r.srcs))} :
           composer' = [composer EXCEPT ![c] = [at |-> "lock", req |-> r, key |-> DedupeKey(k, r),
                                                locked |-> {}, near |-> near]]
    BY DEF BeginComposition
  <1>2. composer'[c] = [at |-> "lock", req |-> r, key |-> DedupeKey(k, r),
                        locked |-> {}, near |-> near]
    BY <1>1 DEF CallsInv, CompTypeOK
  <1>3. near \subseteq MemIds /\ near \cap r.srcs = {}
    <2>1. r.srcs \subseteq Ancestors(r.srcs)
      BY RequestFacts DEF Ancestors
    <2> QED BY <2>1 DEF Nearest, Candidates
  <1>4. IsTransaction(composer'[c])
    BY <1>2, <1>3 DEF IsTransaction, Transactions, Keys
  <1>5. SourcesLocked(c)' /\ ClaimIsNew(c)'
    BY <1>2, <1>3 DEF SourcesLocked, ClaimIsNew
  <1> QED BY <1>1, <1>2, <1>4, <1>5, OneMoves DEF BeginComposition

(* _lock_memories: a row that nobody else holds.                            *)
LEMMA LockNext ==
    ASSUME CallsInv, NEW c \in Composers, LockSource(c)
    PROVE  CallsInv'
  <1>1. PICK m \in NextToLock(c) :
           /\ m \notin RowLocks
           /\ composer' = [composer EXCEPT
                 ![c].locked = @ \cup {m},
                 ![c].at = IF composer[c].req.srcs \subseteq composer[c].locked \cup {m}
                           THEN "locked" ELSE "lock"]
    BY DEF LockSource
  <1>2. /\ composer[c] \in Transactions /\ composer \in [Composers -> Transactions]
        /\ composer[c].at = "lock" /\ composer[c].req \in Requests /\ SourcesLocked(c)
    BY DEF LockSource, CallsInv, CompTypeOK
  <1>3. m \in composer[c].req.srcs /\ m \in MemIds
    BY <1>2, RequestFacts DEF NextToLock
  <1>4. PICK at \in {"lock", "locked"} :
           /\ composer'[c] = [at |-> at, req |-> composer[c].req, key |-> composer[c].key,
                              locked |-> composer[c].locked \cup {m}, near |-> composer[c].near]
           /\ at = "locked" => composer[c].req.srcs \subseteq composer[c].locked \cup {m}
    BY <1>1, <1>2 DEF Transactions
  <1>5. composer' = [composer EXCEPT ![c] = composer'[c]]
    BY <1>1, <1>2
  <1>6. IsTransaction(composer'[c])
    BY <1>2, <1>3, <1>4 DEF IsTransaction, Transactions
  <1>7. \A d \in Composers \ {c} : composer'[d] = composer[d] /\ m \notin composer[d].locked
    BY <1>1, <1>2, <1>5 DEF RowLocks
  <1>8. SourcesLocked(c)' /\ ClaimIsNew(c)'
    BY <1>2, <1>3, <1>4, <1>7 DEF SourcesLocked, ClaimIsNew
  <1> QED BY <1>5, <1>6, <1>8, OneMoves DEF LockSource

(* The row that carries the key is inserted by one transaction at a time.   *)
LEMMA ClaimNext ==
    ASSUME CallsInv, NEW c \in Composers, ClaimKey(c)
    PROVE  CallsInv'
  <1>1. /\ composer' = [composer EXCEPT ![c].at = "claimed"]
        /\ composer[c].at = "locked" /\ cmem' = cmem /\ claims' = claims
        /\ Claim(Table(composer[c].req), composer[c].key) = {} /\ Usable(composer[c].req)
        /\ ~Claimed(Table(composer[c].req), composer[c].key)
    BY DEF ClaimKey
  <1>2. /\ composer[c] \in Transactions /\ composer \in [Composers -> Transactions]
        /\ composer[c].req \in Requests /\ SourcesLocked(c)
    BY <1>1 DEF CallsInv, CompTypeOK
  <1>3. composer'[c] = [at |-> "claimed", req |-> composer[c].req, key |-> composer[c].key,
                        locked |-> composer[c].locked, near |-> composer[c].near]
    BY <1>1, <1>2 DEF Transactions
  <1>4. composer' = [composer EXCEPT ![c] = composer'[c]]
    BY <1>1, <1>2
  <1>5. \A d \in Composers \ {c} : composer'[d] = composer[d]
    BY <1>2, <1>4
  <1>6. IsTransaction(composer'[c])
    BY <1>2, <1>3 DEF IsTransaction, Transactions
  <1>7. SourcesLocked(c)'
    BY <1>1, <1>2, <1>3, <1>5 DEF SourcesLocked
  <1>8. ClaimIsNew(c)'
    BY <1>1, <1>3, <1>5 DEF ClaimIsNew, Claimed, Usable, Claim
  <1> QED BY <1>1, <1>4, <1>6, <1>7, <1>8, OneMoves

(* What is committed stays as it is where a call only ends.                 *)
LEMMA TablesStay ==
    ASSUME TablesInv, UNCHANGED <<cmem, descent, claims, wired, replies>>
    PROVE  TablesInv'
  BY DEF TablesInv, ClaimsAreMade, Free, RepliesAreOfClaims, EndsAreTold, WiresFromMade,
         RepliesAgree, WiredOutside

(* A replay answers what the first call made, or not at all.                *)
LEMMA ReplayNext ==
    ASSUME CallsInv, TablesInv, NEW c \in Composers, ReplayCompose(c) \/ ReplayDecompose(c)
    PROVE  CallsInv' /\ TablesInv'
  <1>1. ASSUME NEW x \in claims, NEW fits, NEW srcs, Answer(c, x, fits, srcs),
               fits => /\ x.req.srcs \subseteq srcs /\ composer[c].req.op = x.req.op
                       /\ x.table = "decompose_operations" => composer[c].req = x.req
        PROVE  CallsInv' /\ TablesInv'
    <2>1. ComposerEnds(c) /\ UNCHANGED <<cmem, descent, claims, wired>>
      BY <1>1 DEF Answer
    <2>2. CallsInv'
      BY <2>1, CallEnds, OneMoves
    <2>3. CASE replies' = replies
      BY <2>1, <2>2, <2>3, TablesStay
    <2>4. CASE fits
      <3> DEFINE y == Reply(x.table, x.key, composer[c].req, x.made, srcs)
      <3>1. replies' = replies \cup {y}
        BY <1>1, <2>4 DEF Answer
      <3>2. /\ y.table = x.table /\ y.key = x.key /\ y.made = x.made
            /\ y.srcs = srcs /\ y.req = composer[c].req
        BY DEF Reply
      <3> HIDE DEF y
      <3>3. \A z \in claims : y.table = z.table /\ y.key = z.key => z = x
        BY <3>2 DEF TablesInv, ClaimsAreMade
      <3>4. RepliesAgree'
        BY <1>1, <2>1, <2>4, <3>1, <3>2, <3>3 DEF TablesInv, RepliesAgree
      <3>5. RepliesAreOfClaims'
        BY <1>1, <2>1, <3>1, <3>2 DEF TablesInv, RepliesAreOfClaims
      <3>6. ClaimsAreMade' /\ EndsAreTold' /\ WiresFromMade' /\ WiredOutside'
        BY <2>1 DEF TablesInv, ClaimsAreMade, Free, EndsAreTold, WiresFromMade, WiredOutside
      <3> QED BY <2>2, <3>4, <3>5, <3>6 DEF TablesInv
    <2>5. CASE ~fits
      BY <1>1, <2>3, <2>5 DEF Answer
    <2> QED BY <2>4, <2>5
  <1>2. CASE ReplayCompose(c)
    <2>1. PICK x \in Claim("memories", composer[c].key) :
             Answer(c, x, SameMode(x, composer[c].req), UNION {ParentsOf(m) : m \in x.made})
      BY <1>2 DEF ReplayCompose
    <2>2. x \in claims /\ x.table = "memories" /\ composer[c].req \in Requests
      BY <1>2, <2>1 DEF Claim, ReplayCompose, CallsInv, CompTypeOK
    <2>3. /\ x.req \in Requests /\ x.made # {}
          /\ \A p \in x.req.srcs, m \in x.made : <<p, m, RelationOf(x.req.op)>> \in descent
      BY <2>2 DEF TablesInv, ClaimsAreMade
    <2>4. \A p \in x.req.srcs, m \in x.made :
             p \in ParentsOf(m) /\ RelationOf(x.req.op) \in RelationsOf(m)
      <3>1. ASSUME NEW p \in x.req.srcs, NEW m \in x.made
            PROVE  p \in ParentsOf(m) /\ RelationOf(x.req.op) \in RelationsOf(m)
        <4> DEFINE e == <<p, m, RelationOf(x.req.op)>>
        <4>1. e \in descent /\ e[1] = p /\ e[2] = m /\ e[3] = RelationOf(x.req.op)
          BY <2>3
        <4> HIDE DEF e
        <4>2. e \in {y \in descent : y[2] = m}
          BY <4>1
        <4> QED BY <4>1, <4>2 DEF ParentsOf, RelationsOf
      <3> QED BY <3>1
    <2>5. x.req.srcs \subseteq UNION {ParentsOf(m) : m \in x.made}
      BY <2>3, <2>4
    <2>6. SameMode(x, composer[c].req) => composer[c].req.op = x.req.op
      <3>1. PICK p \in x.req.srcs, m \in x.made : TRUE
        BY <2>3, RequestFacts
      <3>2. SameMode(x, composer[c].req) => RelationOf(x.req.op) = RelationOf(composer[c].req.op)
        BY <2>4, <3>1 DEF SameMode
      <3> QED BY <2>2, <2>3, <3>2, RequestFacts, RelationsDiffer
    <2> QED BY <1>1, <2>1, <2>2, <2>5, <2>6
  <1>3. CASE ReplayDecompose(c)
    <2>1. PICK x \in Claim("decompose_operations", composer[c].key) :
             Answer(c, x, SameScope(x, composer[c].req), x.req.srcs)
      BY <1>3 DEF ReplayDecompose
    <2>2. x \in claims /\ (SameScope(x, composer[c].req) => x.req = composer[c].req)
      BY <2>1 DEF Claim, SameScope
    <2> QED BY <1>1, <2>1, <2>2
  <1> QED BY <1>2, <1>3

----------------------------------------------------------------------------
(* A composition commits *)

\* What c commits.
Mine(c) == composer[c].req
MadeBy(c) == Fresh(Needs(Mine(c)))
ClaimOf(c) == [table |-> Table(Mine(c)), key |-> composer[c].key, req |-> Mine(c),
               made |-> MadeBy(c)]

\* The rows afterwards: the new ones, the sources in their end, and the rest.
RowsCommitted(c) ==
    /\ MadeBy(c) \subseteq Free /\ MadeBy(c) # {}
    /\ \A m \in MadeBy(c) : cmem'[m] = [status |-> "active", by |-> 0]
    /\ \A m \in MemIds : m \notin MadeBy(c) /\ m \notin Mine(c).srcs => cmem'[m] = cmem[m]
    /\ Mine(c).op = "merge" =>
          \A m \in MadeBy(c), s \in Mine(c).srcs : cmem'[s] = [status |-> "superseded", by |-> m]
    /\ Mine(c).op = "split" =>
          \A s \in Mine(c).srcs : cmem'[s] = [status |-> "retired", by |-> 0]
    /\ Mine(c).op \in {"promote", "derive"} => \A s \in Mine(c).srcs : cmem'[s] = cmem[s]
    /\ cmem' = [m \in MemIds |-> cmem'[m]]
TablesCommitted(c) ==
    /\ composer[c].at = "claimed" /\ ComposerEnds(c)
    /\ descent' = descent \cup {<<p, m, RelationOf(Mine(c).op)>> : p \in Mine(c).srcs,
                                                                  m \in MadeBy(c)}
    /\ claims' = claims \cup {ClaimOf(c)}
    /\ wired' = wired \cup (MadeBy(c) \X composer[c].near)
    /\ replies' = replies \cup {Reply(Table(Mine(c)), composer[c].key, Mine(c), MadeBy(c),
                                      Mine(c).srcs)}

\* What c has claimed: sources that are there, under its own locks and key.
LEMMA ClaimedFacts ==
    ASSUME CallsInv, NEW c \in Composers, composer[c].at = "claimed"
    PROVE  /\ Mine(c) \in Requests /\ Mine(c).srcs \subseteq MemIds \ Free
           /\ \A m \in Mine(c).srcs : cmem[m].status = "active"
           /\ Claim(Table(Mine(c)), composer[c].key) = {}
           /\ Mine(c).srcs \subseteq composer[c].locked
           /\ composer[c].near \subseteq MemIds /\ composer[c].near \cap Mine(c).srcs = {}
  <1>1. Mine(c) \in Requests /\ composer[c] \in Transactions
    BY DEF CallsInv, CompTypeOK, Mine
  <1>2. SourcesLocked(c) /\ ClaimIsNew(c)
    BY DEF CallsInv
  <1>3. \A m \in Mine(c).srcs : m \in MemIds /\ cmem[m].status = "active"
    BY <1>1, <1>2, RequestFacts DEF ClaimIsNew, Usable, Mine, CallsInv, CompTypeOK
  <1> QED BY <1>1, <1>2, <1>3 DEF SourcesLocked, ClaimIsNew, Mine, Free, Transactions

LEMMA CommitSteps ==
    ASSUME CallsInv, NEW c \in Composers, CommitCompose(c) \/ CommitDecompose(c)
    PROVE  RowsCommitted(c) /\ TablesCommitted(c)
  <1> DEFINE over == IF Mine(c).op = "merge"
                     THEN [status |-> "superseded", by |-> CHOOSE x \in Fresh(1) : TRUE]
                     ELSE [status |-> "retired", by |-> 0]
             ended == [m \in MemIds |-> IF Mine(c).op \in {"promote", "derive"} THEN cmem[m]
                                        ELSE over]
  <1>1. CommitNew(c, ended)
    <2>1. CASE CommitCompose(c)
      <3>1. Mine(c).op \in {"merge", "promote"}
        BY <2>1 DEF CommitCompose, ComposeOps, Mine
      <3>2. ended = [m \in MemIds |->
                       IF composer[c].req.op = "promote" THEN cmem[m]
                       ELSE [status |-> "superseded", by |-> CHOOSE x \in Fresh(1) : TRUE]]
        BY <3>1 DEF Mine
      <3> QED BY <2>1, <3>2 DEF CommitCompose
    <2>2. CASE CommitDecompose(c)
      <3>1. Mine(c).op \in {"split", "derive"}
        BY <2>2 DEF CommitDecompose, Mine
      <3>2. ended = [m \in MemIds |-> IF composer[c].req.op = "derive" THEN cmem[m]
                                      ELSE [status |-> "retired", by |-> 0]]
        BY <3>1 DEF Mine
      <3> QED BY <2>2, <3>2 DEF CommitDecompose
    <2> QED BY <2>1, <2>2
  <1>2. \A m \in MemIds : ended[m] = IF Mine(c).op \in {"promote", "derive"} THEN cmem[m] ELSE over
    OBVIOUS
  <1> HIDE DEF ended
  <1>3. /\ composer[c].at = "claimed" /\ Cardinality(MadeBy(c)) = Needs(Mine(c))
        /\ cmem' = [m \in MemIds |-> IF m \in MadeBy(c) THEN [status |-> "active", by |-> 0]
                                     ELSE IF m \in Mine(c).srcs THEN ended[m] ELSE cmem[m]]
    BY <1>1 DEF CommitNew, Mine, MadeBy
  <1>4. TablesCommitted(c)
    BY <1>1 DEF CommitNew, TablesCommitted, AutoWire, ClaimOf, Mine, MadeBy
  <1>5. /\ Mine(c) \in Requests /\ Mine(c).srcs \subseteq MemIds \ Free
    BY <1>3, ClaimedFacts
  <1>6. /\ MadeBy(c) \subseteq Free /\ MadeBy(c) # {}
        /\ Mine(c).op = "merge" => MadeBy(c) = {CHOOSE x \in Fresh(1) : TRUE}
    BY <1>3, <1>5, MadeFacts DEF MadeBy, ComposeOps
  <1>7. MadeBy(c) \subseteq MemIds /\ \A m \in Mine(c).srcs : m \notin MadeBy(c) /\ m \in MemIds
    BY <1>5, <1>6 DEF Free
  <1>8. \A s \in Mine(c).srcs : cmem'[s] = IF Mine(c).op \in {"promote", "derive"} THEN cmem[s]
                                           ELSE over
    BY <1>2, <1>3, <1>7
  <1>9. RowsCommitted(c)
    BY <1>3, <1>6, <1>7, <1>8 DEF RowsCommitted
  <1> QED BY <1>4, <1>9

(* No other call loses what it locked or claimed.                           *)
LEMMA CommitKeepsCalls ==
    ASSUME CallsInv, NEW c \in Composers, RowsCommitted(c), TablesCommitted(c)
    PROVE  CallsInv'
  <1>1. /\ CompTypeOK /\ \A d \in Composers : SourcesLocked(d) /\ ClaimIsNew(d)
        /\ composer \in [Composers -> Transactions]
    BY DEF CallsInv, CompTypeOK
  <1>2. /\ composer' = [composer EXCEPT ![c] = composer'[c]]
        /\ composer'[c] = NoComposition /\ IsTransaction(composer'[c])
        /\ SourcesLocked(c)' /\ ClaimIsNew(c)'
    BY CallEnds DEF TablesCommitted
  <1>3. /\ \A d \in Composers \ {c} : composer'[d] = composer[d]
        /\ composer' \in [Composers -> Transactions]
    BY <1>1, <1>2 DEF IsTransaction
  <1>4. /\ Mine(c) \in Requests /\ Mine(c).srcs \subseteq MemIds \ Free
        /\ Mine(c).srcs \subseteq composer[c].locked
        /\ Mine(c).op \in {"merge", "promote", "split", "derive"}
    BY ClaimedFacts, RequestFacts DEF TablesCommitted
  <1>5. cmem' \in [MemIds -> [status : {"none", "active", "superseded", "retired"}, by : Nat]]
    <2>1. MadeBy(c) \subseteq MemIds /\ MemIds \subseteq Nat /\ \E m \in MadeBy(c) : TRUE
      BY DEF RowsCommitted, Free, MemIds
    <2>2. ASSUME NEW m \in MemIds
          PROVE  cmem'[m] \in [status : {"none", "active", "superseded", "retired"}, by : Nat]
      <3>1. cmem[m] \in [status : {"none", "active", "superseded", "retired"}, by : Nat]
        BY <1>1 DEF CompTypeOK
      <3>2. CASE m \in MadeBy(c)
        BY <3>2 DEF RowsCommitted
      <3>3. CASE m \notin MadeBy(c) /\ m \notin Mine(c).srcs
        BY <3>1, <3>3 DEF RowsCommitted
      <3>4. CASE m \in Mine(c).srcs
        <4>1. PICK x \in MadeBy(c) : x \in Nat
          BY <2>1
        <4>2. CASE Mine(c).op = "merge"
          <5>1. cmem'[m] = [status |-> "superseded", by |-> x]
            BY <3>4, <4>2 DEF RowsCommitted
          <5> QED BY <4>1, <5>1
        <4>3. CASE Mine(c).op = "split"
          <5>1. cmem'[m] = [status |-> "retired", by |-> 0]
            BY <3>4, <4>3 DEF RowsCommitted
          <5> QED BY <5>1
        <4>4. CASE Mine(c).op \in {"promote", "derive"}
          BY <3>1, <3>4, <4>4 DEF RowsCommitted
        <4> QED BY <1>4, <4>2, <4>3, <4>4
      <3> QED BY <3>2, <3>3, <3>4
    <2>3. cmem' = [m \in MemIds |-> cmem'[m]]
      BY DEF RowsCommitted
    <2> QED BY <2>2, <2>3
  <1>6. CompTypeOK'
    <2>1. \A d \in Composers : IF composer'[d].at = "idle" THEN composer'[d] = NoComposition
                                                           ELSE composer'[d].req \in Requests
      BY <1>1, <1>2, <1>3 DEF CompTypeOK, IsTransaction
    <2> QED BY <1>3, <1>5, <2>1 DEF CompTypeOK
  <1>7. ASSUME NEW d \in Composers \ {c} PROVE SourcesLocked(d)' /\ ClaimIsNew(d)'
    <2>1. composer'[d] = composer[d] /\ SourcesLocked(d) /\ ClaimIsNew(d)
      BY <1>1, <1>3
    <2>2. SourcesLocked(d)'
      BY <1>2, <1>3, <1>7, <2>1 DEF SourcesLocked
    <2>3. ASSUME composer[d].at = "claimed" PROVE Usable(composer[d].req)'
      <3>1. /\ \A m \in Mine(d).srcs : m \in MemIds /\ cmem[m].status = "active"
            /\ Mine(d).srcs \subseteq MemIds \ Free /\ Mine(d).srcs \subseteq composer[d].locked
        BY <2>3, ClaimedFacts
      <3>2. composer[d].locked \cap composer[c].locked = {}
        BY <2>1, <1>7 DEF SourcesLocked
      <3>3. \A m \in Mine(d).srcs : cmem'[m] = cmem[m]
        BY <1>4, <3>1, <3>2 DEF RowsCommitted
      <3> QED BY <2>1, <3>1, <3>3 DEF Usable, Mine
    <2>4. ASSUME composer[d].at = "claimed"
          PROVE  Claim(Table(composer[d].req), composer[d].key)' = {}
      <3>1. ~(composer[d].key = composer[c].key /\ Table(composer[d].req) = Table(composer[c].req))
        BY <2>1, <2>4, <1>7 DEF ClaimIsNew, TablesCommitted
      <3>2. ClaimOf(c).key = composer[c].key /\ ClaimOf(c).table = Table(composer[c].req)
        BY DEF ClaimOf, Mine
      <3>3. Claim(Table(composer[d].req), composer[d].key) = {}
        BY <2>1, <2>4 DEF ClaimIsNew
      <3> QED BY <2>1, <3>1, <3>2, <3>3 DEF TablesCommitted, Claim
    <2>5. ClaimIsNew(d)'
      <3>1. composer'[c].at # "claimed"
        BY <1>2 DEF NoComposition
      <3> QED BY <1>3, <2>1, <2>3, <2>4, <3>1 DEF ClaimIsNew
    <2> QED BY <2>2, <2>5
  <1> QED BY <1>2, <1>6, <1>7 DEF CallsInv

(* The first and only answer to a dedupe key, about new memories.           *)
LEMMA CommitKeepsTables ==
    ASSUME CallsInv, TablesInv, NEW c \in Composers, RowsCommitted(c), TablesCommitted(c)
    PROVE  TablesInv'
  <1> DEFINE r == Mine(c)
             made == MadeBy(c)
             z0 == ClaimOf(c)
             y0 == Reply(Table(r), composer[c].key, r, made, r.srcs)
  <1>1. /\ ClaimsAreMade /\ RepliesAreOfClaims /\ EndsAreTold /\ WiresFromMade
        /\ RepliesAgree /\ WiredOutside
        /\ cmem \in [MemIds -> [status : {"none", "active", "superseded", "retired"}, by : Nat]]
    BY DEF TablesInv, CallsInv, CompTypeOK
  <1>2. /\ r \in Requests /\ r.srcs \subseteq MemIds \ Free
        /\ \A m \in r.srcs : cmem[m].status = "active"
        /\ Claim(Table(r), composer[c].key) = {}
        /\ composer[c].near \subseteq MemIds /\ composer[c].near \cap r.srcs = {}
        /\ r.op \in {"merge", "promote", "split", "derive"}
    BY ClaimedFacts, RequestFacts DEF TablesCommitted
  <1>3. /\ z0.table = Table(r) /\ z0.key = composer[c].key /\ z0.req = r /\ z0.made = made
        /\ y0.table = Table(r) /\ y0.key = composer[c].key /\ y0.req = r /\ y0.made = made
        /\ y0.srcs = r.srcs
    BY DEF ClaimOf, Reply
  <1>4. \A z \in claims : ~(z.table = z0.table /\ z.key = z0.key)
    BY <1>2, <1>3 DEF Claim
  <1>5. /\ claims' = claims \cup {z0} /\ replies' = replies \cup {y0}
        /\ wired' = wired \cup (made \X composer[c].near)
        /\ descent' = descent \cup {<<p, m, RelationOf(r.op)>> : p \in r.srcs, m \in made}
    BY DEF TablesCommitted
  <1>6. /\ made \subseteq Free /\ made # {} /\ made \subseteq MemIds
        /\ MemIds \ Free \subseteq MemIds \ Free' /\ made \subseteq MemIds \ Free'
    <2>1. made \subseteq Free /\ made # {} /\ \A m \in made : cmem'[m].status = "active"
      BY DEF RowsCommitted
    <2>2. \A m \in MemIds \ Free : cmem'[m].status # "none"
      <3>1. \A m \in r.srcs : cmem'[m].status # "none"
        <4>1. PICK x \in made : TRUE
          BY <2>1
        <4>2. ASSUME NEW m \in r.srcs PROVE cmem'[m].status # "none"
          <5>1. r.op = "merge" => cmem'[m].status = "superseded"
            <6>1. r.op = "merge" => cmem'[m] = [status |-> "superseded", by |-> x]
              BY <4>1, <4>2 DEF RowsCommitted
            <6> QED BY <6>1
          <5>2. r.op = "split" => cmem'[m].status = "retired"
            <6>1. r.op = "split" => cmem'[m] = [status |-> "retired", by |-> 0]
              BY <4>2 DEF RowsCommitted
            <6> QED BY <6>1
          <5>3. r.op \in {"promote", "derive"} => cmem'[m] = cmem[m]
            BY <4>2 DEF RowsCommitted
          <5>4. cmem[m].status # "none" /\ r.op \in {"merge", "promote", "split", "derive"}
            BY <1>2, <4>2
          <5> HIDE DEF r
          <5> QED BY <5>1, <5>2, <5>3, <5>4
        <4> QED BY <4>2
      <3>2. \A m \in MemIds \ Free : m \notin r.srcs => cmem'[m] = cmem[m]
        BY <2>1 DEF RowsCommitted
      <3> QED BY <3>1, <3>2 DEF Free
    <2> QED BY <2>1, <2>2 DEF Free
  <1>7. \A e \in descent' : \/ e \in descent
                            \/ /\ e[1] \in r.srcs /\ e[2] \in made /\ e[3] = RelationOf(r.op)
    <2> HIDE DEF r, made
    <2> QED BY <1>5
  <1> HIDE DEF r, made, z0, y0
  <1>8. ClaimsAreMade'
    <2>1. ASSUME NEW z \in claims
          PROVE  /\ z.req \in Requests /\ z.table = Table(z.req)
                 /\ z.made # {} /\ z.made \subseteq MemIds \ Free'
                 /\ \A p \in z.req.srcs, m \in z.made : <<p, m, RelationOf(z.req.op)>> \in descent'
                 /\ \A x \in claims' : x.table = z.table /\ x.key = z.key => x = z
      BY <1>1, <1>4, <1>5, <1>6 DEF ClaimsAreMade
    <2>2. /\ z0.req \in Requests /\ z0.table = Table(z0.req)
          /\ z0.made # {} /\ z0.made \subseteq MemIds \ Free'
          /\ \A p \in z0.req.srcs, m \in z0.made : <<p, m, RelationOf(z0.req.op)>> \in descent'
          /\ \A x \in claims' : x.table = z0.table /\ x.key = z0.key => x = z0
      BY <1>2, <1>3, <1>4, <1>5, <1>6
    <2> QED BY <1>5, <2>1, <2>2 DEF ClaimsAreMade
  <1>9. RepliesAreOfClaims'
    BY <1>1, <1>3, <1>5 DEF RepliesAreOfClaims
  <1>10. EndsAreTold'
    <2>1. ASSUME NEW e \in descent
          PROVE  /\ e[1] \in MemIds
                 /\ e[3] = "supersedes" => cmem'[e[1]] = [status |-> "superseded", by |-> e[2]]
                 /\ e[3] = "split_from" => cmem'[e[1]].status = "retired"
      <3>1. /\ e[1] \in MemIds
            /\ e[3] = "supersedes" => cmem[e[1]] = [status |-> "superseded", by |-> e[2]]
            /\ e[3] = "split_from" => cmem[e[1]].status = "retired"
        BY <1>1 DEF EndsAreTold
      <3>2. e[3] \in {"supersedes", "split_from"} => cmem[e[1]].status \in {"superseded", "retired"}
        BY <3>1
      <3>3. e[3] \in {"supersedes", "split_from"} => e[1] \notin r.srcs /\ e[1] \notin made
        BY <1>2, <1>6, <3>2 DEF Free
      <3>4. e[3] \in {"supersedes", "split_from"} => cmem'[e[1]] = cmem[e[1]]
        BY <3>1, <3>3 DEF RowsCommitted, r, made
      <3> QED BY <3>1, <3>4
    <2>2. ASSUME NEW e, e[1] \in r.srcs, e[2] \in made, e[3] = RelationOf(r.op)
          PROVE  /\ e[1] \in MemIds
                 /\ e[3] = "supersedes" => cmem'[e[1]] = [status |-> "superseded", by |-> e[2]]
                 /\ e[3] = "split_from" => cmem'[e[1]].status = "retired"
      <3>1. e[1] \in MemIds
        BY <1>2, <2>2
      <3>2. e[3] = "supersedes" => r.op = "merge"
        BY <1>2, <2>2 DEF RelationOf
      <3>3. e[3] = "split_from" => r.op = "split"
        BY <1>2, <2>2 DEF RelationOf
      <3>4. r.op = "merge" => cmem'[e[1]] = [status |-> "superseded", by |-> e[2]]
        BY <2>2 DEF RowsCommitted, r, made
      <3>5. r.op = "split" => cmem'[e[1]].status = "retired"
        BY <2>2 DEF RowsCommitted, r, made
      <3> QED BY <3>1, <3>2, <3>3, <3>4, <3>5
    <2> QED BY <1>7, <2>1, <2>2 DEF EndsAreTold
  <1>11. WiresFromMade'
    BY <1>1, <1>5, <1>6 DEF WiresFromMade
  <1>12. RepliesAgree'
    <2>1. ASSUME NEW x \in replies', NEW z \in claims', x.table = z.table, x.key = z.key
          PROVE  /\ x.made = z.made /\ z.req.srcs \subseteq x.srcs
                 /\ x.req.op = z.req.op
                 /\ x.table = "decompose_operations" => x.req = z.req
      <3>1. CASE x \in replies /\ z \in claims
        BY <1>1, <2>1, <3>1 DEF RepliesAgree
      <3>2. CASE x \in replies /\ z = z0
        BY <1>1, <1>4, <2>1, <3>2 DEF RepliesAreOfClaims
      <3>3. CASE x = y0
        BY <1>3, <1>4, <1>5, <2>1, <3>3
      <3> QED BY <1>5, <3>1, <3>2, <3>3
    <2> QED BY <2>1 DEF RepliesAgree
  <1>13. WiredOutside'
    <2>1. ASSUME NEW z \in claims PROVE wired' \cap (z.made \X z.req.srcs) = {}
      <3>1. z.made \cap made = {} /\ wired \cap (z.made \X z.req.srcs) = {}
        BY <1>1, <1>6 DEF ClaimsAreMade, WiredOutside
      <3> QED BY <1>5, <3>1
    <2>2. wired' \cap (made \X r.srcs) = {}
      <3>1. \A w \in wired : w[1] \notin made
        BY <1>1, <1>6 DEF WiresFromMade
      <3> QED BY <1>2, <1>5, <3>1
    <2> QED BY <1>3, <1>5, <2>1, <2>2 DEF WiredOutside
  <1> QED BY <1>8, <1>9, <1>10, <1>11, <1>12, <1>13 DEF TablesInv

----------------------------------------------------------------------------
(* Others *)

(* A change of one active row that no call has locked.                      *)
LEMMA OthersNext ==
    ASSUME CallsInv, TablesInv, NEW m \in MemIds \ RowLocks, cmem[m].status = "active",
           NEW row \in [status : {"superseded", "retired"}, by : Nat],
           cmem' = [cmem EXCEPT ![m] = row], UNCHANGED <<claims, wired, composer, replies>>,
           \A e \in descent' : \/ e \in descent
                               \/ e[1] = m /\ e[3] = "supersedes"
                                     /\ row = [status |-> "superseded", by |-> e[2]],
           descent \subseteq descent'
    PROVE  CallsInv' /\ TablesInv'
  <1>1. /\ CompTypeOK /\ \A d \in Composers : SourcesLocked(d) /\ ClaimIsNew(d)
        /\ cmem \in [MemIds -> [status : {"none", "active", "superseded", "retired"}, by : Nat]]
    BY DEF CallsInv, CompTypeOK
  <1>2. /\ cmem'[m] = row /\ \A k \in MemIds : k # m => cmem'[k] = cmem[k]
        /\ cmem' \in [MemIds -> [status : {"none", "active", "superseded", "retired"}, by : Nat]]
    BY <1>1
  <1>3. row.status \in {"superseded", "retired"}
    OBVIOUS
  <1>4. Free' = Free
    BY <1>2, <1>3 DEF Free
  <1>5. CallsInv'
    <2>1. CompTypeOK'
      BY <1>1, <1>2 DEF CompTypeOK
    <2>2. ASSUME NEW d \in Composers PROVE SourcesLocked(d)' /\ ClaimIsNew(d)'
      <3>1. SourcesLocked(d)'
        BY <1>1, <2>2 DEF SourcesLocked
      <3>2. ASSUME composer[d].at = "claimed" PROVE Usable(composer[d].req)'
        <4>1. m \notin composer[d].req.srcs /\ composer[d].req.srcs \subseteq MemIds
          BY <2>2, <3>2, ClaimedFacts DEF RowLocks, Mine
        <4>2. Usable(composer[d].req)
          BY <1>1, <2>2, <3>2 DEF ClaimIsNew
        <4> QED BY <1>2, <4>1, <4>2 DEF Usable
      <3>3. ClaimIsNew(d)'
        BY <1>1, <2>2, <3>2 DEF ClaimIsNew, Claim
      <3> QED BY <3>1, <3>3
    <2> QED BY <2>1, <2>2 DEF CallsInv
  <1>6. EndsAreTold'
    <2>1. ASSUME NEW e \in descent
          PROVE  /\ e[1] \in MemIds
                 /\ e[3] = "supersedes" => cmem'[e[1]] = [status |-> "superseded", by |-> e[2]]
                 /\ e[3] = "split_from" => cmem'[e[1]].status = "retired"
      <3>1. /\ e[1] \in MemIds
            /\ e[3] = "supersedes" => cmem[e[1]] = [status |-> "superseded", by |-> e[2]]
            /\ e[3] = "split_from" => cmem[e[1]].status = "retired"
        BY DEF TablesInv, EndsAreTold
      <3>2. e[3] \in {"supersedes", "split_from"} => cmem[e[1]].status \in {"superseded", "retired"}
        BY <3>1
      <3>3. e[3] \in {"supersedes", "split_from"} => cmem'[e[1]] = cmem[e[1]]
        BY <1>2, <3>1, <3>2
      <3> QED BY <3>1, <3>3
    <2>2. ASSUME NEW e, e[1] = m, e[3] = "supersedes",
                 row = [status |-> "superseded", by |-> e[2]]
          PROVE  /\ e[1] \in MemIds
                 /\ e[3] = "supersedes" => cmem'[e[1]] = [status |-> "superseded", by |-> e[2]]
                 /\ e[3] = "split_from" => cmem'[e[1]].status = "retired"
      BY <1>2, <2>2
    <2> QED BY <2>1, <2>2 DEF EndsAreTold
  <1>7. ClaimsAreMade' /\ RepliesAreOfClaims' /\ WiresFromMade' /\ RepliesAgree' /\ WiredOutside'
    BY <1>4 DEF TablesInv, ClaimsAreMade, RepliesAreOfClaims, WiresFromMade, RepliesAgree,
                WiredOutside
  <1> QED BY <1>5, <1>6, <1>7 DEF TablesInv

----------------------------------------------------------------------------
LEMMA CompInvInit == CompInit => CompInv
  <1> SUFFICES ASSUME CompInit PROVE CompInv
    OBVIOUS
  <1>1. cmem \in [MemIds -> [status : {"none", "active", "superseded", "retired"}, by : Nat]]
    <2> DEFINE row(m) == [status |-> IF m \in Sources THEN "active" ELSE "none", by |-> 0]
    <2>1. cmem = [m \in MemIds |-> row(m)]
      BY DEF CompInit
    <2>2. ASSUME NEW m \in MemIds
          PROVE  row(m) \in [status : {"none", "active", "superseded", "retired"}, by : Nat]
      <3>1. CASE m \in Sources
        BY <3>1
      <3>2. CASE m \notin Sources
        BY <3>2
      <3> QED BY <3>1, <3>2
    <2> HIDE DEF row
    <2> QED BY <2>1, <2>2
  <1>2. NoComposition \in Transactions
    BY DEF NoComposition, Transactions
  <1>3. CompTypeOK
    <2>1. composer = [c \in Composers |-> NoComposition]
      BY DEF CompInit
    <2>2. \A c \in Composers : composer[c] = NoComposition /\ composer[c].at = "idle"
      BY <2>1 DEF NoComposition
    <2>3. composer \in [Composers -> Transactions]
      BY <1>2, <2>1
    <2> QED BY <1>1, <2>2, <2>3 DEF CompTypeOK
  <1>4. \A c \in Composers : SourcesLocked(c) /\ ClaimIsNew(c)
    BY DEF CompInit, SourcesLocked, ClaimIsNew, NoComposition
  <1>5. ClaimsAreMade /\ RepliesAreOfClaims /\ EndsAreTold /\ WiresFromMade
    BY DEF CompInit, ClaimsAreMade, RepliesAreOfClaims, EndsAreTold, WiresFromMade
  <1>6. RepliesAgree /\ WiredOutside
    BY DEF CompInit, RepliesAgree, WiredOutside
  <1> QED BY <1>3, <1>4, <1>5, <1>6 DEF CompInv

LEMMA CompInvNext == CompInv /\ [CompNext]_compVars => CompInv'
  <1> SUFFICES ASSUME CompInv, [CompNext]_compVars PROVE CallsInv' /\ TablesInv'
    BY DEF CompInv, CallsInv, TablesInv
  <1>1. CallsInv /\ TablesInv
    BY DEF CompInv, CallsInv, TablesInv
  <1>2. ASSUME NEW c \in Composers, NEW r \in Requests, NEW k \in CallerKeys \cup {"none"},
               BeginComposition(c, r, k)
        PROVE  CallsInv' /\ TablesInv'
    BY <1>1, <1>2, BeginNext, TablesStay DEF BeginComposition
  <1>3. ASSUME NEW c \in Composers, LockSource(c) PROVE CallsInv' /\ TablesInv'
    BY <1>1, <1>3, LockNext, TablesStay DEF LockSource
  <1>4. ASSUME NEW c \in Composers, ClaimKey(c) PROVE CallsInv' /\ TablesInv'
    BY <1>1, <1>4, ClaimNext, TablesStay DEF ClaimKey
  <1>5. ASSUME NEW c \in Composers, RefuseSources(c) \/ AbortComposition(c)
        PROVE  CallsInv' /\ TablesInv'
    <2>1. ComposerEnds(c) /\ UNCHANGED <<cmem, descent, claims, wired, replies>>
      BY <1>5 DEF RefuseSources, AbortComposition
    <2> QED BY <1>1, <2>1, CallEnds, OneMoves, TablesStay
  <1>6. ASSUME NEW c \in Composers, CommitCompose(c) \/ CommitDecompose(c)
        PROVE  CallsInv' /\ TablesInv'
    BY <1>1, <1>6, CommitSteps, CommitKeepsCalls, CommitKeepsTables
  <1>7. ASSUME NEW m \in MemIds, RetireMemory(m) PROVE CallsInv' /\ TablesInv'
    <2>1. /\ cmem \in [MemIds -> [status : {"none", "active", "superseded", "retired"}, by : Nat]]
          /\ m \in MemIds \ RowLocks /\ cmem[m].status = "active"
          /\ cmem' = [cmem EXCEPT ![m].status = "retired"]
          /\ UNCHANGED <<descent, claims, wired, composer, replies>>
      BY <1>1, <1>7 DEF RetireMemory, CallsInv, CompTypeOK
    <2> DEFINE row == [status |-> "retired", by |-> cmem[m].by]
    <2>2. PICK s \in {"none", "active", "superseded", "retired"}, b \in Nat :
             cmem[m] = [status |-> s, by |-> b]
      BY <2>1
    <2>3. row = [status |-> "retired", by |-> b]
      BY <2>2
    <2>4. [cmem[m] EXCEPT !.status = "retired"] = row
      BY <2>2, <2>3
    <2>5. row \in [status : {"superseded", "retired"}, by : Nat]
      BY <2>3
    <2>6. cmem' = [cmem EXCEPT ![m] = [cmem[m] EXCEPT !.status = "retired"]]
      BY <2>1
    <2>7. cmem' = [cmem EXCEPT ![m] = row]
      BY <2>4, <2>6
    <2> HIDE DEF row
    <2> QED BY <1>1, <2>1, <2>5, <2>7, OthersNext
  <1>8. ASSUME NEW keep \in MemIds, NEW m \in MemIds, CurateMerge(keep, m)
        PROVE  CallsInv' /\ TablesInv'
    <2> DEFINE row == [status |-> "superseded", by |-> keep]
               e == <<m, keep, "supersedes">>
    <2>1. /\ m \in MemIds \ RowLocks /\ cmem[m].status = "active"
          /\ cmem' = [cmem EXCEPT ![m] = row] /\ descent' = descent \cup {e}
          /\ UNCHANGED <<claims, wired, composer, replies>>
      BY <1>8 DEF CurateMerge
    <2>2. row \in [status : {"superseded", "retired"}, by : Nat]
      BY DEF MemIds
    <2>3. e[1] = m /\ e[3] = "supersedes" /\ row = [status |-> "superseded", by |-> e[2]]
      OBVIOUS
    <2> HIDE DEF row, e
    <2>4. \A f \in descent' : \/ f \in descent
                              \/ f[1] = m /\ f[3] = "supersedes"
                                    /\ row = [status |-> "superseded", by |-> f[2]]
      BY <2>1, <2>3
    <2>5. descent \subseteq descent'
      BY <2>1
    <2> QED BY <1>1, <2>1, <2>2, <2>4, <2>5, OthersNext
  <1>9. CASE UNCHANGED compVars
    <2>1. TablesInv'
      BY <1>1, <1>9, TablesStay DEF compVars
    <2>2. CallsInv'
      BY <1>1, <1>9 DEF compVars, CallsInv, CompTypeOK, SourcesLocked, ClaimIsNew, Usable, Claim
    <2> QED BY <2>1, <2>2
  <1> QED BY <1>1, <1>2, <1>3, <1>4, <1>5, <1>6, <1>7, <1>8, <1>9, ReplayNext
          DEF CompNext, Composes

(* A key answers for one composition, sources in the middle of one are      *)
(* there, and the lineage of an ended source agrees with its row.           *)
THEOREM ComposeInvariant == CompSpec => []CompInv
  <1> QED BY CompInvInit, CompInvNext, PTL DEF CompSpec

LEMMA EndsDiffer ==
    ASSUME EndsAreTold
    PROVE  SourcesEndOnce
  <1> SUFFICES ASSUME NEW s \in MemIds
               PROVE  LET ends == {e \in descent : /\ e[1] = s
                                                   /\ e[3] \in {"supersedes", "split_from"}}
                      IN  /\ Cardinality({e[3] : e \in ends}) <= 1
                          /\ \A e \in ends : e[3] = "supersedes" =>
                                  cmem[s] = [status |-> "superseded", by |-> e[2]]
    BY DEF SourcesEndOnce
  <1> DEFINE ends == {e \in descent : e[1] = s /\ e[3] \in {"supersedes", "split_from"}}
             kinds == {e[3] : e \in ends}
  <1>1. \A e \in ends : e[3] = "supersedes" => cmem[s] = [status |-> "superseded", by |-> e[2]]
    BY DEF EndsAreTold
  <1>2. ASSUME NEW e \in ends, NEW f \in ends, e[3] = "supersedes", f[3] = "split_from"
        PROVE  FALSE
    <2>1. cmem[s] = [status |-> "superseded", by |-> e[2]]
      BY <1>1, <1>2
    <2>2. cmem[s].status = "superseded"
      BY <2>1
    <2>3. cmem[s].status = "retired"
      BY <1>2 DEF EndsAreTold
    <2> QED BY <2>2, <2>3
  <1>3. kinds \in {{}, {"supersedes"}, {"split_from"}}
    BY <1>2
  <1> HIDE DEF kinds
  <1>4. Cardinality(kinds) <= 1
    <2>1. Cardinality({}) = 0
      BY FS_EmptySet
    <2>2. \A x : Cardinality({x}) = 1
      BY FS_Singleton
    <2>3. Cardinality({"supersedes"}) = 1 /\ Cardinality({"split_from"}) = 1
      BY <2>2
    <2> QED BY <1>3, <2>1, <2>3
  <1> QED BY <1>1, <1>4 DEF kinds

(* mem_compose and mem_decompose: however calls race, retry, wait for the   *)
(* rows and keys of each other or abort, a dedupe key has one answer, a     *)
(* source ends in one of them, and stage B wires none of them to a source.  *)
THEOREM ComposesOnce == CompSpec => []CompositionsHappenOnce
  <1>1. CompInv => CompositionsHappenOnce
    BY EndsDiffer DEF CompInv, CompositionsHappenOnce
  <1> QED BY <1>1, ComposeInvariant, PTL

----------------------------------------------------------------------------
(* AutoWire: the order of the candidates *)

Above(p, S) == {q \in S : Better(q, p)}

LEMMA PairsAreNumbers ==
    ASSUME NEW p \in PiecePairs
    PROVE  /\ p = <<p[1], p[2]>> /\ p[1] \in Pieces /\ p[2] \in Neighbours
           /\ p[1] \in Nat /\ p[2] \in Nat /\ Score(p) \in Nat
  <1>1. PICK c \in Pieces, m \in Neighbours : p = <<c, m>>
    BY DEF PiecePairs
  <1>2. p[1] = c /\ p[2] = m
    BY <1>1
  <1>3. c \in Nat /\ m \in Nat /\ Salience[m] \in Nat /\ Similarity[c][m] \in Nat
    <2>1. Similarity[c] \in [Neighbours -> Nat]
      BY WiringShapes
    <2> QED BY <2>1, WiringShapes
  <1>4. \A a, b \in Nat : a * b \in Nat
    OBVIOUS
  <1>5. Score(p) = Salience[m] * Similarity[c][m]
    BY <1>2 DEF Score
  <1> QED BY <1>1, <1>2, <1>3, <1>4, <1>5

(* The order has no ties: a neighbour's id and a piece's index break them.  *)
LEMMA BetterIsAnOrder ==
    \A p, q, x \in PiecePairs :
        /\ ~Better(p, p)
        /\ p # q => Better(p, q) \/ Better(q, p)
        /\ Better(p, q) /\ Better(q, x) => Better(p, x)
  <1> SUFFICES ASSUME NEW p \in PiecePairs, NEW q \in PiecePairs, NEW x \in PiecePairs
               PROVE  /\ ~Better(p, p)
                      /\ p # q => Better(p, q) \/ Better(q, p)
                      /\ Better(p, q) /\ Better(q, x) => Better(p, x)
    OBVIOUS
  <1>1. \A y \in {p, q, x} : y[1] \in Nat /\ y[2] \in Nat /\ Score(y) \in Nat
    BY PairsAreNumbers
  <1>2. p # q => p[1] # q[1] \/ p[2] # q[2]
    <2>1. p = <<p[1], p[2]>> /\ q = <<q[1], q[2]>>
      BY PairsAreNumbers
    <2> QED BY <2>1
  <1> QED BY <1>1, <1>2 DEF Better

LEMMA PairsFinite ==
    ASSUME NEW S, S \subseteq PiecePairs
    PROVE  /\ IsFiniteSet(S) /\ Cardinality(S) \in Nat
           /\ \A p : IsFiniteSet(Above(p, S)) /\ Cardinality(Above(p, S)) \in Nat
  <1>1. IsFiniteSet(PiecePairs)
    BY WiringShapes, FS_Product DEF PiecePairs
  <1>2. \A T : T \subseteq PiecePairs => IsFiniteSet(T) /\ Cardinality(T) \in Nat
    BY <1>1, FS_Subset, FS_CardinalityType
  <1>3. \A p : Above(p, S) \subseteq PiecePairs
    BY DEF Above
  <1> QED BY <1>2, <1>3

(* The better of two has fewer above it.                                    *)
LEMMA BetterHasFewerAbove ==
    ASSUME NEW S, S \subseteq PiecePairs, NEW p \in S, NEW q \in S, Better(p, q)
    PROVE  Cardinality(Above(p, S)) < Cardinality(Above(q, S))
  <1>1. Above(p, S) \subseteq Above(q, S)
    BY BetterIsAnOrder DEF Above
  <1>2. p \in Above(q, S) /\ p \notin Above(p, S)
    BY BetterIsAnOrder DEF Above
  <1>3. /\ Cardinality(Above(p, S)) <= Cardinality(Above(q, S))
        /\ Cardinality(Above(q, S)) = Cardinality(Above(p, S)) => Above(q, S) = Above(p, S)
    BY <1>1, PairsFinite, FS_Subset
  <1> QED BY <1>2, <1>3, PairsFinite

\* Some p of S that has a natural rank has the lowest one.
LEMMA LowestRank ==
    ASSUME NEW S, S # {}, NEW T, T \subseteq PiecePairs
    PROVE  /\ \E p \in S : \A q \in S : Cardinality(Above(p, T)) <= Cardinality(Above(q, T))
           /\ \A n \in Nat : (\A q \in S : Cardinality(Above(q, T)) < n) =>
                \E p \in S : \A q \in S : Cardinality(Above(q, T)) <= Cardinality(Above(p, T))
  <1> DEFINE Rank(p) == Cardinality(Above(p, T))
  <1>1. \A p : Rank(p) \in Nat
    BY PairsFinite
  <1> HIDE DEF Rank
  <1>2. ASSUME NEW R, R \subseteq Nat, R # {} PROVE \E x \in R : \A y \in R : x <= y
    <2>1. PICK x \in R : \A y \in R : ~(<<y, x>> \in OpToRel(<, Nat))
      BY <1>2, NatLessThanWellFounded, WFMin
    <2>2. \A y \in R : ~(y < x)
      BY <1>2, <2>1 DEF OpToRel
    <2> QED BY <1>2, <2>2
  <1>3. \E p \in S : \A q \in S : Rank(p) <= Rank(q)
    <2> DEFINE R == {Rank(p) : p \in S}
    <2>1. PICK x \in R : \A y \in R : x <= y
      BY <1>1, <1>2
    <2> QED BY <2>1
  <1>4. ASSUME NEW n \in Nat, \A q \in S : Rank(q) < n
        PROVE  \E p \in S : \A q \in S : Rank(q) <= Rank(p)
    <2> DEFINE R == {n - Rank(p) : p \in S}
    <2>1. PICK x \in R : \A y \in R : x <= y
      <3>1. R \subseteq Nat /\ R # {}
        BY <1>1, <1>4
      <3> QED BY <1>2, <3>1
    <2>2. PICK p \in S : \A q \in S : n - Rank(p) <= n - Rank(q)
      BY <2>1
    <2> QED BY <1>1, <2>2
  <1> QED BY <1>3, <1>4 DEF Rank

(* The n best of a set are n, unless there are fewer, and all of them are   *)
(* better than the rest.                                                    *)
LEMMA BestAreTheFirst ==
    ASSUME NEW S, S \subseteq PiecePairs, NEW n \in Nat
    PROVE  /\ Best(n, S) \subseteq S
           /\ Cardinality(Best(n, S)) <= n
           /\ \A p \in S \ Best(n, S) : /\ \A q \in Best(n, S) : Better(q, p)
                                        /\ Cardinality(Best(n, S)) = n
  <1> DEFINE B == Best(n, S)
             Rank(p) == Cardinality(Above(p, S))
  <1>1. B = {p \in S : Rank(p) < n}
    BY DEF Best, Above
  <1>2. B \subseteq S /\ B \subseteq PiecePairs /\ \A p : Rank(p) \in Nat
    BY <1>1, PairsFinite
  <1>3. IsFiniteSet(B) /\ Cardinality(B) \in Nat
    BY <1>2, PairsFinite
  <1>4. Cardinality(B) <= n
    <2>1. CASE B = {}
      BY <2>1, FS_EmptySet
    <2>2. CASE B # {}
      <3>1. \A q \in B : Rank(q) < n
        BY <1>1
      <3>2. PICK p \in B : \A q \in B : Rank(q) <= Rank(p)
        BY <2>2, <3>1, LowestRank
      <3>3. \A q \in B \ {p} : Better(q, p)
        <4> SUFFICES ASSUME NEW q \in B, q # p, Better(p, q) PROVE FALSE
          BY <1>2, BetterIsAnOrder
        <4>1. Rank(p) < Rank(q)
          BY <1>2, BetterHasFewerAbove
        <4> QED BY <1>2, <3>2, <4>1
      <3>4. B \subseteq Above(p, S) \cup {p}
        BY <1>2, <3>3 DEF Above
      <3>5. /\ IsFiniteSet(Above(p, S) \cup {p})
            /\ Cardinality(Above(p, S) \cup {p}) <= Rank(p) + 1
        BY <1>2, PairsFinite, FS_AddElement
      <3>6. Cardinality(B) <= Cardinality(Above(p, S) \cup {p})
        BY <3>4, <3>5, FS_Subset
      <3>7. Cardinality(Above(p, S) \cup {p}) \in Nat
        BY <3>5, FS_CardinalityType
      <3> QED BY <1>2, <1>3, <3>1, <3>5, <3>6, <3>7
    <2> QED BY <2>1, <2>2
  <1>5. ASSUME NEW p \in S \ B PROVE (\A q \in B : Better(q, p)) /\ Cardinality(B) = n
    <2>1. ASSUME NEW q \in B PROVE Better(q, p)
      <3>1. Rank(q) < n /\ ~(Rank(p) < n) /\ q # p
        BY <1>1
      <3>2. Better(p, q) => Rank(p) < Rank(q)
        BY <1>2, BetterHasFewerAbove
      <3> QED BY <1>2, <3>1, <3>2, BetterIsAnOrder
    <2>2. PICK w \in S \ B : \A q \in S \ B : Rank(w) <= Rank(q)
      BY LowestRank
    <2>3. Above(w, S) \subseteq B
      <3> SUFFICES ASSUME NEW q \in S \ B, Better(q, w) PROVE FALSE
        BY DEF Above
      <3>1. Rank(q) < Rank(w)
        BY BetterHasFewerAbove
      <3> QED BY <1>2, <2>2, <3>1
    <2>4. Rank(w) <= Cardinality(B)
      BY <1>3, <2>3, FS_Subset
    <2>5. ~(Rank(w) < n)
      BY <1>1
    <2> QED BY <1>2, <1>3, <1>4, <2>1, <2>4, <2>5
  <1> QED BY <1>2, <1>4, <1>5

(* The pairs a cap leaves out are those the kept ones beat.                 *)
LEMMA CappedAreTheBest ==
    ASSUME Eligible \subseteq PiecePairs
    PROVE  /\ Capped \subseteq Eligible /\ Cardinality(Capped) <= TotalCap
           /\ \A p \in Eligible \ Capped :
                 LET better == {q \in Eligible : Better(q, p)}
                 IN  \/ Cardinality({q \in better : q[1] = p[1]}) >= PieceTopK
                     \/ Cardinality(Capped \cap better) = TotalCap
  <1> DEFINE Of(c) == {p \in Eligible : p[1] = c}
  <1>1. PieceTopK \in Nat /\ TotalCap \in Nat
    BY WiringShapes
  <1>2. \A c : Of(c) \subseteq PiecePairs /\ Best(PieceTopK, Of(c)) \subseteq Of(c)
    BY <1>1, BestAreTheFirst
  <1>3. TopOfPiece \subseteq Eligible /\ TopOfPiece \subseteq PiecePairs
    <2>1. ASSUME NEW p \in TopOfPiece PROVE p \in Eligible
      <3>1. PICK c \in Pieces : p \in Best(PieceTopK, Of(c))
        BY DEF TopOfPiece
      <3> QED BY <1>2, <3>1
    <2> QED BY <2>1
  <1>4. /\ Capped \subseteq TopOfPiece /\ Cardinality(Capped) <= TotalCap
        /\ \A p \in TopOfPiece \ Capped : /\ \A q \in Capped : Better(q, p)
                                          /\ Cardinality(Capped) = TotalCap
    BY <1>1, <1>3, BestAreTheFirst DEF Capped
  <1>5. ASSUME NEW p \in Eligible \ Capped
        PROVE  LET better == {q \in Eligible : Better(q, p)}
               IN  \/ Cardinality({q \in better : q[1] = p[1]}) >= PieceTopK
                   \/ Cardinality(Capped \cap better) = TotalCap
    <2>1. CASE p \in TopOfPiece
      <3>1. Capped \cap {q \in Eligible : Better(q, p)} = Capped
        BY <1>3, <1>4, <2>1
      <3> QED BY <1>4, <2>1, <3>1
    <2>2. CASE p \notin TopOfPiece
      <3>1. p[1] \in Pieces
        BY PairsAreNumbers
      <3>2. p \notin Best(PieceTopK, Of(p[1]))
        BY <2>2, <3>1 DEF TopOfPiece
      <3>3. ~(Cardinality({q \in Of(p[1]) : Better(q, p)}) < PieceTopK)
        BY <3>2 DEF Best
      <3>4. {q \in Of(p[1]) : Better(q, p)} = {q \in {x \in Eligible : Better(x, p)} : q[1] = p[1]}
        OBVIOUS
      <3>5. Cardinality({q \in Of(p[1]) : Better(q, p)}) \in Nat
        <4>1. {q \in Of(p[1]) : Better(q, p)} \subseteq PiecePairs
          BY <1>2
        <4> QED BY <4>1, PairsFinite
      <3>6. Cardinality({q \in Of(p[1]) : Better(q, p)}) >= PieceTopK
        BY <1>1, <3>3, <3>5
      <3> QED BY <3>4, <3>6
    <2> QED BY <2>1, <2>2
  <1> QED BY <1>3, <1>4, <1>5

----------------------------------------------------------------------------
(* AutoWire: the call *)

LEMMA WireInvInit == WireInit => WireInv
  BY DEF WireInit, WireInv, WiringTyped, NearIsCapped, SavepointsAreTold, Degraded

\* Whatever a step does, the fields of the call it leaves alone.
SameSearch == /\ wiring'.pulled = wiring.pulled /\ wiring'.heard = wiring.heard
              /\ wiring'.hits = wiring.hits

LEMMA SameCandidates == SameSearch => Capped' = Capped /\ Eligible' = Eligible
  BY DEF SameSearch, Capped, TopOfPiece, Eligible, Best, Better, Score

(* Stage A searches and ranks; nothing is linked yet.                       *)
LEMMA StageAKeeps ==
    ASSUME WireInv, BeginWiring \/ RankPieces \/ \E c \in Pieces : SearchPiece(c)
    PROVE  WireInv'
  <1>1. /\ WiringTyped /\ wiring.fresh = {} /\ wiring.told = Degraded /\ wiring.broke = {}
        /\ pieceLinks = {} /\ answered = {} /\ wiring.near = Degraded
    BY DEF WireInv, SavepointsAreTold, NearIsCapped, BeginWiring, RankPieces, SearchPiece
  <1>2. /\ DOMAIN wiring' = DOMAIN wiring
        /\ wiring'.at \in {"search", "wire"}
        /\ wiring'.fresh = wiring.fresh /\ wiring'.told = wiring.told
        /\ wiring'.broke = wiring.broke /\ UNCHANGED <<pieceLinks, answered>>
    <2>1. CASE BeginWiring
      BY <1>1, <2>1 DEF BeginWiring, WiringTyped
    <2>2. CASE RankPieces
      BY <1>1, <2>2 DEF RankPieces, WiringTyped
    <2>3. CASE \E c \in Pieces : SearchPiece(c)
      BY <1>1, <2>3 DEF SearchPiece, WiringTyped
    <2> QED BY <2>1, <2>2, <2>3
  <1>3. wiring'.pulled \subseteq Neighbours /\ wiring'.heard \subseteq Pieces
    <2>1. CASE BeginWiring
      <3>1. Pulled \subseteq Neighbours
        BY DEF Pulled, Ranked
      <3>2. wiring'.pulled = Pulled /\ wiring'.heard = wiring.heard
        BY <1>1, <2>1 DEF BeginWiring, WiringTyped
      <3> QED BY <1>1, <3>1, <3>2 DEF WiringTyped
    <2>2. CASE RankPieces
      BY <1>1, <2>2 DEF RankPieces, WiringTyped
    <2>3. ASSUME NEW c \in Pieces, SearchPiece(c)
          PROVE  wiring'.pulled = wiring.pulled /\ wiring'.heard \subseteq wiring.heard \cup {c}
      <3>1. CASE wiring' = [wiring EXCEPT !.todo = @ \ {c}, !.hits[c] = Similar(c),
                                          !.heard = @ \cup {c}]
        BY <1>1, <3>1 DEF WiringTyped
      <3>2. CASE wiring' = [wiring EXCEPT !.todo = @ \ {c}]
        BY <1>1, <3>2 DEF WiringTyped
      <3> QED BY <2>3, <3>1, <3>2 DEF SearchPiece
    <2> QED BY <1>1, <2>1, <2>2, <2>3 DEF WiringTyped
  <1>4. NearIsCapped'
    <2>1. CASE BeginWiring
      BY <1>1, <2>1 DEF BeginWiring, WiringTyped, NearIsCapped, Degraded
    <2>2. CASE RankPieces
      <3> DEFINE near == [c \in Pieces |-> {m \in Neighbours : <<c, m>> \in Capped}]
      <3>1. wiring' = [wiring EXCEPT !.at = "wire", !.todo = Pieces, !.near = near]
        BY <2>2 DEF RankPieces
      <3> HIDE DEF near
      <3>2. SameSearch /\ wiring'.at = "wire" /\ wiring'.near = near
        BY <1>1, <3>1 DEF WiringTyped, SameSearch
      <3>3. Capped' = Capped
        BY <3>2, SameCandidates
      <3>4. wiring'.near = [c \in Pieces |-> {m \in Neighbours : <<c, m>> \in Capped'}]
        BY <3>2, <3>3 DEF near
      <3> QED BY <3>2, <3>4 DEF NearIsCapped
    <2>3. CASE \E c \in Pieces : SearchPiece(c)
      BY <1>1, <2>3 DEF SearchPiece, WiringTyped, NearIsCapped, Degraded
    <2> QED BY <2>1, <2>2, <2>3
  <1>5. SavepointsAreTold'
    BY <1>1, <1>2 DEF SavepointsAreTold, Degraded
  <1>6. WiringTyped'
    BY <1>1, <1>2, <1>3 DEF WiringTyped
  <1> QED BY <1>4, <1>5, <1>6 DEF WireInv

(* What a piece is to be linked to are memories, by its own index.          *)
LEMMA WiredPairs ==
    ASSUME WireInv, wiring.at = "wire", NEW c \in Pieces
    PROVE  /\ Wired(c) \subseteq PiecePairs
           /\ \A p \in Wired(c) : p = <<c, p[2]>> /\ p[2] \in Neighbours
           /\ {p[2] : p \in Wired(c)} = {m \in Neighbours : <<c, m>> \in Wired(c)}
  <1>1. wiring.near[c] \subseteq Neighbours
    BY DEF WireInv, NearIsCapped, Degraded
  <1>2. \A p \in Wired(c) : p = <<c, p[2]>> /\ p[2] \in Neighbours
    BY <1>1 DEF Wired
  <1> QED BY <1>1, <1>2 DEF Wired, PiecePairs

\* The step of a piece: W is linked, the pieces B are broken, t is told.
Linked(c, W, B, t) ==
    /\ DOMAIN wiring' = DOMAIN wiring /\ wiring'.at = "wire"
    /\ SameSearch /\ wiring'.near = wiring.near
    /\ wiring'.todo = wiring.todo \ {c}
    /\ wiring'.fresh = wiring.fresh \cup W
    /\ wiring'.broke = wiring.broke \cup B
    /\ wiring'.told = [wiring.told EXCEPT ![c] = t]

(* A savepoint links one piece, or nothing of it.                           *)
LEMMA WirePieceKeeps ==
    ASSUME WireInv, NEW c \in Pieces, WirePiece(c)
    PROVE  WireInv'
  <1>1. WiringTyped /\ SavepointsAreTold /\ NearIsCapped /\ wiring.at = "wire" /\ c \in wiring.todo
    BY DEF WireInv, WirePiece
  <1>2. \/ Linked(c, Wired(c), {}, {p[2] : p \in Wired(c)})
        \/ Linked(c, {}, {c}, {})
    <2>1. wiring.told[c] = {}
      BY <1>1 DEF SavepointsAreTold
    <2>2. CASE wiring' = [wiring EXCEPT !.todo = @ \ {c}, !.fresh = @ \cup Wired(c),
                                        !.told[c] = {p[2] : p \in Wired(c)}]
      <3> DEFINE W == Wired(c)
                 t == {p[2] : p \in Wired(c)}
      <3>1. wiring' = [wiring EXCEPT !.todo = @ \ {c}, !.fresh = @ \cup W, !.told[c] = t]
        BY <2>2
      <3> HIDE DEF W, t
      <3>2. Linked(c, W, {}, t)
        BY <1>1, <3>1 DEF WiringTyped, SameSearch, Linked
      <3> QED BY <3>2 DEF W, t
    <2>3. CASE \E part \in SUBSET Wired(c) :
                 wiring' = [wiring EXCEPT !.todo = @ \ {c}, !.fresh = @ \cup RolledBack(part),
                                          !.broke = @ \cup {c}]
      <3>1. wiring' = [wiring EXCEPT !.todo = @ \ {c}, !.fresh = @ \cup {}, !.broke = @ \cup {c}]
        BY <2>3 DEF RolledBack
      <3>2. wiring.told = [wiring.told EXCEPT ![c] = {}]
        BY <1>1, <2>1 DEF WiringTyped
      <3> QED BY <1>1, <3>1, <3>2 DEF WiringTyped, SameSearch, Linked
    <2> QED BY <2>2, <2>3 DEF WirePiece
  <1>3. PICK W, B, t :
          /\ Linked(c, W, B, t)
          /\ W \subseteq PiecePairs /\ t \subseteq Neighbours
          /\ \A p \in W : p = <<c, p[2]>>
          /\ t = {m \in Neighbours : <<c, m>> \in W}
          /\ B \subseteq {c} /\ (B # {} => t = {})
    <2>1. CASE Linked(c, Wired(c), {}, {p[2] : p \in Wired(c)})
      <3> DEFINE t == {m \in Neighbours : <<c, m>> \in Wired(c)}
      <3>1. Linked(c, Wired(c), {}, t)
        BY <1>1, <2>1, WiredPairs
      <3> QED BY <1>1, <3>1, WiredPairs
    <2>2. CASE Linked(c, {}, {c}, {})
      BY <2>2
    <2> QED BY <1>2, <2>1, <2>2
  <1>4. UNCHANGED <<pieceLinks, answered>>
    BY DEF WirePiece
  <1>5. NearIsCapped'
    <2>1. Capped' = Capped
      BY <1>3, SameCandidates DEF Linked
    <2> QED BY <1>1, <1>3, <2>1 DEF NearIsCapped, Degraded, Linked
  <1>6. \A x \in Pieces : wiring'.told[x] = IF x = c THEN t ELSE wiring.told[x]
    BY <1>1, <1>3 DEF WiringTyped, Linked
  <1>7. WiringTyped'
    BY <1>1, <1>3 DEF WiringTyped, SameSearch, Linked
  <1>8. SavepointsAreTold'
    <2>1. ASSUME NEW x \in Pieces
          PROVE  /\ wiring'.told[x] = {m \in Neighbours : <<x, m>> \in wiring'.fresh}
                 /\ x \in wiring'.todo => x \notin wiring'.broke
                 /\ x \in wiring'.todo \cup wiring'.broke => wiring'.told[x] = {}
      <3>1. /\ wiring.told[x] = {m \in Neighbours : <<x, m>> \in wiring.fresh}
            /\ x \in wiring.todo => x \notin wiring.broke
            /\ x \in wiring.todo \cup wiring.broke => wiring.told[x] = {}
        BY <1>1 DEF SavepointsAreTold
      <3>2. CASE x = c
        BY <1>1, <1>3, <1>6, <3>1, <3>2 DEF Linked
      <3>3. CASE x # c
        <4>1. \A m : <<x, m>> \notin W
          BY <1>3, <3>3
        <4> QED BY <1>3, <1>6, <3>1, <3>3, <4>1 DEF Linked
      <3> QED BY <3>2, <3>3
    <2> QED BY <1>1, <1>3, <1>4, <2>1 DEF SavepointsAreTold, Linked
  <1> QED BY <1>5, <1>7, <1>8 DEF WireInv

LEMMA WireInvNext == WireInv /\ [WireNext]_wireVars => WireInv'
  <1> SUFFICES ASSUME WireInv, [WireNext]_wireVars PROVE WireInv'
    OBVIOUS
  <1>1. WiringTyped /\ SavepointsAreTold /\ NearIsCapped
    BY DEF WireInv
  <1>2. CASE BeginWiring \/ RankPieces \/ \E c \in Pieces : SearchPiece(c)
    BY <1>2, StageAKeeps
  <1>3. CASE \E c \in Pieces : WirePiece(c)
    BY <1>3, WirePieceKeeps
  <1>4. CASE CommitPieces
    <2>1. /\ DOMAIN wiring' = DOMAIN wiring /\ wiring'.at = "made"
          /\ SameSearch /\ wiring'.fresh = wiring.fresh /\ wiring'.told = wiring.told
      BY <1>1, <1>4 DEF CommitPieces, WiringTyped, SameSearch
    <2> QED BY <1>1, <2>1 DEF WireInv, WiringTyped, NearIsCapped, SavepointsAreTold, SameSearch
  <1>5. ASSUME UNCHANGED wiring,
               wiring.at = "made" \/ pieceLinks' \subseteq pieceLinks,
               UNCHANGED answered \/ wiring.at = "made"
        PROVE  WireInv'
    <2>1. Capped' = Capped
      BY <1>5, SameCandidates DEF SameSearch
    <2> QED BY <1>1, <1>5, <2>1 DEF WireInv, WiringTyped, NearIsCapped, SavepointsAreTold
  <1>6. CASE \/ ReplayWiring \/ \E m \in Neighbours : EndNeighbour(m) \/ IndexNeighbour(m)
             \/ \E p \in PiecePairs : LinkPiece(p)
    BY <1>5, <1>6 DEF ReplayWiring, EndNeighbour, IndexNeighbour, LinkPiece, Meddle
  <1>7. CASE UNCHANGED wireVars
    BY <1>5, <1>7 DEF wireVars
  <1> QED BY <1>2, <1>3, <1>4, <1>6, <1>7 DEF WireNext

(* The links that are kept are the best, and those that were left out had   *)
(* as many better ones as a cap allows.                                     *)
LEMMA CapsFollow == WireInv => CapsDropTheWorst
  <1> SUFFICES ASSUME WireInv, wiring.at = "wire" PROVE CapsDropTheWorst
    BY DEF CapsDropTheWorst
  <1> DEFINE kept == {p \in PiecePairs : p[2] \in wiring.near[p[1]]}
  <1>1. Eligible \subseteq PiecePairs
    BY DEF WireInv, WiringTyped, Eligible, PiecePairs
  <1>2. \A p \in PiecePairs : p = <<p[1], p[2]>> /\ p[1] \in Pieces /\ p[2] \in Neighbours
    BY PairsAreNumbers
  <1>3. CASE wiring.near = Degraded
    <2>1. kept = {}
      BY <1>2, <1>3 DEF Degraded
    <2> HIDE DEF kept
    <2>2. Cardinality(kept) <= TotalCap
      BY <2>1, FS_EmptySet, WiringShapes
    <2> QED BY <2>1, <2>2 DEF CapsDropTheWorst, kept
  <1>4. CASE wiring.near = [c \in Pieces |-> {m \in Neighbours : <<c, m>> \in Capped}]
    <2>1. /\ Capped \subseteq Eligible /\ Cardinality(Capped) <= TotalCap
          /\ \A p \in Eligible \ Capped :
                LET better == {q \in Eligible : Better(q, p)}
                IN  \/ Cardinality({q \in better : q[1] = p[1]}) >= PieceTopK
                    \/ Cardinality(Capped \cap better) = TotalCap
      BY <1>1, CappedAreTheBest
    <2>2. kept = Capped
      BY <1>1, <1>2, <1>4, <2>1
    <2> HIDE DEF kept
    <2>3. /\ Cardinality(kept) <= TotalCap
          /\ kept # {} => \A p \in Eligible \ kept :
                LET better == {q \in Eligible : Better(q, p)}
                IN  \/ Cardinality({q \in better : q[1] = p[1]}) >= PieceTopK
                    \/ Cardinality(kept \cap better) = TotalCap
      BY <2>1, <2>2
    <2> QED BY <2>3 DEF CapsDropTheWorst, kept
  <1> QED BY <1>3, <1>4 DEF WireInv, NearIsCapped

(* mem_decompose wires each piece to the best neighbours within the caps,   *)
(* whatever its searches find, and its first answer tells the links that    *)
(* its savepoints left, whichever of them broke (_attach_autowire, ...).    *)
THEOREM PiecesAreWired == WireSpec => PiecesAreWiredWell
  <1>1. WireInit => WireInv
    BY WireInvInit
  <1>2. WireInv /\ [WireNext]_wireVars => WireInv'
    BY WireInvNext
  <1>3. WireInv /\ [WireNext]_wireVars =>
          [wiring.at = "wire" /\ wiring'.at = "made" =>
              \A a \in answered' : \A c \in Pieces :
                  /\ a.links[c] = {m \in Neighbours : <<c, m>> \in pieceLinks'}
                  /\ c \in wiring.broke => a.links[c] = {}]_wireVars
    <2> SUFFICES ASSUME WireInv, WireNext, wiring.at = "wire", wiring'.at = "made",
                        NEW a \in answered', NEW c \in Pieces
                 PROVE  /\ a.links[c] = {m \in Neighbours : <<c, m>> \in pieceLinks'}
                        /\ c \in wiring.broke => a.links[c] = {}
      OBVIOUS
    <2>1. WiringTyped /\ SavepointsAreTold
      BY DEF WireInv
    <2>2. CommitPieces
      <3>1. ASSUME NEW x \in Pieces, WirePiece(x) PROVE FALSE
        <4>1. wiring'.at = wiring.at
          BY <2>1, <3>1 DEF WirePiece, WiringTyped
        <4> QED BY <4>1
      <3> QED BY <3>1 DEF WireNext, BeginWiring, RankPieces, SearchPiece, ReplayWiring,
                          EndNeighbour, IndexNeighbour, LinkPiece
    <2>3. a.links = wiring.told /\ pieceLinks' = wiring.fresh
      BY <2>1, <2>2 DEF CommitPieces, SavepointsAreTold
    <2> QED BY <2>1, <2>3 DEF SavepointsAreTold
  <1> QED BY <1>1, <1>2, <1>3, CapsFollow, PTL
         DEF WireSpec, PiecesAreWiredWell, FirstAnswerIsCommitted

=============================================================================
