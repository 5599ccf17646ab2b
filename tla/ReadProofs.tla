----------------------------- MODULE ReadProofs -----------------------------
(***************************************************************************)
(* Proofs about what reads of the stores give: Traversal, Reports, Related, *)
(* ContextPack and Search, for any rows, requests, limits and changes by    *)
(* others.                                                                  *)
(***************************************************************************)
EXTENDS Traversal, Answers, ContextPack, FiniteSetTheorems, WellFoundedInduction, TLAPS

(* A set of numbers has a least one.                                        *)
LEMMA Smallest ==
    ASSUME NEW S, S \subseteq Nat, S # {}
    PROVE  \E n \in S : \A k \in S : n <= k
  <1>1. PICK n \in S : \A k \in S : ~(<<k, n>> \in OpToRel(<, Nat))
    BY NatLessThanWellFounded, WFMin
  <1>2. \A k \in S : ~(k < n)
    BY <1>1 DEF OpToRel
  <1>3. \A k \in S : n <= k
    BY <1>2
  <1> QED BY <1>3

(* What one more element does to a sequence.                                *)
LEMMA Appended ==
    ASSUME NEW S, NEW s \in Seq(S), NEW v \in S
    PROVE  /\ Append(s, v) \in Seq(S) /\ Len(Append(s, v)) = Len(s) + 1
           /\ Last(Append(s, v)) = v
           /\ ToSet(Append(s, v)) = ToSet(s) \cup {v}
  <1> DEFINE t == Append(s, v)
  <1>1. t \in Seq(S) /\ Len(t) = Len(s) + 1 /\ Len(s) \in Nat /\ DOMAIN t = 1..(Len(s) + 1)
    OBVIOUS
  <1>2. t[Len(s) + 1] = v /\ \A i \in 1..Len(s) : t[i] = s[i]
    OBVIOUS
  <1>3. 1..(Len(s) + 1) = (1..Len(s)) \cup {Len(s) + 1} /\ DOMAIN s = 1..Len(s)
    BY <1>1
  <1> HIDE DEF t
  <1>4. ToSet(t) = ToSet(s) \cup {v}
    <2>1. ToSet(t) = {t[i] : i \in (1..Len(s)) \cup {Len(s) + 1}}
      BY <1>1, <1>3 DEF ToSet
    <2>2. ToSet(s) = {s[i] : i \in 1..Len(s)}
      BY <1>3 DEF ToSet
    <2> QED BY <1>2, <2>1, <2>2
  <1>5. Last(t) = v
    BY <1>1, <1>2 DEF Last
  <1> QED BY <1>1, <1>4, <1>5 DEF t

----------------------------------------------------------------------------
(* Traversal: what the recursions say                                       *)

PathsTo(f, store, dir, n) ==
    f = [k \in 0..n |-> IF k = 0 THEN {StartPath}
                        ELSE UNION {Longer(store, dir, p) : p \in f[k - 1]}]

(* The paths of length k + 1 are those of length k made longer: the         *)
(* recursion has a solution, which OfLength then is.                        *)
LEMMA OfLengthUnfolds ==
    ASSUME NEW store, NEW dir
    PROVE  PathsTo(OfLength(store, dir), store, dir, MaxHops)
  <1> DEFINE grow(S) == UNION {Longer(store, dir, p) : p \in S}
             bad == {n \in Nat : ~\E g : PathsTo(g, store, dir, n)}
  <1>1. bad = {}
    <2> SUFFICES ASSUME bad # {} PROVE FALSE
      OBVIOUS
    <2>1. PICK n \in bad : \A k \in bad : n <= k
      BY Smallest
    <2>2. CASE n = 0
      <3> DEFINE g == [k \in 0..0 |-> {StartPath}]
      <3>1. g = [k \in 0..0 |-> IF k = 0 THEN {StartPath}
                                ELSE UNION {Longer(store, dir, p) : p \in g[k - 1]}]
        OBVIOUS
      <3> QED BY <2>1, <2>2, <3>1 DEF PathsTo
    <2>3. CASE n # 0
      <3>1. n \in Nat /\ n - 1 \in Nat /\ n - 1 \notin bad
        BY <2>1, <2>3
      <3>2. PICK g : PathsTo(g, store, dir, n - 1)
        BY <3>1
      <3> DEFINE h == [k \in 0..n |-> IF k = n THEN grow(g[n - 1]) ELSE g[k]]
      <3>3. \A k \in 0..(n - 1) :
               h[k] = g[k] /\ g[k] = IF k = 0 THEN {StartPath} ELSE grow(g[k - 1])
        <4>1. \A k \in 0..(n - 1) : k \in 0..n /\ k # n
          BY <3>1
        <4>2. \A k \in 0..(n - 1) : h[k] = g[k]
          BY <4>1
        <4> HIDE DEF h
        <4> QED BY <3>2, <4>2 DEF PathsTo
      <3>4. h[n] = grow(g[n - 1])
        BY <3>1
      <3>5. ASSUME NEW k \in 0..n
            PROVE  h[k] = IF k = 0 THEN {StartPath} ELSE grow(h[k - 1])
        <4>1. CASE k = n
          <5>1. h[n - 1] = g[n - 1]
            BY <3>1, <3>3
          <5> HIDE DEF h, grow
          <5> QED BY <2>3, <3>4, <4>1, <5>1
        <4>2. CASE k # n
          <5>1. k \in 0..(n - 1) /\ (k # 0 => k - 1 \in 0..(n - 1))
            BY <3>1, <4>2
          <5> HIDE DEF h, grow
          <5> QED BY <3>3, <5>1
        <4> QED BY <4>1, <4>2
      <3>6. PathsTo(h, store, dir, n)
        <4>1. h = [k \in 0..n |-> h[k]]
          OBVIOUS
        <4> HIDE DEF h
        <4> QED BY <3>5, <4>1 DEF PathsTo
      <3> QED BY <2>1, <3>6
    <2> QED BY <2>2, <2>3
  <1>2. PICK g : PathsTo(g, store, dir, MaxHops)
    BY <1>1, WalkBounds
  <1> QED BY <1>2 DEF PathsTo, OfLength

RingsTo(f, r, open, n) ==
    f = [k \in 0..n |-> IF k = 0 THEN {WalkOrigin}
                        ELSE f[k - 1] \cup Joined(r, open, f[k - 1])]

(* The same of the nodes within k relations of the start.                   *)
LEMMA WithinUnfolds ==
    ASSUME NEW r, NEW open
    PROVE  RingsTo(Within(r, open), r, open, MaxHops)
  <1> DEFINE grow(S) == S \cup Joined(r, open, S)
             bad == {n \in Nat : ~\E g : RingsTo(g, r, open, n)}
  <1>1. bad = {}
    <2> SUFFICES ASSUME bad # {} PROVE FALSE
      OBVIOUS
    <2>1. PICK n \in bad : \A k \in bad : n <= k
      BY Smallest
    <2>2. CASE n = 0
      <3> DEFINE g == [k \in 0..0 |-> {WalkOrigin}]
      <3>1. g = [k \in 0..0 |-> IF k = 0 THEN {WalkOrigin}
                                ELSE g[k - 1] \cup Joined(r, open, g[k - 1])]
        OBVIOUS
      <3> QED BY <2>1, <2>2, <3>1 DEF RingsTo
    <2>3. CASE n # 0
      <3>1. n \in Nat /\ n - 1 \in Nat /\ n - 1 \notin bad
        BY <2>1, <2>3
      <3>2. PICK g : RingsTo(g, r, open, n - 1)
        BY <3>1
      <3> DEFINE h == [k \in 0..n |-> IF k = n THEN grow(g[n - 1]) ELSE g[k]]
      <3>3. \A k \in 0..(n - 1) :
               h[k] = g[k] /\ g[k] = IF k = 0 THEN {WalkOrigin} ELSE grow(g[k - 1])
        <4>1. \A k \in 0..(n - 1) : k \in 0..n /\ k # n
          BY <3>1
        <4>2. \A k \in 0..(n - 1) : h[k] = g[k]
          BY <4>1
        <4> HIDE DEF h
        <4> QED BY <3>2, <4>2 DEF RingsTo
      <3>4. h[n] = grow(g[n - 1])
        BY <3>1
      <3>5. ASSUME NEW k \in 0..n
            PROVE  h[k] = IF k = 0 THEN {WalkOrigin} ELSE grow(h[k - 1])
        <4>1. CASE k = n
          <5>1. h[n - 1] = g[n - 1]
            BY <3>1, <3>3
          <5> HIDE DEF h, grow
          <5> QED BY <2>3, <3>4, <4>1, <5>1
        <4>2. CASE k # n
          <5>1. k \in 0..(n - 1) /\ (k # 0 => k - 1 \in 0..(n - 1))
            BY <3>1, <4>2
          <5> HIDE DEF h, grow
          <5> QED BY <3>3, <5>1
        <4> QED BY <4>1, <4>2
      <3>6. RingsTo(h, r, open, n)
        <4>1. h = [k \in 0..n |-> h[k]]
          OBVIOUS
        <4> HIDE DEF h
        <4> QED BY <3>5, <4>1 DEF RingsTo
      <3> QED BY <2>1, <3>6
    <2> QED BY <2>2, <2>3
  <1>2. PICK g : RingsTo(g, r, open, MaxHops)
    BY <1>1, WalkBounds
  <1> QED BY <1>2 DEF RingsTo, Within

(* So the paths of k + 1 relations extend those of k, and the nodes within  *)
(* k + 1 relations are joined to those within k.                            *)
LEMMA PathsGrow ==
    ASSUME NEW store, NEW dir
    PROVE  /\ OfLength(store, dir)[0] = {StartPath}
           /\ \A k \in 1..MaxHops :
                 OfLength(store, dir)[k] =
                     UNION {Longer(store, dir, p) : p \in OfLength(store, dir)[k - 1]}
  <1> DEFINE f == OfLength(store, dir)
  <1>1. PathsTo(f, store, dir, MaxHops)
    BY OfLengthUnfolds
  <1> HIDE DEF f
  <1>2. 0 \in 0..MaxHops /\ \A k \in 1..MaxHops : k \in 0..MaxHops /\ k # 0
    BY WalkBounds
  <1>3. f[0] = {StartPath}
    BY <1>1, <1>2 DEF PathsTo
  <1>4. \A k \in 1..MaxHops : f[k] = UNION {Longer(store, dir, p) : p \in f[k - 1]}
    BY <1>1, <1>2 DEF PathsTo
  <1> QED BY <1>3, <1>4 DEF f

(* ... in the form that the inductions need.                                *)
LEMMA RingsGrow ==
    ASSUME NEW r, NEW open
    PROVE  /\ Within(r, open)[0] = {WalkOrigin}
           /\ \A k \in 1..MaxHops :
                 Within(r, open)[k] =
                     Within(r, open)[k - 1] \cup Joined(r, open, Within(r, open)[k - 1])
  <1> DEFINE f == Within(r, open)
  <1>1. RingsTo(f, r, open, MaxHops)
    BY WithinUnfolds
  <1> HIDE DEF f
  <1>2. 0 \in 0..MaxHops /\ \A k \in 1..MaxHops : k \in 0..MaxHops /\ k # 0
    BY WalkBounds
  <1>3. f[0] = {WalkOrigin}
    BY <1>1, <1>2 DEF RingsTo
  <1>4. \A k \in 1..MaxHops : f[k] = f[k - 1] \cup Joined(r, open, f[k - 1])
    BY <1>1, <1>2 DEF RingsTo
  <1> QED BY <1>3, <1>4 DEF f

(* What a function makes of a finite set is finite.                         *)
LEMMA ImageIsFinite ==
    ASSUME NEW S, IsFiniteSet(S), NEW f, f = [x \in S |-> f[x]]
    PROVE  IsFiniteSet({f[x] : x \in S})
  <1> DEFINE T == {f[x] : x \in S}
  <1>1. f \in [S -> T]
    OBVIOUS
  <1>2. \A t \in T : \E s \in S : f[s] = t
    OBVIOUS
  <1>3. f \in Surjection(S, T)
    BY <1>1, <1>2 DEF Surjection
  <1> QED BY <1>3, FS_Surjection

\* What every state satisfies of the graph.
GraphOK == /\ walkLinks \subseteq LinkChoices /\ IsFiniteSet(walkLinks)
           /\ hidden \subseteq MemoryNodes \ {WalkOrigin}

\* A path of k relations from the start.
PathOK(p, k) ==
    /\ p.nodes \in Seq(Vertices) /\ Len(p.nodes) = k + 1
    /\ p.edges \in Seq(walkLinks) /\ Len(p.edges) = k
    /\ p.tie \in Nat
    /\ \A e \in ToSet(p.edges) : e.src \in ToSet(p.nodes) /\ e.dst \in ToSet(p.nodes)

(* The empty path.                                                          *)
LEMMA StartIsPath ==
    /\ PathOK(StartPath, 0) /\ ToSet(StartPath.nodes) = {WalkOrigin}
    /\ ToSet(StartPath.edges) = {} /\ Last(StartPath.nodes) = WalkOrigin
  <1>1. WalkOrigin \in Vertices
    BY OriginIsNode DEF Vertices
  <1>2. /\ StartPath.nodes = <<WalkOrigin>> /\ StartPath.edges = << >> /\ StartPath.tie = 0
    BY DEF StartPath
  <1>3. /\ <<WalkOrigin>> \in Seq(Vertices) /\ Len(<<WalkOrigin>>) = 1
        /\ << >> \in Seq(walkLinks) /\ Len(<< >>) = 0
        /\ DOMAIN <<WalkOrigin>> = {1} /\ <<WalkOrigin>>[1] = WalkOrigin
        /\ DOMAIN << >> = {}
    BY <1>1
  <1>4. ToSet(<<WalkOrigin>>) = {WalkOrigin} /\ ToSet(<< >>) = {}
    BY <1>3 DEF ToSet
  <1>5. Last(<<WalkOrigin>>) = WalkOrigin
    BY <1>3 DEF Last
  <1> QED BY <1>2, <1>3, <1>4, <1>5 DEF PathOK

\* What a path gains with e.
Gains(p, e, v) ==
    /\ Last(Along(p, e).nodes) = v
    /\ ToSet(Along(p, e).nodes) = ToSet(p.nodes) \cup {v}
    /\ ToSet(Along(p, e).edges) = ToSet(p.edges) \cup {e}
    /\ Last(p.nodes) \in ToSet(p.nodes)
    /\ {e.src, e.dst} = {Last(p.nodes), v}

(* One relation more.                                                       *)
LEMMA AlongIsPath ==
    ASSUME GraphOK, NEW dir, NEW k \in Nat, NEW p, PathOK(p, k), NEW e \in walkLinks,
           Leaves(e, Last(p.nodes), dir)
    PROVE  PathOK(Along(p, e), k + 1) /\ Gains(p, e, Far(e, Last(p.nodes)))
  <1> DEFINE u == Last(p.nodes)
             v == Far(e, u)
  <1>1. e.src \in Vertices /\ e.dst \in Vertices /\ e.src \in Nat /\ e.dst \in Nat
    BY LinksJoinNodes, NodeKinds DEF GraphOK
  <1>2. /\ p.nodes \in Seq(Vertices) /\ Len(p.nodes) = k + 1 /\ p.edges \in Seq(walkLinks)
        /\ Len(p.edges) = k /\ p.tie \in Nat
    BY DEF PathOK
  <1>3. v \in Vertices
    BY <1>1 DEF Far
  <1>4. u \in ToSet(p.nodes)
    <2>1. k + 1 \in DOMAIN p.nodes /\ u = p.nodes[k + 1]
      BY <1>2 DEF Last
    <2> QED BY <2>1 DEF ToSet
  <1>5. {e.src, e.dst} = {u, v}
    BY DEF Leaves, Far
  <1>6. /\ Along(p, e).nodes = Append(p.nodes, v) /\ Along(p, e).edges = Append(p.edges, e)
        /\ Along(p, e).tie = 100 * p.tie + 10 * e.src + e.dst
    BY DEF Along
  <1>7. /\ Append(p.nodes, v) \in Seq(Vertices) /\ Len(Append(p.nodes, v)) = Len(p.nodes) + 1
        /\ Last(Append(p.nodes, v)) = v /\ ToSet(Append(p.nodes, v)) = ToSet(p.nodes) \cup {v}
    BY <1>2, <1>3, Appended
  <1>8. /\ Append(p.edges, e) \in Seq(walkLinks) /\ Len(Append(p.edges, e)) = Len(p.edges) + 1
        /\ ToSet(Append(p.edges, e)) = ToSet(p.edges) \cup {e}
    BY <1>2, Appended
  <1> HIDE DEF u, v
  <1>9. \A x \in ToSet(Along(p, e).edges) :
           x.src \in ToSet(Along(p, e).nodes) /\ x.dst \in ToSet(Along(p, e).nodes)
    <2>1. e.src \in {u, v} /\ e.dst \in {u, v}
      BY <1>5
    <2>2. {u, v} \subseteq ToSet(p.nodes) \cup {v}
      BY <1>4
    <2>3. \A x \in ToSet(p.edges) : x.src \in ToSet(p.nodes) /\ x.dst \in ToSet(p.nodes)
      BY DEF PathOK
    <2> QED BY <1>6, <1>7, <1>8, <2>1, <2>2, <2>3
  <1>10. 100 * p.tie + 10 * e.src + e.dst \in Nat
    <2>1. \A a, b, c \in Nat : 100 * a + 10 * b + c \in Nat
      OBVIOUS
    <2> QED BY <1>1, <1>2, <2>1
  <1>11. PathOK(Along(p, e), k + 1)
    BY <1>2, <1>6, <1>7, <1>8, <1>9, <1>10 DEF PathOK
  <1>12. Gains(p, e, v)
    BY <1>4, <1>5, <1>6, <1>7, <1>8 DEF Gains, u
  <1> QED BY <1>11, <1>12 DEF u, v

(* Whatever the recursion builds is such a path, and there are finitely many.*)
LEMMA PathsAreOK ==
    ASSUME GraphOK, NEW store, NEW dir, NEW k \in 0..MaxHops
    PROVE  /\ \A p \in OfLength(store, dir)[k] : PathOK(p, k)
           /\ IsFiniteSet(OfLength(store, dir)[k])
  <1> DEFINE f == OfLength(store, dir)
             good(n) == (\A p \in f[n] : PathOK(p, n)) /\ IsFiniteSet(f[n])
             bad == {n \in 0..MaxHops : ~good(n)}
  <1>1. f[0] = {StartPath} /\ \A n \in 1..MaxHops : f[n] = UNION {Longer(store, dir, p) : p \in f[n - 1]}
    BY PathsGrow
  <1> HIDE DEF f
  <1>2. bad = {}
    <2> SUFFICES ASSUME bad # {} PROVE FALSE
      OBVIOUS
    <2>1. bad \subseteq Nat
      BY WalkBounds
    <2>2. PICK n \in bad : \A j \in bad : n <= j
      BY <2>1, Smallest
    <2>3. n # 0
      <3>1. ASSUME n = 0 PROVE good(n)
        <4>1. \A p \in f[0] : PathOK(p, 0)
          BY <1>1, StartIsPath
        <4>2. IsFiniteSet(f[0])
          BY <1>1, FS_Singleton
        <4> QED BY <3>1, <4>1, <4>2
      <3> QED BY <2>2, <3>1
    <2>4. n \in 1..MaxHops /\ n - 1 \in 0..MaxHops /\ n - 1 \notin bad /\ n - 1 \in Nat
      BY <2>2, <2>3, WalkBounds
    <2>5. good(n - 1) /\ f[n] = UNION {Longer(store, dir, p) : p \in f[n - 1]}
      BY <1>1, <2>4
    <2>6. \A p \in f[n] : PathOK(p, n)
      <3> SUFFICES ASSUME NEW q \in f[n - 1], NEW e \in walkLinks,
                          Leaves(e, Last(q.nodes), dir)
                   PROVE  PathOK(Along(q, e), n)
        BY <2>5 DEF Longer
      <3>1. PathOK(q, n - 1)
        BY <2>5
      <3>2. PathOK(Along(q, e), (n - 1) + 1)
        BY <2>4, <3>1, AlongIsPath
      <3> QED BY <2>4, <3>2
    <2>7. IsFiniteSet(f[n])
      <3>1. \A p : IsFiniteSet(Longer(store, dir, p))
        <4> TAKE p
        <4> DEFINE S == {x \in walkLinks : Leaves(x, Last(p.nodes), dir) /\ Extends(store, p, x)}
        <4>1. IsFiniteSet(S)
          BY FS_Subset DEF GraphOK
        <4> HIDE DEF S
        <4> DEFINE g == [e \in S |-> Along(p, e)]
        <4>2. g = [e \in S |-> g[e]]
          OBVIOUS
        <4>3. {g[e] : e \in S} = {Along(p, e) : e \in S}
          OBVIOUS
        <4> HIDE DEF g
        <4>4. IsFiniteSet({Along(p, e) : e \in S})
          BY <4>1, <4>2, <4>3, ImageIsFinite
        <4> QED BY <4>4 DEF Longer, S
      <3> DEFINE T == {Longer(store, dir, p) : p \in f[n - 1]}
      <3>2. IsFiniteSet(T)
        <4> DEFINE g == [p \in f[n - 1] |-> Longer(store, dir, p)]
        <4>1. g = [p \in f[n - 1] |-> g[p]]
          OBVIOUS
        <4>2. {g[p] : p \in f[n - 1]} = T
          OBVIOUS
        <4>3. IsFiniteSet(f[n - 1])
          BY <2>5
        <4> HIDE DEF g, T
        <4>4. IsFiniteSet({g[p] : p \in f[n - 1]})
          BY <4>1, <4>3, ImageIsFinite
        <4> QED BY <4>2, <4>4
      <3>3. \A x \in T : IsFiniteSet(x)
        BY <3>1
      <3> HIDE DEF T
      <3>4. IsFiniteSet(UNION T)
        BY <3>2, <3>3, FS_UNION
      <3> QED BY <2>5, <3>4 DEF T
    <2> QED BY <2>2, <2>6, <2>7
  <1> QED BY <1>2 DEF f

\* Its relations are of the types asked for, its nodes may be shown.
Admitted(p, r, store, all) ==
    /\ \A e \in ToSet(p.edges) : e.type \in r.types
    /\ ToSet(p.nodes) \subseteq OpenNodes(store, all)

(* A node may be shown exactly where _is_memory_visible says so.            *)
LEMMA VisibleIsOpen ==
    ASSUME NEW store \in Stores, NEW all \in BOOLEAN, NEW p, ToSet(p.nodes) \subseteq Vertices
    PROVE  PathVisible(store, p, all) <=> ToSet(p.nodes) \subseteq OpenNodes(store, all)
  <1>1. ASSUME NEW v \in Vertices
        PROVE  (ReadAs(store, v) = "memory" => v \in MemoryNodes /\ (all \/ v \notin hidden))
                  <=> v \in OpenNodes(store, all)
    <2>1. CASE v \in EntityNodes
      BY <2>1 DEF ReadAs, OpenNodes
    <2>2. CASE v \in MemoryNodes
      BY <2>2, NodeKinds DEF ReadAs, OpenNodes
    <2>3. CASE v \in TaskNodes
      <3>1. v \notin EntityNodes /\ v \notin MemoryNodes
        BY <2>3, NodeKinds
      <3> QED BY <2>3, <3>1, StoresKnown DEF ReadAs, OpenNodes
    <2> QED BY <2>1, <2>2, <2>3 DEF Vertices
  <1> QED BY <1>1 DEF PathVisible

(* The nodes within k relations are within more, and may be shown.          *)
LEMMA RingsNest ==
    ASSUME NEW r, NEW open, WalkOrigin \in open, NEW n \in 0..MaxHops
    PROVE  /\ WalkOrigin \in Within(r, open)[n] /\ Within(r, open)[n] \subseteq open
           /\ \A k \in 0..n : Within(r, open)[k] \subseteq Within(r, open)[n]
  <1> DEFINE f == Within(r, open)
             good(m) == /\ WalkOrigin \in f[m] /\ f[m] \subseteq open
                        /\ \A k \in 0..m : f[k] \subseteq f[m]
             bad == {m \in 0..MaxHops : ~good(m)}
  <1>1. f[0] = {WalkOrigin} /\ \A k \in 1..MaxHops : f[k] = f[k - 1] \cup Joined(r, open, f[k - 1])
    BY RingsGrow
  <1> HIDE DEF f
  <1>2. bad = {}
    <2> SUFFICES ASSUME bad # {} PROVE FALSE
      OBVIOUS
    <2>1. bad \subseteq Nat
      BY WalkBounds
    <2>2. PICK m \in bad : \A j \in bad : m <= j
      BY <2>1, Smallest
    <2>3. m # 0
      <3>1. ASSUME m = 0 PROVE good(m)
        <4>1. \A k \in 0..0 : k = 0
          OBVIOUS
        <4> QED BY <1>1, <3>1, <4>1
      <3> QED BY <2>2, <3>1
    <2>4. m \in 1..MaxHops /\ m - 1 \in 0..MaxHops /\ m - 1 \notin bad /\ m \in Nat
      BY <2>2, <2>3, WalkBounds
    <2>5. good(m - 1) /\ f[m] = f[m - 1] \cup Joined(r, open, f[m - 1])
      BY <1>1, <2>4
    <2>6. Joined(r, open, f[m - 1]) \subseteq open
      BY DEF Joined
    <2>7. \A k \in 0..m : k = m \/ k \in 0..(m - 1)
      BY <2>4
    <2>8. good(m)
      BY <2>5, <2>6, <2>7
    <2> QED BY <2>2, <2>8
  <1>3. good(n)
    BY <1>2
  <1> QED BY <1>3 DEF f

(* A path through nodes that may be shown ends within its length.           *)
LEMMA AdmittedEndsNear ==
    ASSUME GraphOK, NEW r, NEW store, NEW all \in BOOLEAN, NEW k \in 0..MaxHops,
           WalkOrigin \in OpenNodes(store, all),
           NEW p \in OfLength(store, r.dir)[k], Admitted(p, r, store, all)
    PROVE  Last(p.nodes) \in Within(r, OpenNodes(store, all))[k]
  <1> DEFINE f == OfLength(store, r.dir)
             open == OpenNodes(store, all)
             g == Within(r, open)
             good(n) == \A q \in f[n] : Admitted(q, r, store, all) => Last(q.nodes) \in g[n]
             bad == {n \in 0..MaxHops : ~good(n)}
  <1>1. f[0] = {StartPath}
        /\ \A n \in 1..MaxHops : f[n] = UNION {Longer(store, r.dir, q) : q \in f[n - 1]}
    BY PathsGrow
  <1>2. g[0] = {WalkOrigin} /\ \A n \in 1..MaxHops : g[n] = g[n - 1] \cup Joined(r, open, g[n - 1])
    BY RingsGrow
  <1>3. \A n \in 0..MaxHops : \A q \in f[n] : PathOK(q, n)
    BY PathsAreOK
  <1> HIDE DEF f, g
  <1>4. bad = {}
    <2> SUFFICES ASSUME bad # {} PROVE FALSE
      OBVIOUS
    <2>1. bad \subseteq Nat
      BY WalkBounds
    <2>2. PICK n \in bad : \A j \in bad : n <= j
      BY <2>1, Smallest
    <2>3. n # 0
      <3>1. ASSUME n = 0 PROVE good(n)
        BY <1>1, <1>2, <3>1, StartIsPath
      <3> QED BY <2>2, <3>1
    <2>4. n \in 1..MaxHops /\ n - 1 \in 0..MaxHops /\ n - 1 \notin bad /\ n - 1 \in Nat
      BY <2>2, <2>3, WalkBounds
    <2>5. good(n - 1)
      BY <2>4
    <2>6. good(n)
      <3> SUFFICES ASSUME NEW q \in f[n - 1], NEW e \in walkLinks,
                          Leaves(e, Last(q.nodes), r.dir),
                          Admitted(Along(q, e), r, store, all)
                   PROVE  Last(Along(q, e).nodes) \in g[n]
        BY <1>1, <2>4 DEF Longer
      <3> DEFINE v == Far(e, Last(q.nodes))
      <3>1. PathOK(q, n - 1)
        BY <1>3, <2>4
      <3>2. /\ Last(Along(q, e).nodes) = v
            /\ ToSet(Along(q, e).nodes) = ToSet(q.nodes) \cup {v}
            /\ ToSet(Along(q, e).edges) = ToSet(q.edges) \cup {e}
        <4> HIDE DEF v
        <4>1. Gains(q, e, Far(e, Last(q.nodes)))
          BY <2>4, <3>1, AlongIsPath
        <4> QED BY <4>1 DEF v, Gains
      <3> HIDE DEF v
      <3>3. Admitted(q, r, store, all) /\ v \in open /\ e.type \in r.types
        BY <3>2 DEF Admitted
      <3>4. Last(q.nodes) \in g[n - 1]
        BY <2>5, <3>3
      <3>5. v \in Joined(r, open, g[n - 1])
        BY <3>3, <3>4 DEF Joined, v
      <3> QED BY <1>2, <2>4, <3>2, <3>5
    <2> QED BY <2>2, <2>6
  <1>5. good(k)
    BY <1>4
  <1> QED BY <1>5 DEF f, g

(* A node within k relations is the end of a path: the one that leads through*)
(* each ring but the last to a node of the ring before is simple in either  *)
(* store's sense, since what it adds was in no earlier ring.                *)
LEMMA NearHasPath ==
    ASSUME GraphOK, NEW r, NEW store \in Stores, NEW all \in BOOLEAN, NEW k \in 0..MaxHops,
           WalkOrigin \in OpenNodes(store, all),
           NEW v \in Within(r, OpenNodes(store, all))[k]
    PROVE  \E j \in 0..k : \E p \in OfLength(store, r.dir)[j] :
              Last(p.nodes) = v /\ Admitted(p, r, store, all)
  <1> DEFINE f == OfLength(store, r.dir)
             open == OpenNodes(store, all)
             g == Within(r, open)
             led(w, n) == \E j \in 0..n : \E p \in f[j] :
                             /\ Last(p.nodes) = w /\ Admitted(p, r, store, all)
                             /\ ToSet(p.nodes) \subseteq g[n]
             good(n) == \A w \in g[n] : led(w, n)
             bad == {n \in 0..MaxHops : ~good(n)}
  <1>1. f[0] = {StartPath}
        /\ \A n \in 1..MaxHops : f[n] = UNION {Longer(store, r.dir, q) : q \in f[n - 1]}
    BY PathsGrow
  <1>2. g[0] = {WalkOrigin} /\ \A n \in 1..MaxHops : g[n] = g[n - 1] \cup Joined(r, open, g[n - 1])
    BY RingsGrow
  <1>3. \A n \in 0..MaxHops : \A q \in f[n] : PathOK(q, n)
    BY PathsAreOK
  <1>4. \A n \in 0..MaxHops : g[n] \subseteq open
    BY RingsNest
  <1> HIDE DEF f, g
  <1>5. bad = {}
    <2> SUFFICES ASSUME bad # {} PROVE FALSE
      OBVIOUS
    <2>1. bad \subseteq Nat
      BY WalkBounds
    <2>2. PICK n \in bad : \A j \in bad : n <= j
      BY <2>1, Smallest
    <2>3. n # 0
      <3>1. ASSUME n = 0 PROVE good(n)
        <4>1. Admitted(StartPath, r, store, all)
          BY StartIsPath DEF Admitted
        <4>2. 0 \in 0..0 /\ StartPath \in f[0] /\ ToSet(StartPath.nodes) \subseteq g[0]
          BY <1>1, <1>2, StartIsPath
        <4>3. led(WalkOrigin, 0)
          BY <4>1, <4>2, StartIsPath
        <4> QED BY <1>2, <3>1, <4>3
      <3> QED BY <2>2, <3>1
    <2>4. n \in 1..MaxHops /\ n - 1 \in 0..MaxHops /\ n - 1 \notin bad /\ n \in Nat /\ n - 1 \in Nat
      BY <2>2, <2>3, WalkBounds
    <2>5. good(n - 1) /\ g[n] = g[n - 1] \cup Joined(r, open, g[n - 1])
      BY <1>2, <2>4
    <2>6. ASSUME NEW w \in g[n] PROVE led(w, n)
      <3>1. CASE w \in g[n - 1]
        <4>1. PICK j \in 0..(n - 1) : \E p \in f[j] :
                     /\ Last(p.nodes) = w /\ Admitted(p, r, store, all)
                     /\ ToSet(p.nodes) \subseteq g[n - 1]
          BY <2>5, <3>1
        <4>2. j \in 0..n
          BY <2>4, <4>1
        <4> QED BY <2>5, <4>1, <4>2
      <3>2. CASE w \notin g[n - 1]
        <4>1. PICK e \in walkLinks, u \in g[n - 1] :
                 e.type \in r.types /\ Leaves(e, u, r.dir) /\ Far(e, u) = w
          BY <2>5, <3>2 DEF Joined
        <4>2. w \in open
          BY <1>4, <2>4
        <4>3. PICK j \in 0..(n - 1) : \E p \in f[j] :
                     /\ Last(p.nodes) = u /\ Admitted(p, r, store, all)
                     /\ ToSet(p.nodes) \subseteq g[n - 1]
          BY <2>5, <4>1
        <4>4. PICK p \in f[j] : /\ Last(p.nodes) = u /\ Admitted(p, r, store, all)
                                /\ ToSet(p.nodes) \subseteq g[n - 1]
          BY <4>3
        <4>5. j \in 0..MaxHops /\ j + 1 \in 1..MaxHops /\ j + 1 \in 0..n /\ (j + 1) - 1 = j /\ j \in Nat
          BY <2>4, <4>3, WalkBounds
        <4>6. PathOK(p, j)
          BY <1>3, <4>5
        <4>7. w \notin ToSet(p.nodes)
          BY <3>2, <4>4
        <4>8. /\ Last(Along(p, e).nodes) = w
              /\ ToSet(Along(p, e).nodes) = ToSet(p.nodes) \cup {w}
              /\ ToSet(Along(p, e).edges) = ToSet(p.edges) \cup {e}
              /\ {e.src, e.dst} = {u, w}
          <5>1. Leaves(e, Last(p.nodes), r.dir) /\ Far(e, Last(p.nodes)) = w
            BY <4>1, <4>4
          <5>2. Gains(p, e, Far(e, Last(p.nodes)))
            BY <4>5, <4>6, <5>1, AlongIsPath
          <5> QED BY <4>4, <5>1, <5>2 DEF Gains
        <4>9. e \notin ToSet(p.edges)
          <5>1. e.src = w \/ e.dst = w
            BY <4>8
          <5> QED BY <4>6, <4>7, <5>1 DEF PathOK
        <4>10. Extends(store, p, e)
          BY <4>1, <4>4, <4>7, <4>9 DEF Extends
        <4>11. Along(p, e) \in Longer(store, r.dir, p)
          BY <4>1, <4>4, <4>10 DEF Longer
        <4>12. Along(p, e) \in f[j + 1]
          <5>1. f[j + 1] = UNION {Longer(store, r.dir, q) : q \in f[j]}
            BY <1>1, <4>5
          <5> QED BY <4>4, <4>11, <5>1
        <4>13. Admitted(Along(p, e), r, store, all)
          BY <4>1, <4>2, <4>4, <4>8 DEF Admitted
        <4>14. ToSet(Along(p, e).nodes) \subseteq g[n]
          BY <2>5, <4>4, <4>8
        <4> QED BY <4>5, <4>8, <4>12, <4>13, <4>14
      <3> QED BY <3>1, <3>2
    <2> QED BY <2>2, <2>6
  <1>6. led(v, k)
    BY <1>5 DEF g
  <1> QED BY <1>6 DEF f

WalkRequest == [hops : 1..MaxHops, types : SUBSET AllTypes,
                kind : {"entity", "memory", "both"}, dir : {"out", "in", "both"},
                limit : Nat \ {0}, fallback : BOOLEAN]

(* What the walks of a request show, tasks apart, is what there is to find. *)
LEMMA HitsAreNearby ==
    ASSUME GraphOK, NEW r \in WalkRequest, NEW store \in Stores, NEW all \in BOOLEAN
    PROVE  Hits(store, Paths(store, r), all) \ TaskNodes = Nearby(r, store, all)
  <1> DEFINE open == OpenNodes(store, all)
             g == Within(r, open)
             f == OfLength(store, r.dir)
  <1>1. r.hops \in 1..MaxHops /\ r.hops \in 0..MaxHops /\ \A k \in 1..r.hops : k \in 0..MaxHops
    BY WalkBounds DEF WalkRequest
  <1>2. WalkOrigin \in open
    BY OriginIsNode DEF OpenNodes, GraphOK
  <1>3. \A k \in 0..r.hops : g[k] \subseteq g[r.hops]
    BY <1>1, <1>2, RingsNest
  <1>4. \A k \in 0..MaxHops : \A p \in f[k] : ToSet(p.nodes) \subseteq Vertices
    <2> SUFFICES ASSUME NEW k \in 0..MaxHops, NEW p \in f[k] PROVE ToSet(p.nodes) \subseteq Vertices
      OBVIOUS
    <2>1. p.nodes \in Seq(Vertices)
      BY PathsAreOK DEF PathOK
    <2> QED BY <2>1 DEF ToSet
  <1>5. ASSUME NEW v \in Hits(store, Paths(store, r), all) \ TaskNodes
        PROVE  v \in Nearby(r, store, all)
    <2>1. PICK p \in Paths(store, r) :
             Last(p.nodes) = v /\ v # WalkOrigin /\ PathVisible(store, p, all)
      BY <1>5 DEF Hits
    <2>2. PICK k \in 1..r.hops : p \in f[k]
      BY <2>1 DEF Paths
    <2>3. Admitted(p, r, store, all)
      <3>1. ToSet(p.nodes) \subseteq open
        BY <1>1, <1>4, <2>1, <2>2, VisibleIsOpen
      <3> QED BY <2>1, <3>1 DEF Admitted, Paths
    <2>4. v \in g[k]
      BY <1>1, <1>2, <2>1, <2>2, <2>3, AdmittedEndsNear
    <2>5. v \in g[r.hops]
      BY <1>1, <1>3, <2>2, <2>4
    <2>6. v \in KindsAsked(r)
      BY <2>1 DEF Paths
    <2> QED BY <1>5, <2>1, <2>5, <2>6 DEF Nearby
  <1>6. ASSUME NEW v \in Nearby(r, store, all)
        PROVE  v \in Hits(store, Paths(store, r), all) \ TaskNodes
    <2>1. v \in g[r.hops] /\ v \in KindsAsked(r) /\ v \notin TaskNodes /\ v # WalkOrigin
      BY DEF Nearby
    <2>2. PICK j \in 0..r.hops : \E p \in f[j] : Last(p.nodes) = v /\ Admitted(p, r, store, all)
      BY <1>1, <1>2, <2>1, NearHasPath
    <2>3. PICK p \in f[j] : Last(p.nodes) = v /\ Admitted(p, r, store, all)
      BY <2>2
    <2>4. j # 0
      <3>1. f[0] = {StartPath}
        BY PathsGrow
      <3> HIDE DEF f
      <3> QED BY <2>1, <2>3, <3>1, StartIsPath
    <2>5. j \in 1..r.hops /\ j \in 0..MaxHops
      BY <1>1, <2>2, <2>4
    <2>6. p \in Paths(store, r)
      BY <2>1, <2>3, <2>5 DEF Paths, Admitted
    <2>7. PathVisible(store, p, all)
      BY <1>4, <2>3, <2>5, VisibleIsOpen DEF Admitted
    <2> QED BY <2>1, <2>3, <2>6, <2>7 DEF Hits
  <1> QED BY <1>5, <1>6

----------------------------------------------------------------------------
(* Traversal: pages                                                         *)

\* The paths before an offset.
PathsBefore(paths, n) == {p \in paths : Before(paths, p) < n}

(* A page can be counted out, since the paths are finitely many.            *)
LEMMA PathsAreFinite ==
    ASSUME GraphOK, NEW r \in WalkRequest, NEW store
    PROVE  /\ IsFiniteSet(Paths(store, r)) /\ Cardinality(Paths(store, r)) \in Nat
           /\ \A p \in Paths(store, r) : Rank(p) \in Nat
  <1> DEFINE f == OfLength(store, r.dir)
             U == UNION {f[k] : k \in 1..r.hops}
  <1>1. r.hops \in Nat /\ \A k \in 1..r.hops : k \in 0..MaxHops
    BY WalkBounds DEF WalkRequest
  <1>2. \A k \in 1..r.hops : IsFiniteSet(f[k]) /\ \A p \in f[k] : PathOK(p, k)
    BY <1>1, PathsAreOK
  <1> HIDE DEF f
  <1>3. IsFiniteSet(U)
    <2> DEFINE D == 1..r.hops
               g == [k \in D |-> f[k]]
    <2>1. g = [k \in D |-> g[k]] /\ {g[k] : k \in D} = {f[k] : k \in D}
      OBVIOUS
    <2>2. IsFiniteSet(D)
      BY <1>1, FS_Interval
    <2> HIDE DEF g, D
    <2>3. IsFiniteSet({f[k] : k \in D})
      <3>1. IsFiniteSet({g[k] : k \in D})
        BY <2>1, <2>2, ImageIsFinite
      <3> QED BY <2>1, <3>1
    <2> USE DEF D
    <2>4. \A S \in {f[k] : k \in 1..r.hops} : IsFiniteSet(S)
      BY <1>2
    <2> QED BY <2>3, <2>4, FS_UNION
  <1>4. Paths(store, r) \subseteq U
    BY DEF Paths, f
  <1>5. IsFiniteSet(Paths(store, r))
    BY <1>3, <1>4, FS_Subset
  <1>6. ASSUME NEW p \in Paths(store, r) PROVE Rank(p) \in Nat
    <2>1. PICK k \in 1..r.hops : p \in f[k]
      BY <1>4
    <2>2. PathOK(p, k)
      BY <1>2, <2>1
    <2>3. k \in Nat /\ p.nodes \in Seq(Vertices) /\ Len(p.nodes) = k + 1 /\ Len(p.edges) = k
          /\ p.tie \in Nat
      BY <2>2 DEF PathOK
    <2>4. Last(p.nodes) \in Nat
      <3>1. p.nodes[k + 1] \in Vertices
        BY <2>3
      <3> QED BY <2>3, <3>1, NodeKinds DEF Last
    <2>5. \A a, b, c \in Nat : (a * 10 + b) * 1000000 + c \in Nat
      OBVIOUS
    <2> QED BY <2>3, <2>4, <2>5 DEF Rank
  <1> QED BY <1>5, <1>6, FS_CardinalityType

(* A page takes the paths on from where the one before ended, and what is   *)
(* before the number of paths is all of them.                               *)
LEMMA PagesAbut ==
    ASSUME NEW paths, IsFiniteSet(paths), \A p \in paths : Rank(p) \in Nat,
           NEW n \in Nat, NEW m \in Nat
    PROVE  /\ PathsBefore(paths, n + m) = PathsBefore(paths, n) \cup Page(paths, n, n + m)
           /\ Cardinality(paths) <= n => PathsBefore(paths, n) = paths
           /\ PathsBefore(paths, 0) = {}
  <1>1. ASSUME NEW p \in paths
        PROVE  Before(paths, p) \in Nat /\ Before(paths, p) < Cardinality(paths)
    <2> DEFINE S == {q \in paths : Rank(q) < Rank(p)}
    <2>1. S \subseteq paths /\ p \notin S
      OBVIOUS
    <2> HIDE DEF S
    <2>2. /\ IsFiniteSet(S) /\ Cardinality(S) <= Cardinality(paths)
          /\ Cardinality(paths) # Cardinality(S)
      BY <2>1, FS_Subset
    <2>3. Cardinality(S) \in Nat /\ Cardinality(paths) \in Nat
      BY <2>2, FS_CardinalityType
    <2> QED BY <2>2, <2>3 DEF Before, S
  <1>2. Cardinality(paths) \in Nat
    BY FS_CardinalityType
  <1>3. \A b \in Nat : b < n + m <=> b < n \/ b \in n..((n + m) - 1)
    OBVIOUS
  <1>4. PathsBefore(paths, n + m) = PathsBefore(paths, n) \cup Page(paths, n, n + m)
    <2>1. \A p \in paths : Before(paths, p) < n + m <=>
             Before(paths, p) < n \/ Before(paths, p) \in n..((n + m) - 1)
      BY <1>1, <1>3
    <2> QED BY <2>1 DEF PathsBefore, Page
  <1>5. ASSUME Cardinality(paths) <= n PROVE PathsBefore(paths, n) = paths
    <2>1. \A p \in paths : Before(paths, p) < n
      BY <1>1, <1>2, <1>5
    <2> QED BY <2>1 DEF PathsBefore
  <1>6. PathsBefore(paths, 0) = {}
    BY <1>1 DEF PathsBefore
  <1> QED BY <1>4, <1>5, <1>6

(* What two pages give together is what their rows give.                    *)
LEMMA HitsAddUp ==
    ASSUME NEW store, NEW all, NEW A, NEW B
    PROVE  /\ Hits(store, A \cup B, all) = Hits(store, A, all) \cup Hits(store, B, all)
           /\ Hits(store, {}, all) = {}
  BY DEF Hits

(* A cursor carries its offset.                                             *)
LEMMA CursorKeepsPlace ==
    ASSUME NEW r, NEW n PROVE StartOf(Cursor(r, n)) = n /\ StartOf(NoCursor) = 0
                              /\ Cursor(r, n) # NoCursor
  <1> DEFINE c == [shape |-> Shape(r), offset |-> n]
  <1>1. Cursor(r, n) = {c} /\ {c} # {} /\ c.offset = n
    BY DEF Cursor
  <1> HIDE DEF c
  <1>2. (CHOOSE x \in {c} : TRUE) = c
    OBVIOUS
  <1> QED BY <1>1, <1>2 DEF StartOf, NoCursor

----------------------------------------------------------------------------
(* Traversal: the invariant                                                 *)

\* A request on its way: now is asked, loosened as used says.
Loosened(w) ==
    /\ w.now.hops = IF "widen_hops" \in w.used THEN w.asked.hops + 1 ELSE w.asked.hops
    /\ "widen_hops" \in w.used => w.asked.hops < MaxHops
    /\ w.now.types \in {w.asked.types, AllTypes}
    /\ w.now.kind = w.asked.kind /\ w.now.dir = w.asked.dir
    /\ w.now.limit = w.asked.limit /\ w.now.fallback = w.asked.fallback
    /\ w.used = {} => w.now = w.asked /\ ~w.all
    /\ w.all => w.now = Loosest(w.asked)

GoingOn(w) ==
    /\ DOMAIN w = {"at", "store", "asked", "now", "all", "cursor", "rows", "next",
                   "used", "got", "ever"}
    /\ w.asked \in WalkRequest /\ w.now \in WalkRequest
    /\ w.store \in Stores /\ w.all \in BOOLEAN
    /\ StartOf(w.cursor) \in Nat
    /\ w.at = "resolve" => /\ StartOf(w.next) \in Nat
                           /\ \A p \in w.rows : Last(p.nodes) \in ToSet(p.nodes)
    /\ w.got \subseteq EntityNodes \cup MemoryNodes
    /\ Loosened(w)

\* What it has been given so far, while nothing changes.
QuietSoFar(w) ==
    LET from == StartOf(w.cursor)
        to == from + w.now.limit
        paths == Paths(w.store, w.now)
    IN  /\ w.at = "resolve" =>
             /\ w.rows = Page(paths, from, to)
             /\ w.next = IF Cardinality(paths) > to THEN Cursor(w.now, to) ELSE NoCursor
        /\ w.ever = {} /\ w.used = {} =>
             w.got = Hits(w.store, PathsBefore(Paths(w.store, w.asked), from), FALSE)
        /\ OnePage(w.store, Loosest(w.asked)) =>
             /\ w.cursor = NoCursor /\ w.got = {}
             /\ w.all => Hits(w.store, Paths(w.store, Loosest(w.asked)), FALSE) = {}

EndedWell(w) == /\ w.asked \in WalkRequest /\ w.store \in Stores
                /\ w.got \subseteq EntityNodes \cup MemoryNodes

QuietEnd(w) ==
    /\ w.ever = {} => w.got = Hits(w.store, Paths(w.store, w.asked), FALSE)
    /\ OnePage(w.store, Loosest(w.asked)) /\ w.got \cap hidden # {} =>
          Hits(w.store, Paths(w.store, Loosest(w.asked)), FALSE) = {}

WalkOK(w) ==
    /\ w.at \in {"query", "resolve"} => GoingOn(w) /\ (still => QuietSoFar(w))
    /\ w.at = "done" => EndedWell(w) /\ (still => QuietEnd(w))

WalkInv == GraphOK /\ WalkOK(walk)

----------------------------------------------------------------------------

(* The last request of the ladder is one the schema admits.                 *)
LEMMA LoosestIsRequest ==
    ASSUME NEW r \in WalkRequest
    PROVE  /\ Loosest(r) \in WalkRequest
           /\ Loosest(r).hops = IF r.hops < MaxHops THEN r.hops + 1 ELSE r.hops
           /\ Loosest(r).types = AllTypes /\ Loosest(r).limit = r.limit
           /\ Loosest(r).kind = r.kind /\ Loosest(r).dir = r.dir
           /\ Loosest(r).fallback = r.fallback
           /\ r.hops \in Nat /\ r.hops <= MaxHops /\ r.limit \in Nat
  <1>1. PICK x : x = IF r.hops < MaxHops THEN r.hops + 1 ELSE r.hops
    OBVIOUS
  <1>2. Loosest(r) = [hops |-> x, types |-> AllTypes, kind |-> r.kind, dir |-> r.dir,
                      limit |-> r.limit, fallback |-> r.fallback]
    <2>1. r \in [hops : 1..MaxHops, types : SUBSET AllTypes, kind : {"entity", "memory", "both"},
                 dir : {"out", "in", "both"}, limit : Nat \ {0}, fallback : BOOLEAN]
      BY DEF WalkRequest
    <2>2. Loosest(r) = [r EXCEPT !.hops = x, !.types = AllTypes]
      BY <1>1 DEF Loosest
    <2>3. PICK y : y = Loosest(r)
      OBVIOUS
    <2>4. DOMAIN y = {"hops", "types", "kind", "dir", "limit", "fallback"}
          /\ y = [i \in DOMAIN y |-> y[i]]
      BY <2>1, <2>2, <2>3
    <2>5. y.hops = x /\ y.types = AllTypes /\ y.kind = r.kind /\ y.dir = r.dir
          /\ y.limit = r.limit /\ y.fallback = r.fallback
      BY <2>1, <2>2, <2>3
    <2> QED BY <2>3, <2>4, <2>5
  <1>3. x \in 1..MaxHops /\ r.hops \in Nat /\ r.hops <= MaxHops /\ r.limit \in Nat
    BY <1>1, WalkBounds DEF WalkRequest
  <1>4. AllTypes \in SUBSET AllTypes
    OBVIOUS
  <1>5. Loosest(r) \in WalkRequest
    BY <1>2, <1>3, <1>4 DEF WalkRequest
  <1> QED BY <1>1, <1>2, <1>3, <1>5

\* A request asks no more than the loosest one that follows from another.
NoLooser(r, q) == /\ r.kind = q.kind /\ r.dir = q.dir /\ r.limit = q.limit
                  /\ r.hops <= q.hops /\ q.types = AllTypes

(* A looser request finds the paths of a stricter one, and more.            *)
LEMMA LooserFindsMore ==
    ASSUME GraphOK, NEW r \in WalkRequest, NEW q \in WalkRequest, NoLooser(r, q), NEW store
    PROVE  Paths(store, r) \subseteq Paths(store, q)
  <1> SUFFICES ASSUME NEW p \in Paths(store, r) PROVE p \in Paths(store, q)
    OBVIOUS
  <1>1. PICK k \in 1..r.hops : p \in OfLength(store, r.dir)[k]
    BY DEF Paths
  <1>2. k \in 1..q.hops /\ k \in 0..MaxHops
    <2>1. r.hops \in 1..MaxHops /\ q.hops \in 1..MaxHops /\ r.hops <= q.hops
      BY DEF NoLooser, WalkRequest
    <2> QED BY <1>1, <2>1, WalkBounds
  <1>3. p.edges \in Seq(walkLinks)
    BY <1>1, <1>2, PathsAreOK DEF PathOK
  <1>4. \A e \in ToSet(p.edges) : e.type \in AllTypes
    <2>1. ToSet(p.edges) \subseteq walkLinks
      BY <1>3 DEF ToSet
    <2> QED BY <2>1 DEF GraphOK, AllTypes
  <1>5. Last(p.nodes) \in KindsAsked(q)
    BY DEF Paths, KindsAsked, NoLooser
  <1>6. p \in OfLength(store, q.dir)[k]
    BY <1>1 DEF NoLooser
  <1> QED BY <1>2, <1>4, <1>5, <1>6 DEF Paths, NoLooser

(* No request of the ladder is looser than the last.                        *)
LEMMA NowIsNoLooser ==
    ASSUME NEW w, GoingOn(w)
    PROVE  NoLooser(w.now, Loosest(w.asked)) /\ NoLooser(w.asked, Loosest(w.asked))
  <1>1. /\ w.asked \in WalkRequest /\ w.now \in WalkRequest /\ Loosened(w)
    BY DEF GoingOn
  <1>2. w.asked.hops \in Nat
    BY <1>1, LoosestIsRequest
  <1> QED BY <1>1, <1>2, LoosestIsRequest DEF Loosened, NoLooser

(* Where the loosest request has one page, so has every other.              *)
LEMMA OnePageForAll ==
    ASSUME GraphOK, NEW w, GoingOn(w), OnePage(w.store, Loosest(w.asked))
    PROVE  /\ Cardinality(Paths(w.store, w.now)) <= w.now.limit
           /\ IsFiniteSet(Paths(w.store, w.now))
           /\ \A p \in Paths(w.store, w.now) : Rank(p) \in Nat
  <1>1. /\ w.asked \in WalkRequest /\ w.now \in WalkRequest /\ Loosest(w.asked) \in WalkRequest
    BY LoosestIsRequest DEF GoingOn
  <1>2. Paths(w.store, w.now) \subseteq Paths(w.store, Loosest(w.asked))
    BY <1>1, NowIsNoLooser, LooserFindsMore
  <1>3. /\ IsFiniteSet(Paths(w.store, w.now)) /\ IsFiniteSet(Paths(w.store, Loosest(w.asked)))
        /\ Cardinality(Paths(w.store, w.now)) \in Nat
        /\ Cardinality(Paths(w.store, Loosest(w.asked))) \in Nat
        /\ \A p \in Paths(w.store, w.now) : Rank(p) \in Nat
    BY <1>1, PathsAreFinite
  <1>4. Cardinality(Paths(w.store, w.now)) <= Cardinality(Paths(w.store, Loosest(w.asked)))
    BY <1>2, <1>3, FS_Subset
  <1>5. /\ Cardinality(Paths(w.store, Loosest(w.asked))) <= Loosest(w.asked).limit
        /\ Loosest(w.asked).limit = w.now.limit /\ w.now.limit \in Nat
    BY <1>1, NowIsNoLooser DEF OnePage, NoLooser, WalkRequest
  <1> QED BY <1>3, <1>4, <1>5

(* The last node of a path a store returns is on it.                        *)
LEMMA EndsAreOnPaths ==
    ASSUME GraphOK, NEW r \in WalkRequest, NEW store, NEW p \in Paths(store, r)
    PROVE  Last(p.nodes) \in ToSet(p.nodes)
  <1>1. PICK k \in 1..r.hops : p \in OfLength(store, r.dir)[k]
    BY DEF Paths
  <1>2. k \in 0..MaxHops /\ k \in Nat
    BY <1>1, WalkBounds DEF WalkRequest
  <1>3. p.nodes \in Seq(Vertices) /\ Len(p.nodes) = k + 1
    BY <1>1, <1>2, PathsAreOK DEF PathOK
  <1>4. k + 1 \in DOMAIN p.nodes
    BY <1>2, <1>3
  <1> QED BY <1>3, <1>4 DEF Last, ToSet

(* What a step of the walk sees is what the others left.                    *)
LEMMA WalkOKStays ==
    ASSUME UNCHANGED <<walkLinks, hidden, still>>, NEW w, WalkOK(w)
    PROVE  WalkOK(w)'
  <1>1. \A s, d : OfLength(s, d)' = OfLength(s, d)
    BY DEF OfLength, Longer, Extends
  <1>2. \A s, r : Paths(s, r)' = Paths(s, r)
    BY <1>1 DEF Paths
  <1>3. \A s, R, a : Hits(s, R, a)' = Hits(s, R, a)
    BY DEF Hits, PathVisible
  <1>4. GoingOn(w)' <=> GoingOn(w)
    BY DEF GoingOn
  <1>5. QuietSoFar(w)' <=> QuietSoFar(w)
    BY <1>2, <1>3 DEF QuietSoFar, OnePage
  <1>6. QuietEnd(w)' <=> QuietEnd(w)
    BY <1>2, <1>3 DEF QuietEnd, OnePage
  <1> QED BY <1>4, <1>5, <1>6 DEF WalkOK

(* A changed graph leaves what the walk is, and frees it of what it promised.*)
LEMMA WalkOKAmidChange ==
    ASSUME still' = FALSE, NEW w, WalkOK(w)
    PROVE  WalkOK(w)'
  BY DEF WalkOK, GoingOn, EndedWell

(* One lemma per step of the call.                                          *)
LEMMA BeginKeepsWalk ==
    ASSUME WalkInv, NEW r \in WalkRequests, NEW s \in Stores, BeginWalk(r, s), NEW w, w = walk'
    PROVE  WalkOK(w) /\ QuietSoFar(w)
  <1>1. r \in WalkRequest
    BY RequestsAdmitted DEF WalkRequest
  <1>2. /\ w.at = "query" /\ w.store = s /\ w.asked = r /\ w.now = r /\ w.all = FALSE
        /\ w.cursor = NoCursor /\ w.used = {} /\ w.got = {} /\ w.ever = {}
        /\ DOMAIN w = {"at", "store", "asked", "now", "all", "cursor", "rows", "next",
                       "used", "got", "ever"}
    BY DEF BeginWalk
  <1>3. StartOf(w.cursor) = 0
    BY <1>2, CursorKeepsPlace
  <1>4. Loosened(w)
    BY <1>2 DEF Loosened
  <1>5. GoingOn(w)
    <2>1. w.at # "resolve" /\ w.all \in BOOLEAN /\ w.store \in Stores
      BY <1>2
    <2>2. w.asked \in WalkRequest /\ w.now \in WalkRequest /\ StartOf(w.cursor) \in Nat
      BY <1>1, <1>2, <1>3
    <2>3. w.got \subseteq EntityNodes \cup MemoryNodes
      BY <1>2
    <2>4. DOMAIN w = {"at", "store", "asked", "now", "all", "cursor", "rows", "next",
                      "used", "got", "ever"}
      BY <1>2
    <2> QED BY <1>4, <2>1, <2>2, <2>3, <2>4 DEF GoingOn
  <1>6. QuietSoFar(w)
    <2>1. PathsBefore(Paths(s, r), 0) = {}
      <3>1. IsFiniteSet(Paths(s, r)) /\ \A p \in Paths(s, r) : Rank(p) \in Nat
        BY <1>1, PathsAreFinite DEF WalkInv
      <3> QED BY <3>1, PagesAbut
    <2>2. Hits(s, {}, FALSE) = {}
      BY HitsAddUp
    <2> QED BY <1>2, <1>3, <2>1, <2>2 DEF QuietSoFar
  <1> QED BY <1>2, <1>5, <1>6 DEF WalkOK

(* A page adds the rows from the cursor up to the next.                     *)
LEMMA QueryKeepsWalk ==
    ASSUME WalkInv, Query, NEW w, w = walk'
    PROVE  WalkOK(w)
  <1>1. walk.at = "query" /\ GoingOn(walk) /\ (still => QuietSoFar(walk))
    BY DEF Query, WalkInv, WalkOK
  <1>2. CASE \E c \in walk.cursor : c.shape # Shape(walk.now)
    <2>1. w.at = "refused"
      BY <1>1, <1>2 DEF Query, GoingOn
    <2> QED BY <2>1 DEF WalkOK
  <1>3. CASE ~(\E c \in walk.cursor : c.shape # Shape(walk.now))
    <2> DEFINE from == StartOf(walk.cursor)
               to == from + walk.now.limit
               paths == Paths(walk.store, walk.now)
    <2>1. w = [walk EXCEPT !.at = "resolve", !.rows = Page(paths, from, to),
                           !.next = IF Cardinality(paths) > to
                                    THEN Cursor(walk.now, PastCursor(from, walk.now.limit))
                                    ELSE NoCursor]
      BY <1>3 DEF Query
    <2>2. /\ w.at = "resolve" /\ w.store = walk.store /\ w.asked = walk.asked
          /\ w.now = walk.now /\ w.all = walk.all /\ w.cursor = walk.cursor
          /\ w.used = walk.used /\ w.got = walk.got /\ w.ever = walk.ever
          /\ w.rows = Page(paths, from, to)
          /\ w.next = IF Cardinality(paths) > to
                      THEN Cursor(walk.now, PastCursor(from, walk.now.limit)) ELSE NoCursor
          /\ DOMAIN w = DOMAIN walk
      BY <1>1, <2>1 DEF GoingOn
    <2>3. PastCursor(from, walk.now.limit) = to
      BY DEF PastCursor
    <2>4. from \in Nat /\ walk.now.limit \in Nat /\ to \in Nat /\ walk.now \in WalkRequest
      BY <1>1, LoosestIsRequest DEF GoingOn
    <2>5. \A p \in w.rows : Last(p.nodes) \in ToSet(p.nodes)
      <3>1. \A p \in paths : Last(p.nodes) \in ToSet(p.nodes)
        BY <2>4, EndsAreOnPaths DEF WalkInv
      <3> QED BY <2>2, <3>1 DEF Page
    <2> HIDE DEF from, to, paths
    <2>6. StartOf(w.next) \in Nat
      BY <2>2, <2>3, <2>4, CursorKeepsPlace
    <2>7. Loosened(w)
      BY <1>1, <2>2 DEF GoingOn, Loosened
    <2>8. GoingOn(w)
      BY <1>1, <2>2, <2>5, <2>6, <2>7 DEF GoingOn
    <2>9. ASSUME still PROVE QuietSoFar(w)
      <3>1. QuietSoFar(walk)
        BY <1>1, <2>9
      <3> QED BY <2>2, <2>3, <3>1 DEF QuietSoFar, from, to, paths
    <2> QED BY <2>2, <2>8, <2>9 DEF WalkOK
  <1> QED BY <1>2, <1>3

(* Where the walk stands when its rows are there.                           *)
LEMMA AtResolve ==
    ASSUME WalkInv, Resolving
    PROVE  /\ GoingOn(walk) /\ (still => QuietSoFar(walk))
           /\ walk.asked \in WalkRequest /\ walk.now \in WalkRequest
           /\ StartOf(walk.cursor) \in Nat /\ walk.now.limit \in Nat
           /\ StartOf(walk.next) \in Nat
           /\ \A p \in walk.rows : Last(p.nodes) \in ToSet(p.nodes)
  <1>1. GoingOn(walk) /\ (still => QuietSoFar(walk)) /\ walk.at = "resolve"
    BY DEF Resolving, WalkInv, WalkOK
  <1>2. walk.now \in WalkRequest
    BY <1>1 DEF GoingOn
  <1>3. walk.now.limit \in Nat
    BY <1>2, LoosestIsRequest
  <1> QED BY <1>1, <1>2, <1>3 DEF GoingOn

(* While nothing changes and all paths make one page, it has all of them.   *)
LEMMA OnePageHasAll ==
    ASSUME WalkInv, Resolving, still, OnePage(walk.store, Loosest(walk.asked))
    PROVE  /\ walk.rows = Paths(walk.store, walk.now) /\ walk.next = NoCursor /\ walk.got = {}
           /\ walk.all => Hits(walk.store, Paths(walk.store, Loosest(walk.asked)), FALSE) = {}
  <1> DEFINE paths == Paths(walk.store, walk.now)
  <1>1. GoingOn(walk) /\ QuietSoFar(walk) /\ walk.now.limit \in Nat /\ walk.at = "resolve"
    BY AtResolve DEF Resolving
  <1>2. StartOf(walk.cursor) = 0
    BY <1>1, CursorKeepsPlace DEF QuietSoFar
  <1>3. /\ Cardinality(paths) <= walk.now.limit /\ IsFiniteSet(paths)
        /\ \A p \in paths : Rank(p) \in Nat
    BY <1>1, OnePageForAll DEF WalkInv
  <1>4. Cardinality(paths) \in Nat
    BY <1>3, FS_CardinalityType
  <1>5. walk.rows = Page(paths, 0, 0 + walk.now.limit)
    BY <1>1, <1>2 DEF QuietSoFar
  <1>6. walk.next = IF Cardinality(paths) > 0 + walk.now.limit
                    THEN Cursor(walk.now, 0 + walk.now.limit) ELSE NoCursor
    BY <1>1, <1>2 DEF QuietSoFar
  <1> HIDE DEF paths
  <1>7. /\ PathsBefore(paths, 0 + walk.now.limit)
              = PathsBefore(paths, 0) \cup Page(paths, 0, 0 + walk.now.limit)
        /\ PathsBefore(paths, 0) = {}
    BY <1>1, <1>3, PagesAbut
  <1>8. PathsBefore(paths, 0 + walk.now.limit) = paths
    <2>1. 0 + walk.now.limit \in Nat /\ Cardinality(paths) <= 0 + walk.now.limit
      BY <1>1, <1>3
    <2> QED BY <1>3, <2>1, PagesAbut
  <1>9. walk.rows = paths
    BY <1>5, <1>7, <1>8
  <1>10. walk.next = NoCursor
    BY <1>1, <1>3, <1>4, <1>6
  <1> QED BY <1>1, <1>9, <1>10 DEF paths, QuietSoFar

(* What an answer names is an entity or a memory, and hidden only if hidden *)
(* memories were let in.                                                    *)
LEMMA FoundMayBeShown ==
    ASSUME WalkInv, Resolving, ~NamesTask
    PROVE  /\ Found \subseteq EntityNodes \cup MemoryNodes
           /\ ~walk.all => Found \cap hidden = {}
  <1>1. \A p \in walk.rows : Last(p.nodes) \in ToSet(p.nodes)
    BY AtResolve
  <1>2. ASSUME NEW v \in Found PROVE v \in EntityNodes \cup MemoryNodes /\ (~walk.all => v \notin hidden)
    <2>1. PICK p \in walk.rows : Last(p.nodes) = v /\ PathVisible(walk.store, p, walk.all)
      BY <1>2 DEF Found, Hits
    <2>2. v \in ToSet(p.nodes)
      BY <1>1, <2>1
    <2>3. ReadAs(walk.store, v) # "task"
      BY <2>1 DEF NamesTask
    <2>4. ReadAs(walk.store, v) = "memory" =>
             v \in MemoryNodes /\ (walk.all \/ v \notin hidden)
      BY <2>1, <2>2 DEF PathVisible
    <2>5. v \in EntityNodes \/ ReadAs(walk.store, v) = "memory"
      BY <2>3 DEF ReadAs
    <2>6. v \in EntityNodes => v \notin hidden
      BY NodeKinds DEF WalkInv, GraphOK
    <2> QED BY <2>4, <2>5, <2>6
  <1> QED BY <1>2

(* An answer is made of the rows of its page.                               *)
LEMMA AnswerKeepsWalk ==
    ASSUME WalkInv, AnswerWalk, NEW w, w = walk'
    PROVE  WalkOK(w)
  <1>0. Resolving /\ ~NamesTask
    BY DEF AnswerWalk
  <1>1. /\ GoingOn(walk) /\ (still => QuietSoFar(walk))
        /\ walk.asked \in WalkRequest /\ walk.now \in WalkRequest
        /\ StartOf(walk.cursor) \in Nat /\ walk.now.limit \in Nat /\ StartOf(walk.next) \in Nat
        /\ walk.at = "resolve" /\ walk.store \in Stores
    BY <1>0, AtResolve DEF GoingOn, Resolving
  <1>2. /\ w.at = (IF walk.next = NoCursor THEN "done" ELSE "query")
        /\ w.store = walk.store /\ w.asked = walk.asked /\ w.now = walk.asked /\ w.all = FALSE
        /\ w.cursor = walk.next /\ w.used = {} /\ w.got = walk.got \cup Found
        /\ w.ever = walk.ever \cup walk.used /\ DOMAIN w = DOMAIN walk
    BY <1>1 DEF AnswerWalk, GoingOn
  <1>3. Found \subseteq EntityNodes \cup MemoryNodes /\ (~walk.all => Found \cap hidden = {})
    BY <1>0, FoundMayBeShown
  <1>4. w.got \subseteq EntityNodes \cup MemoryNodes
    BY <1>1, <1>2, <1>3 DEF GoingOn
  <1>5. w.at = "query" => GoingOn(w)
    <2>1. Loosened(w)
      BY <1>2 DEF Loosened
    <2>2. DOMAIN w = {"at", "store", "asked", "now", "all", "cursor", "rows", "next",
                      "used", "got", "ever"}
      BY <1>1, <1>2 DEF GoingOn
    <2>3. w.all \in BOOLEAN
      BY <1>2
    <2>4. w.asked \in WalkRequest /\ w.now \in WalkRequest /\ StartOf(w.cursor) \in Nat
          /\ w.store \in Stores
      BY <1>1, <1>2
    <2> QED BY <1>4, <2>1, <2>2, <2>3, <2>4 DEF GoingOn
  <1>6. EndedWell(w)
    BY <1>1, <1>2, <1>4 DEF EndedWell
  \* what the pages up to here have given
  <1>7. ASSUME still, walk.ever = {}, walk.used = {}
        PROVE  LET paths == Paths(walk.store, walk.asked)
               IN  /\ walk.next = NoCursor => w.got = Hits(walk.store, paths, FALSE)
                   /\ walk.next # NoCursor =>
                         w.got = Hits(walk.store, PathsBefore(paths, StartOf(walk.next)), FALSE)
    <2> DEFINE paths == Paths(walk.store, walk.asked)
               from == StartOf(walk.cursor)
               to == from + walk.now.limit
    <2>1. walk.now = walk.asked /\ walk.all = FALSE
      BY <1>1, <1>7 DEF GoingOn, Loosened
    <2>2. /\ walk.rows = Page(paths, from, to)
          /\ walk.next = IF Cardinality(paths) > to THEN Cursor(walk.now, to) ELSE NoCursor
          /\ walk.got = Hits(walk.store, PathsBefore(paths, from), FALSE)
      BY <1>1, <1>7, <2>1 DEF QuietSoFar
    <2>3. /\ IsFiniteSet(paths) /\ Cardinality(paths) \in Nat
          /\ \A p \in paths : Rank(p) \in Nat
      BY <1>1, PathsAreFinite DEF WalkInv
    <2>4. from \in Nat /\ to \in Nat /\ walk.now.limit \in Nat
      BY <1>1
    <2> HIDE DEF paths
    <2>5. PathsBefore(paths, to) = PathsBefore(paths, from) \cup Page(paths, from, to)
      BY <2>3, <2>4, PagesAbut
    <2> HIDE DEF to, from
    <2>6. Cardinality(paths) <= to => PathsBefore(paths, to) = paths
      BY <2>3, <2>4, PagesAbut
    <2>7. w.got = Hits(walk.store, PathsBefore(paths, to), FALSE)
      <3>1. Found = Hits(walk.store, Page(paths, from, to), FALSE)
        BY <2>1, <2>2 DEF Found
      <3>2. Hits(walk.store, PathsBefore(paths, to), FALSE)
              = Hits(walk.store, PathsBefore(paths, from), FALSE)
                  \cup Hits(walk.store, Page(paths, from, to), FALSE)
        BY <2>5 DEF Hits
      <3> QED BY <1>2, <2>2, <3>1, <3>2
    <2>8. ASSUME walk.next = NoCursor PROVE w.got = Hits(walk.store, paths, FALSE)
      <3>1. ~(Cardinality(paths) > to)
        BY <2>2, <2>8, CursorKeepsPlace
      <3>2. Cardinality(paths) <= to
        BY <2>3, <2>4, <3>1
      <3> QED BY <2>6, <2>7, <3>2
    <2>9. ASSUME walk.next # NoCursor PROVE StartOf(walk.next) = to
      BY <2>2, <2>9, CursorKeepsPlace
    <2> QED BY <2>7, <2>8, <2>9 DEF paths
  <1>8. ASSUME still, w.at = "query" PROVE QuietSoFar(w)
    <2>1. walk.next # NoCursor
      BY <1>2, <1>8
    <2>2. ~OnePage(w.store, Loosest(w.asked))
      <3>1. ASSUME OnePage(walk.store, Loosest(walk.asked)) PROVE FALSE
        BY <1>0, <1>8, <2>1, <3>1, OnePageHasAll
      <3> QED BY <1>2, <3>1
    <2>3. w.ever = {} => walk.ever = {} /\ walk.used = {}
      BY <1>2
    <2>4. w.ever = {} =>
            w.got = Hits(w.store, PathsBefore(Paths(w.store, w.asked), StartOf(w.cursor)), FALSE)
      BY <1>2, <1>7, <1>8, <2>1, <2>3
    <2> QED BY <1>8, <2>2, <2>4 DEF QuietSoFar
  <1>9. ASSUME still, w.at = "done" PROVE QuietEnd(w)
    <2>1. walk.next = NoCursor
      BY <1>2, <1>9
    <2>2. w.ever = {} => walk.ever = {} /\ walk.used = {}
      BY <1>2
    <2>3. w.ever = {} => w.got = Hits(w.store, Paths(w.store, w.asked), FALSE)
      BY <1>2, <1>7, <1>9, <2>1, <2>2
    <2>4. ASSUME OnePage(walk.store, Loosest(walk.asked)), w.got \cap hidden # {}
          PROVE  Hits(walk.store, Paths(walk.store, Loosest(walk.asked)), FALSE) = {}
      <3>1. walk.got = {} /\ (walk.all =>
               Hits(walk.store, Paths(walk.store, Loosest(walk.asked)), FALSE) = {})
        BY <1>0, <1>9, <2>4, OnePageHasAll
      <3>2. walk.all
        BY <1>2, <1>3, <2>4, <3>1
      <3> QED BY <3>1, <3>2
    <2> QED BY <1>2, <2>3, <2>4 DEF QuietEnd
  <1> QED BY <1>2, <1>5, <1>6, <1>8, <1>9 DEF WalkOK

(* A looser pass over the same page.                                        *)
LEMMA RelaxKeepsWalk ==
    ASSUME WalkInv, NEW step, NEW r, NEW all \in BOOLEAN, Relax(step, r, all),
           NEW w, w = walk',
           r \in WalkRequest, Loosened(w),
           (still /\ OnePage(walk.store, Loosest(walk.asked)) /\ all) =>
               Hits(walk.store, Paths(walk.store, Loosest(walk.asked)), FALSE) = {}
    PROVE  WalkOK(w)
  <1>1. /\ GoingOn(walk) /\ (still => QuietSoFar(walk)) /\ Resolving
    BY AtResolve DEF Relax
  <1>2. /\ w.at = "query" /\ w.store = walk.store /\ w.asked = walk.asked /\ w.now = r
        /\ w.all = all /\ w.cursor = walk.cursor /\ w.used = walk.used \cup {step}
        /\ w.got = walk.got /\ w.ever = walk.ever /\ DOMAIN w = DOMAIN walk
    BY <1>1 DEF Relax, GoingOn
  <1>3. GoingOn(w)
    <2>1. w.at # "resolve"
      BY <1>2
    <2>2. w.all \in BOOLEAN /\ w.now \in WalkRequest
      BY <1>2
    <2> QED BY <1>1, <1>2, <2>1, <2>2 DEF GoingOn
  <1>4. w.used # {}
    BY <1>2
  <1>5. ASSUME still PROVE QuietSoFar(w)
    <2>1. OnePage(walk.store, Loosest(walk.asked)) => walk.cursor = NoCursor /\ walk.got = {}
      BY <1>1, <1>5 DEF QuietSoFar
    <2> QED BY <1>2, <1>4, <1>5, <2>1 DEF QuietSoFar
  <1> QED BY <1>2, <1>3, <1>5 DEF WalkOK

(* The ladder goes on only where its last request showed nothing.           *)
LEMMA WidenKeepsWalk ==
    ASSUME WalkInv, WidenHops, NEW w, w = walk'
    PROVE  WalkOK(w)
  <1> DEFINE r == [walk.now EXCEPT !.hops = @ + 1]
  <1>1. Relax("widen_hops", r, FALSE) /\ walk.used = {} /\ walk.now.hops < MaxHops /\ Resolving
    BY DEF WidenHops, Relax
  <1>2. GoingOn(walk) /\ walk.now = walk.asked /\ walk.now \in WalkRequest
    BY <1>1, AtResolve DEF GoingOn, Loosened
  <1>3. walk.now.hops \in Nat
    BY <1>2, LoosestIsRequest
  <1>4. /\ r.hops = walk.now.hops + 1 /\ r.types = walk.now.types /\ r.kind = walk.now.kind
        /\ r.dir = walk.now.dir /\ r.limit = walk.now.limit /\ r.fallback = walk.now.fallback
        /\ r \in WalkRequest
    <2>1. walk.now.hops + 1 \in 1..MaxHops
      BY <1>1, <1>3, WalkBounds
    <2> QED BY <1>2, <2>1 DEF WalkRequest
  <1> HIDE DEF r
  <1>5. /\ w.now = r /\ w.all = FALSE /\ w.used = {"widen_hops"} /\ w.asked = walk.asked
    BY <1>1, <1>2 DEF Relax, GoingOn
  <1>6. Loosened(w)
    BY <1>1, <1>2, <1>4, <1>5 DEF Loosened
  <1> QED BY <1>1, <1>4, <1>6, RelaxKeepsWalk

(* The same when the types are dropped.                                     *)
LEMMA DropKeepsWalk ==
    ASSUME WalkInv, DropPredicate, NEW w, w = walk'
    PROVE  WalkOK(w)
  <1> DEFINE r == [walk.now EXCEPT !.types = AllTypes]
  <1>1. Relax("drop_predicate", r, FALSE) /\ Resolving
    BY DEF DropPredicate, Relax
  <1>2. GoingOn(walk) /\ walk.now \in WalkRequest /\ Loosened(walk) /\ ~walk.all
    BY <1>1, AtResolve DEF GoingOn, Relax
  <1>3. /\ r.hops = walk.now.hops /\ r.types = AllTypes /\ r.kind = walk.now.kind
        /\ r.dir = walk.now.dir /\ r.limit = walk.now.limit /\ r.fallback = walk.now.fallback
        /\ r \in WalkRequest
    <2>1. AllTypes \in SUBSET AllTypes
      OBVIOUS
    <2> QED BY <1>2, <2>1 DEF WalkRequest
  <1> HIDE DEF r
  <1>4. /\ w.now = r /\ w.all = FALSE /\ w.used = walk.used \cup {"drop_predicate"}
        /\ w.asked = walk.asked
    BY <1>1, <1>2 DEF Relax, GoingOn
  <1>5. "widen_hops" \in w.used <=> "widen_hops" \in walk.used
    BY <1>4
  <1>6. Loosened(w)
    <2>1. w.used # {} /\ ~w.all
      BY <1>4
    <2> QED BY <1>2, <1>3, <1>4, <1>5, <2>1 DEF Loosened
  <1> QED BY <1>1, <1>3, <1>6, RelaxKeepsWalk

(* Hidden memories are asked for when the loosest request showed none.      *)
LEMMA IncludeKeepsWalk ==
    ASSUME WalkInv, IncludeRetired, NEW w, w = walk'
    PROVE  WalkOK(w)
  <1>1. /\ Relax("include_retired", walk.now, TRUE) /\ Resolving /\ walk.now.types = AllTypes
        /\ "widen_hops" \in walk.used \/ walk.now.hops = MaxHops
        /\ Found = {} /\ ~walk.all
    BY DEF IncludeRetired, Relax
  <1>2. GoingOn(walk) /\ walk.now \in WalkRequest /\ walk.asked \in WalkRequest /\ Loosened(walk)
    BY <1>1, AtResolve DEF GoingOn
  <1>3. walk.now = Loosest(walk.asked)
    <2>1. /\ walk.now.hops = Loosest(walk.asked).hops /\ walk.now.types = Loosest(walk.asked).types
          /\ walk.now.kind = Loosest(walk.asked).kind /\ walk.now.dir = Loosest(walk.asked).dir
          /\ walk.now.limit = Loosest(walk.asked).limit
          /\ walk.now.fallback = Loosest(walk.asked).fallback
          /\ Loosest(walk.asked) \in WalkRequest
      BY <1>1, <1>2, LoosestIsRequest DEF Loosened
    <2>2. \A a, b \in WalkRequest :
             a.hops = b.hops /\ a.types = b.types /\ a.kind = b.kind /\ a.dir = b.dir
             /\ a.limit = b.limit /\ a.fallback = b.fallback => a = b
      BY DEF WalkRequest
    <2> QED BY <1>2, <2>1, <2>2
  <1>4. /\ w.now = walk.now /\ w.all = TRUE /\ w.used = walk.used \cup {"include_retired"}
        /\ w.asked = walk.asked
    BY <1>1, <1>2 DEF Relax, GoingOn
  <1>5. "widen_hops" \in w.used <=> "widen_hops" \in walk.used
    BY <1>4
  <1>6. Loosened(w)
    <2>1. w.used # {}
      BY <1>4
    <2> QED BY <1>2, <1>3, <1>4, <1>5, <2>1 DEF Loosened
  <1>7. ASSUME still, OnePage(walk.store, Loosest(walk.asked))
        PROVE  Hits(walk.store, Paths(walk.store, Loosest(walk.asked)), FALSE) = {}
    <2>1. walk.rows = Paths(walk.store, Loosest(walk.asked))
      BY <1>1, <1>3, <1>7, OnePageHasAll
    <2>2. walk.all = FALSE
      BY <1>1, <1>2 DEF GoingOn
    <2> QED BY <1>1, <2>1, <2>2 DEF Found
  <1> QED BY <1>1, <1>2, <1>6, <1>7, RelaxKeepsWalk

----------------------------------------------------------------------------
(* Traversal: the theorem                                                   *)

(* No call is under way at first.                                           *)
LEMMA WalkBegins == WalkInit => WalkInv
  <1>1. walkLinks = {} /\ walk = NoWalk /\ hidden = {} => GraphOK
    BY FS_EmptySet DEF GraphOK
  <1>2. walk = NoWalk => walk.at = "idle"
    BY DEF NoWalk
  <1> QED BY <1>1, <1>2 DEF WalkInit, WalkInv, WalkOK

(* Each step keeps the invariant.                                           *)
LEMMA WalkInvKept == WalkInv /\ [WalkNext]_walkVars => WalkInv'
  <1> SUFFICES ASSUME WalkInv, [WalkNext]_walkVars PROVE WalkInv'
    OBVIOUS
  <1> SUFFICES ASSUME NEW w, w = walk' PROVE WalkInv'
    OBVIOUS
  <1>1. GraphOK'
    <2>1. CASE UNCHANGED <<walkLinks, hidden>>
      BY <2>1 DEF WalkInv, GraphOK
    <2>2. ASSUME NEW e \in LinkChoices, LinkNodes(e) PROVE GraphOK'
      <3>1. IsFiniteSet(walkLinks \cup {e})
        BY FS_AddElement DEF WalkInv, GraphOK
      <3> QED BY <2>2, <3>1 DEF LinkNodes, WalkInv, GraphOK
    <2>3. ASSUME NEW m \in MemoryNodes \ {WalkOrigin}, Retire(m) PROVE GraphOK'
      BY <2>3 DEF Retire, WalkInv, GraphOK
    <2> QED BY <2>1, <2>2, <2>3 DEF WalkNext, WalkSteps, walkVars, BeginWalk, Query, ResolveTask,
               AnswerWalk, WidenHops, DropPredicate, IncludeRetired, Relax, Resolving
  <1>2. ASSUME WalkOK(w), UNCHANGED <<walkLinks, hidden, still>> PROVE WalkOK(walk)'
    <2>1. WalkOK(w)'
      BY <1>2, WalkOKStays
    <2> QED BY <2>1
  <1>3. WalkOK(walk)'
    <2>1. ASSUME NEW r \in WalkRequests, NEW s \in Stores, BeginWalk(r, s) PROVE WalkOK(walk)'
      <3>1. WalkOK(w) /\ QuietSoFar(w) /\ w.at = "query"
        BY <2>1, BeginKeepsWalk DEF BeginWalk
      <3>2. UNCHANGED <<walkLinks, hidden>>
        BY <2>1 DEF BeginWalk
      <3>3. GoingOn(w)' /\ QuietSoFar(w)'
        <4>1. \A a, d : OfLength(a, d)' = OfLength(a, d)
          BY <3>2 DEF OfLength, Longer, Extends
        <4>2. \A a, q : Paths(a, q)' = Paths(a, q)
          BY <4>1 DEF Paths
        <4>3. \A a, R, x : Hits(a, R, x)' = Hits(a, R, x)
          BY <3>2 DEF Hits, PathVisible
        <4> QED BY <3>1, <4>2, <4>3 DEF WalkOK, GoingOn, QuietSoFar, OnePage
      <3>4. WalkOK(w)'
        BY <3>1, <3>3 DEF WalkOK
      <3> QED BY <3>4
    <2>2. CASE Query
      BY <1>2, <2>2, QueryKeepsWalk DEF Query
    <2>3. CASE ResolveTask
      <3>1. w.at = "crashed"
        BY <2>3, AtResolve DEF ResolveTask, GoingOn
      <3>2. WalkOK(w)
        BY <3>1 DEF WalkOK
      <3> QED BY <1>2, <2>3, <3>2 DEF ResolveTask, Resolving
    <2>4. CASE AnswerWalk
      BY <1>2, <2>4, AnswerKeepsWalk DEF AnswerWalk, Resolving
    <2>5. CASE WidenHops
      BY <1>2, <2>5, WidenKeepsWalk DEF WidenHops, Relax, Resolving
    <2>6. CASE DropPredicate
      BY <1>2, <2>6, DropKeepsWalk DEF DropPredicate, Relax, Resolving
    <2>7. CASE IncludeRetired
      BY <1>2, <2>7, IncludeKeepsWalk DEF IncludeRetired, Relax, Resolving
    <2>8. ASSUME Others PROVE WalkOK(walk)'
      <3>1. WalkOK(w) /\ still' = FALSE
        BY <2>8 DEF Others, WalkInv
      <3>2. WalkOK(w)'
        BY <3>1, WalkOKAmidChange
      <3> QED BY <3>2
    <2>9. CASE UNCHANGED walkVars
      BY <1>2, <2>9 DEF walkVars, WalkInv
    <2> QED BY <2>1, <2>2, <2>3, <2>4, <2>5, <2>6, <2>7, <2>8, <2>9
            DEF WalkNext, WalkSteps, LinkNodes, Retire
  <1> QED BY <1>1, <1>3 DEF WalkInv

(* The invariant, where the caller has seen every page.                     *)
LEMMA WalkInvSuffices == WalkInv => WalksFindWhatMayBeShown
  <1> SUFFICES ASSUME WalkInv, walk.at = "done", still PROVE WalksFindWhatMayBeShown
    BY DEF WalksFindWhatMayBeShown, PagesCoverNeighbors, HiddenOnlyAsLastResort, Finished
  <1>1. EndedWell(walk) /\ QuietEnd(walk) /\ GraphOK
    BY DEF WalkInv, WalkOK
  <1>2. /\ walk.asked \in WalkRequest /\ walk.store \in Stores
        /\ Loosest(walk.asked) \in WalkRequest
        /\ walk.got \subseteq EntityNodes \cup MemoryNodes
    BY <1>1, LoosestIsRequest DEF EndedWell
  <1>3. \A r \in WalkRequest :
           Hits(walk.store, Paths(walk.store, r), FALSE) \ TaskNodes = Nearby(r, walk.store, FALSE)
    BY <1>1, <1>2, HitsAreNearby
  <1>4. PagesCoverNeighbors
    <2>1. walk.got \ TaskNodes = walk.got
      BY <1>2, NodeKinds
    <2>2. walk.ever = {} => walk.got = Hits(walk.store, Paths(walk.store, walk.asked), FALSE)
      BY <1>1 DEF QuietEnd
    <2> QED BY <1>2, <1>3, <2>1, <2>2 DEF PagesCoverNeighbors
  <1>5. HiddenOnlyAsLastResort
    BY <1>1, <1>2, <1>3 DEF QuietEnd, HiddenOnlyAsLastResort
  <1> QED BY <1>4, <1>5 DEF WalksFindWhatMayBeShown

(* A walk that was left alone has covered what may be shown, page by page, as*)
(* both stores compute it, and gave hidden memories only where nothing else *)
(* was to be found (memory_neighbors).                                      *)
THEOREM WalksAreComplete == WalkSpec => []WalksFindWhatMayBeShown
  <1>1. WalkInit => WalkInv
    BY WalkBegins
  <1>2. WalkInv /\ [WalkNext]_walkVars => WalkInv'
    BY WalkInvKept
  <1>3. WalkInv => WalksFindWhatMayBeShown
    BY WalkInvSuffices
  <1> QED BY <1>1, <1>2, <1>3, PTL DEF WalkSpec
-----------------------------------------------------------------------------
(* The reports: what the recursions say *)

\* A function of 0..n that begins with b and goes on with g.
Steps(f, n, b, g) == f = [k \in 0..n |-> IF k = 0 THEN b ELSE g[k][f[k - 1]]]

(* A recursion on the number of steps has a solution.                       *)
LEMMA StepsExist ==
    ASSUME NEW n \in Nat, NEW b, NEW g
    PROVE  \E f : Steps(f, n, b, g)
  <1> DEFINE bad == {m \in Nat : ~\E f : Steps(f, m, b, g)}
  <1> SUFFICES bad = {}
    OBVIOUS
  <1> SUFFICES ASSUME bad # {} PROVE FALSE
    OBVIOUS
  <1>1. PICK m \in bad : \A k \in bad : m <= k
    BY Smallest
  <1>2. CASE m = 0
    <2> DEFINE f == [k \in 0..0 |-> b]
    <2>1. f = [k \in 0..0 |-> IF k = 0 THEN b ELSE g[k][f[k - 1]]]
      OBVIOUS
    <2> QED BY <1>1, <1>2, <2>1 DEF Steps
  <1>3. CASE m # 0
    <2>1. m \in Nat /\ m - 1 \in Nat /\ m - 1 \notin bad
      BY <1>1, <1>3
    <2>2. PICK f : Steps(f, m - 1, b, g)
      BY <2>1
    <2> DEFINE h == [k \in 0..m |-> IF k = m THEN g[m][f[m - 1]] ELSE f[k]]
    <2>3. \A k \in 0..(m - 1) : h[k] = f[k] /\ f[k] = IF k = 0 THEN b ELSE g[k][f[k - 1]]
      <3>1. \A k \in 0..(m - 1) : k \in 0..m /\ k # m
        BY <2>1
      <3>2. \A k \in 0..(m - 1) : h[k] = f[k]
        BY <3>1
      <3> HIDE DEF h
      <3> QED BY <2>2, <3>2 DEF Steps
    <2>4. h[m] = g[m][f[m - 1]]
      BY <2>1
    <2>5. ASSUME NEW k \in 0..m PROVE h[k] = IF k = 0 THEN b ELSE g[k][h[k - 1]]
      <3>1. CASE k = m
        <4>1. h[m - 1] = f[m - 1]
          BY <2>1, <2>3
        <4> HIDE DEF h
        <4> QED BY <1>3, <2>4, <3>1, <4>1
      <3>2. CASE k # m
        <4>1. k \in 0..(m - 1) /\ (k # 0 => k - 1 \in 0..(m - 1))
          BY <2>1, <3>2
        <4> HIDE DEF h
        <4> QED BY <2>3, <4>1
      <3> QED BY <3>1, <3>2
    <2>6. Steps(h, m, b, g)
      <3>1. h = [k \in 0..m |-> h[k]]
        OBVIOUS
      <3> HIDE DEF h
      <3> QED BY <2>5, <3>1 DEF Steps
    <2> QED BY <1>1, <2>6
  <1> QED BY <1>2, <1>3


(* Steps that stay in a set give a function into it.                        *)
LEMMA StepsStay ==
    ASSUME NEW n \in Nat, NEW D, NEW b \in D, NEW g, \A k \in 1..n : \A x \in D : g[k][x] \in D
    PROVE  \E f \in [0..n -> D] : Steps(f, n, b, g)
  <1>1. PICK f : Steps(f, n, b, g)
    BY StepsExist
  <1>2. ASSUME NEW k \in 0..n PROVE f[k] \in D
    <2> DEFINE bad == {m \in 0..n : f[m] \notin D}
    <2> SUFFICES ASSUME bad # {} PROVE FALSE
      OBVIOUS
    <2>1. bad \subseteq Nat
      OBVIOUS
    <2>2. PICK m \in bad : \A i \in bad : m <= i
      <3> HIDE DEF bad
      <3> QED BY <2>1, Smallest
    <2>3. f[m] = IF m = 0 THEN b ELSE g[m][f[m - 1]]
      BY <1>1, <2>2 DEF Steps
    <2>4. m \in 1..n /\ m - 1 \in 0..n /\ m - 1 \notin bad
      BY <2>2, <2>3
    <2>5. f[m - 1] \in D
      BY <2>4
    <2> QED BY <2>2, <2>3, <2>4, <2>5
  <1>3. f = [k \in 0..n |-> f[k]]
    BY <1>1 DEF Steps
  <1> HIDE DEF Steps
  <1> QED BY <1>1, <1>2, <1>3

(* Induction over rounds.                                                   *)
LEMMA ByRounds ==
    ASSUME NEW n \in Nat, NEW T, 0 \in T, \A k \in 1..n : k - 1 \in T => k \in T
    PROVE  \A k \in 0..n : k \in T
  <1> DEFINE bad == {k \in 0..n : k \notin T}
  <1> SUFFICES ASSUME bad # {} PROVE FALSE
    OBVIOUS
  <1>1. bad \subseteq Nat
    OBVIOUS
  <1>2. PICK m \in bad : \A i \in bad : m <= i
    <2> HIDE DEF bad
    <2> QED BY <1>1, Smallest
  <1>3. m \in 1..n /\ m - 1 \in 0..n /\ m - 1 \notin bad
    BY <1>2
  <1> QED BY <1>2, <1>3

\* S and what one link more leads to.
OneFurther(up, S, es) == S \cup {FarEnd(up, a) : a \in {b \in es : Near(up, b) \in S}}

(* What is reachable grows by a link at a time.                             *)
LEMMA ReachGrows ==
    ASSUME NEW up, NEW p \in Points, NEW es \in SUBSET Arcs
    PROVE  /\ Cardinality(Points) \in Nat
           /\ Reach(up, p, es)[0] = {p}
           /\ \A n \in 1..Cardinality(Points) :
                 Reach(up, p, es)[n] = OneFurther(up, Reach(up, p, es)[n - 1], es)
           /\ \A n \in 0..Cardinality(Points) : Reach(up, p, es)[n] \subseteq Points
  <1> DEFINE N == Cardinality(Points)
             f == Reach(up, p, es)
             step(S) == S \cup {FarEnd(up, a) : a \in {b \in es : Near(up, b) \in S}}
             g == [k \in 1..N |-> [S \in SUBSET Points |-> step(S)]]
  <1>1. N \in Nat
    BY ReportsAssumption, FS_CardinalityType
  <1>2. \A S \in SUBSET Points : step(S) \in SUBSET Points
    <2>1. \A a \in Arcs : FarEnd(up, a) \in Points
      BY ReportsAssumption DEF FarEnd
    <2> QED BY <2>1
  <1> HIDE DEF N
  <1>3. PICK h : Steps(h, N, {p}, g)
    BY <1>1, StepsExist
  <1>4. ASSUME NEW k \in 0..N PROVE h[k] \in SUBSET Points
    <2> DEFINE bad == {m \in 0..N : h[m] \notin SUBSET Points}
    <2> SUFFICES ASSUME bad # {} PROVE FALSE
      OBVIOUS
    <2>1. bad \subseteq Nat
      BY <1>1
    <2>2. PICK m \in bad : \A i \in bad : m <= i
      <3> HIDE DEF bad
      <3> QED BY <2>1, Smallest
    <2>3. h[m] = IF m = 0 THEN {p} ELSE g[m][h[m - 1]]
      BY <1>3, <2>2 DEF Steps
    <2>4. m # 0
      BY <2>2, <2>3
    <2>5. m \in 1..N /\ m - 1 \in 0..N /\ m - 1 \notin bad
      BY <1>1, <2>2, <2>4
    <2>6. h[m - 1] \in SUBSET Points
      BY <2>5
    <2>7. g[m][h[m - 1]] = step(h[m - 1])
      BY <2>5, <2>6
    <2> HIDE DEF g, step
    <2> QED BY <1>2, <2>2, <2>3, <2>4, <2>6, <2>7
  <1>5. \A k \in 1..N : k \in 0..N /\ k - 1 \in 0..N /\ k # 0
    BY <1>1
  <1>6. \A k \in 0..N : h[k] = IF k = 0 THEN {p} ELSE step(h[k - 1])
    <2> TAKE k \in 0..N
    <2>1. h[k] = IF k = 0 THEN {p} ELSE g[k][h[k - 1]]
      BY <1>3 DEF Steps
    <2>2. k # 0 => k \in 1..N /\ k - 1 \in 0..N
      BY <1>1
    <2>3. k # 0 => g[k][h[k - 1]] = step(h[k - 1])
      BY <1>4, <2>2
    <2> HIDE DEF g, step
    <2> QED BY <2>1, <2>3
  <1>7. h = [k \in 0..N |-> IF k = 0 THEN {p} ELSE step(h[k - 1])]
    <2>1. h = [k \in 0..N |-> h[k]]
      BY <1>3 DEF Steps
    <2> HIDE DEF step
    <2> QED BY <1>6, <2>1
  <1>8. f = [k \in 0..N |-> IF k = 0 THEN {p} ELSE step(f[k - 1])]
    BY <1>7 DEF Reach, N
  <1>9. f = h
    <2> DEFINE bad == {m \in 0..N : f[m] # h[m]}
    <2> HIDE DEF step
    <2>1. bad = {}
      <3> SUFFICES ASSUME bad # {} PROVE FALSE
        OBVIOUS
      <3>1. bad \subseteq Nat
        BY <1>1
      <3>2. PICK m \in bad : \A i \in bad : m <= i
        <4> HIDE DEF bad
        <4> QED BY <3>1, Smallest
      <3> HIDE DEF f
      <3>3. f[m] = IF m = 0 THEN {p} ELSE step(f[m - 1])
        BY <1>8, <3>2
      <3>4. h[m] = IF m = 0 THEN {p} ELSE step(h[m - 1])
        BY <1>7, <3>2
      <3>5. m # 0 => m - 1 \in 0..N /\ m - 1 \notin bad
        BY <1>1, <3>2
      <3> QED BY <3>2, <3>3, <3>4, <3>5
    <2> HIDE DEF f
    <2> QED BY <1>7, <1>8, <2>1
  <1> HIDE DEF f
  <1>10. \A k \in 1..N : f[k] = step(f[k - 1])
    <2> HIDE DEF step
    <2> QED BY <1>5, <1>8
  <1>11. f[0] = {p}
    BY <1>1, <1>8
  <1> HIDE DEF step
  <1>12. \A k \in 1..N : f[k] = OneFurther(up, f[k - 1], es)
    BY <1>10 DEF step, OneFurther
  <1> QED BY <1>1, <1>4, <1>9, <1>11, <1>12 DEF f, N

(* A set that holds a point and, with the near end of a link, its far end    *)
(* holds what is reachable from the point.                                  *)
LEMMA ClosedHoldsReach ==
    ASSUME NEW up, NEW p \in Points, NEW es \in SUBSET Arcs, NEW S, p \in S,
           \A a \in es : Near(up, a) \in S => FarEnd(up, a) \in S
    PROVE  ReachOf(up, p, es) \subseteq S
  <1> DEFINE N == Cardinality(Points)
             f == Reach(up, p, es)
             bad == {m \in 0..N : ~(f[m] \subseteq S)}
  <1>1. N \in Nat
    BY ReachGrows
  <1>2. bad = {}
    <2> SUFFICES ASSUME bad # {} PROVE FALSE
      OBVIOUS
    <2>1. bad \subseteq Nat
      BY <1>1
    <2>2. PICK m \in bad : \A i \in bad : m <= i
      <3> HIDE DEF bad
      <3> QED BY <2>1, Smallest
    <2>3. m # 0
      <3>1. f[0] = {p}
        BY ReachGrows
      <3> QED BY <2>2, <3>1
    <2>4. m - 1 \in 0..N /\ m - 1 \notin bad /\ m \in 1..N
      BY <1>1, <2>2, <2>3
    <2>5. f[m] = OneFurther(up, f[m - 1], es)
      BY <2>4, ReachGrows
    <2>6. f[m - 1] \subseteq S /\ ~(f[m] \subseteq S)
      BY <2>2, <2>4
    <2> HIDE DEF f
    <2> QED BY <2>5, <2>6 DEF OneFurther
  <1>3. N \in 0..N /\ N \notin bad
    BY <1>1, <1>2
  <1> QED BY <1>3 DEF ReachOf

(* The rows of k + 1 links make those of k longer by one.                   *)
LEMMA WalksGrow ==
    ASSUME NEW up, NEW seed, NEW d \in Nat
    PROVE  /\ WalksFrom(up, seed, d)[0] = {<<a>> : a \in {b \in arcs : Near(up, b) = seed}}
           /\ \A k \in 1..d : WalksFrom(up, seed, d)[k] =
                 UNION {Onward(up, w) : w \in WalksFrom(up, seed, d)[k - 1]}
  <1> DEFINE f == WalksFrom(up, seed, d)
             base == {<<a>> : a \in {b \in arcs : Near(up, b) = seed}}
             step(S) == UNION {Onward(up, w) : w \in S}
             D == SUBSET Seq(arcs)
             g == [k \in 1..d |-> [S \in D |-> step(S)]]
  <1>1. base \in D
    <2>1. \A a \in arcs : <<a>> \in Seq(arcs)
      OBVIOUS
    <2> QED BY <2>1
  <1>2. \A S \in D : step(S) \in D
    <2>1. \A w \in Seq(arcs), a \in arcs : Append(w, a) \in Seq(arcs)
      OBVIOUS
    <2> QED BY <2>1 DEF Onward
  <1> HIDE DEF base
  <1>3. PICK h : Steps(h, d, base, g)
    BY StepsExist
  <1>4. ASSUME NEW k \in 0..d PROVE h[k] \in D
    <2> DEFINE bad == {m \in 0..d : h[m] \notin D}
    <2> SUFFICES ASSUME bad # {} PROVE FALSE
      OBVIOUS
    <2>1. bad \subseteq Nat
      OBVIOUS
    <2>2. PICK m \in bad : \A i \in bad : m <= i
      <3> HIDE DEF bad
      <3> QED BY <2>1, Smallest
    <2>3. h[m] = IF m = 0 THEN base ELSE g[m][h[m - 1]]
      BY <1>3, <2>2 DEF Steps
    <2>4. m # 0
      <3> HIDE DEF D
      <3> QED BY <1>1, <2>2, <2>3
    <2>5. m \in 1..d /\ m - 1 \in 0..d /\ m - 1 \notin bad
      BY <2>2, <2>4
    <2>6. h[m - 1] \in D
      BY <2>5
    <2>7. g[m][h[m - 1]] = step(h[m - 1])
      BY <2>5, <2>6
    <2> HIDE DEF g, step, D
    <2> QED BY <1>2, <2>2, <2>3, <2>4, <2>6, <2>7
  <1>5. \A k \in 1..d : k \in 0..d /\ k - 1 \in 0..d /\ k # 0
    OBVIOUS
  <1>6. \A k \in 0..d : h[k] = IF k = 0 THEN base ELSE step(h[k - 1])
    <2> TAKE k \in 0..d
    <2>1. h[k] = IF k = 0 THEN base ELSE g[k][h[k - 1]]
      BY <1>3 DEF Steps
    <2>2. k # 0 => k \in 1..d /\ k - 1 \in 0..d
      OBVIOUS
    <2>3. k # 0 => g[k][h[k - 1]] = step(h[k - 1])
      BY <1>4, <2>2
    <2> HIDE DEF g, step
    <2> QED BY <2>1, <2>3
  <1>7. h = [k \in 0..d |-> IF k = 0 THEN base ELSE step(h[k - 1])]
    <2>1. h = [k \in 0..d |-> h[k]]
      BY <1>3 DEF Steps
    <2> HIDE DEF step
    <2> QED BY <1>6, <2>1
  <1>8. f = [k \in 0..d |-> IF k = 0 THEN base ELSE step(f[k - 1])]
    BY <1>7 DEF WalksFrom, base
  <1> HIDE DEF f
  <1>9. \A k \in 1..d : f[k] = step(f[k - 1])
    <2> HIDE DEF step
    <2> QED BY <1>5, <1>8
  <1>10. f[0] = base
    <2> HIDE DEF step
    <2> QED BY <1>8
  <1> QED BY <1>9, <1>10 DEF f, base

(* As long as no walk is one link too long, each link whose near end is     *)
(* reachable ends a walk: one that was reached in fewer steps than what it  *)
(* leads to does not pass that again, so CYCLE does not stop it.            *)
LEMMA WalksReachAll ==
    ASSUME NEW up \in BOOLEAN, NEW seed \in Points, NEW d \in Nat \ {0}, arcs \subseteq Arcs,
           NEW es \in SUBSET arcs,
           ~\E x \in Walks(up, seed, d) : Len(x) > d
    PROVE  {a \in es : Near(up, a) \in ReachOf(up, seed, es)}
              \subseteq {Last(x) : x \in Walks(up, seed, d)}
  <1> DEFINE N == Cardinality(Points)
             f == Reach(up, seed, es)
             W == WalksFrom(up, seed, d)
             Leads(w, k, p, S) ==
                /\ w \in W[k] /\ w \in Seq(arcs) /\ Len(w) = k + 1 /\ FarEnd(up, Last(w)) = p
                /\ \A i \in DOMAIN w : Near(up, w[i]) \in S /\ Near(up, w[i]) # p
             Led(m) == \A p \in f[m] :
                          p = seed \/ \E k \in 0..(d - 1) : \E w \in W[k] : Leads(w, k, p, f[m])
             bad == {m \in 0..N : ~Led(m)}
  <1>0. es \in SUBSET Arcs /\ d \in Nat /\ d - 1 \in Nat /\ d # 0
    OBVIOUS
  <1>1. /\ N \in Nat /\ f[0] = {seed}
        /\ \A n \in 1..N : f[n] = OneFurther(up, f[n - 1], es)
    BY <1>0, ReachGrows
  <1>2. /\ W[0] = {<<a>> : a \in {b \in arcs : Near(up, b) = seed}}
        /\ \A k \in 1..d : W[k] = UNION {Onward(up, w) : w \in W[k - 1]}
    <2>1. d \in Nat
      BY <1>0
    <2> HIDE DEF f, N, Leads, Led, bad
    <2> QED BY <2>1, WalksGrow, SMTT(30)
  <1>3. \A k \in 0..d : \A w \in W[k] : w \in Walks(up, seed, d) /\ ~(Len(w) > d)
    BY DEF Walks
  \* One link more, from the seed or from where a walk has led.
  <1>4. ASSUME NEW a \in es, NEW S,
               \/ Near(up, a) = seed
               \/ \E k \in 0..(d - 1) : \E w \in W[k] : Leads(w, k, Near(up, a), S)
        PROVE  \E k \in 0..(d - 1) : \E w \in W[k] :
                  /\ w \in Seq(arcs) /\ Len(w) = k + 1 /\ Last(w) = a
                  /\ \A i \in DOMAIN w : Near(up, w[i]) \in S \cup {Near(up, a)}
    <2>1. CASE Near(up, a) = seed
      <3>1. <<a>> \in W[0] /\ <<a>> \in Seq(arcs) /\ Len(<<a>>) = 0 + 1 /\ Last(<<a>>) = a
            /\ DOMAIN <<a>> = {1} /\ (<<a>>)[1] = a
        <4> HIDE DEF W
        <4> QED BY <1>2, <2>1 DEF Last
      <3>2. 0 \in 0..(d - 1)
        BY <1>0
      <3> HIDE DEF W
      <3> QED BY <3>1, <3>2
    <2>2. CASE Near(up, a) # seed
      <3>0. PICK k \in 0..(d - 1) : \E w \in W[k] : Leads(w, k, Near(up, a), S)
        BY <1>4, <2>2
      <3>1. PICK w \in W[k] : Leads(w, k, Near(up, a), S)
        BY <3>0
      <3> DEFINE v == Append(w, a)
      <3>2. a \in arcs /\ k \in Nat /\ k + 1 \in 1..d /\ k + 1 \in 0..d /\ (k + 1) - 1 = k
        BY <1>0
      <3>3. v \in Onward(up, w)
        BY <3>1, <3>2 DEF Onward
      <3>4. v \in W[k + 1]
        <4>1. W[k + 1] = UNION {Onward(up, x) : x \in W[k]}
          <5> HIDE DEF W
          <5> QED BY <1>2, <3>2
        <4> HIDE DEF W, v
        <4> QED BY <3>3, <4>1
      <3>5. v \in Seq(arcs) /\ Len(v) = k + 2 /\ Last(v) = a
            /\ \A i \in DOMAIN v : Near(up, v[i]) \in S \cup {Near(up, a)}
        <4>1. w \in Seq(arcs) /\ Len(w) = k + 1 /\ \A i \in DOMAIN w : Near(up, w[i]) \in S
          BY <3>1
        <4>2. v \in Seq(arcs) /\ Len(v) = Len(w) + 1 /\ Last(v) = a /\ ToSet(v) = ToSet(w) \cup {a}
          BY <3>2, <4>1, Appended
        <4>3. \A x \in ToSet(w) : Near(up, x) \in S
          BY <4>1 DEF ToSet
        <4>4. \A i \in DOMAIN v : v[i] \in ToSet(v)
          BY DEF ToSet
        <4> HIDE DEF v
        <4>5. Len(v) = k + 2
          BY <3>2, <4>1, <4>2
        <4> QED BY <4>2, <4>3, <4>4, <4>5
      <3>6. k + 1 \in 0..(d - 1)
        <4>1. ~(k + 2 > d)
          BY <1>3, <3>2, <3>4, <3>5
        <4> QED BY <1>0, <3>2, <4>1
      <3>7. Len(v) = (k + 1) + 1
        BY <3>2, <3>5
      <3> HIDE DEF v, W
      <3> QED BY <3>4, <3>5, <3>6, <3>7
    <2> QED BY <2>1, <2>2
  <1>5. bad = {}
    <2> SUFFICES ASSUME bad # {} PROVE FALSE
      OBVIOUS
    <2>1. bad \subseteq Nat
      BY <1>1
    <2>2. PICK m \in bad : \A i \in bad : m <= i
      <3> HIDE DEF bad
      <3> QED BY <2>1, Smallest
    <2>3. m # 0
      BY <1>1, <2>2
    <2>4. m - 1 \in 0..N /\ m - 1 \notin bad /\ m \in 1..N
      <3>1. N \in Nat /\ m \in 0..N /\ m # 0 /\ \A i \in bad : m <= i
        BY <1>1, <2>2, <2>3
      <3> HIDE DEF bad, N
      <3> QED BY <3>1
    <2>5. Led(m - 1) /\ ~Led(m)
      BY <2>2, <2>4
    <2> DEFINE S == f[m - 1]
    <2>6. f[m] = OneFurther(up, S, es)
      BY <1>1, <2>4
    <2>7. S \subseteq f[m]
      <3> HIDE DEF f, S
      <3> QED BY <2>6 DEF OneFurther
    <2> SUFFICES ASSUME NEW p \in f[m], p # seed
                 PROVE  \E k \in 0..(d - 1) : \E w \in W[k] : Leads(w, k, p, f[m])
      BY <2>5
    <2>9. CASE p \in S
      <3>0. PICK k \in 0..(d - 1) : \E w \in W[k] : Leads(w, k, p, S)
        BY <2>5, <2>9
      <3>1. PICK w \in W[k] : Leads(w, k, p, S)
        BY <3>0
      <3>2. Leads(w, k, p, f[m])
        BY <2>7, <3>1
      <3> QED BY <3>2
    <2>10. CASE p \notin S
      <3>1. PICK a \in es : Near(up, a) \in S /\ FarEnd(up, a) = p
        <4> HIDE DEF f, S
        <4> QED BY <2>6, <2>10 DEF OneFurther
      <3>2. Near(up, a) = seed
            \/ \E k \in 0..(d - 1) : \E w \in W[k] : Leads(w, k, Near(up, a), S)
        BY <2>5, <3>1
      <3> DEFINE Ends(k, w) == /\ w \in Seq(arcs) /\ Len(w) = k + 1 /\ Last(w) = a
                               /\ \A i \in DOMAIN w : Near(up, w[i]) \in S \cup {Near(up, a)}
      <3>21. \E k \in 0..(d - 1) : \E w \in W[k] : Ends(k, w)
        <4> HIDE DEF f, S, W, Leads
        <4> QED BY <1>4, <3>2
      <3>22. PICK k \in 0..(d - 1) : \E w \in W[k] : Ends(k, w)
        BY <3>21
      <3>3. PICK w \in W[k] : Ends(k, w)
        BY <3>22
      <3>4. Leads(w, k, p, f[m])
        <4> HIDE DEF f, S, W
        <4> QED BY <2>7, <2>10, <3>1, <3>3
      <3> HIDE DEF Leads
      <3> QED BY <3>4
    <2> QED BY <2>9, <2>10
  <1>6. N \in 0..N /\ Led(N)
    <2>1. \A m \in 0..N : Led(m)
      <3> HIDE DEF Led, N
      <3> QED BY <1>5
    <2>2. N \in 0..N
      <3> HIDE DEF N
      <3> QED BY <1>1
    <2> HIDE DEF Led, N
    <2> QED BY <2>1, <2>2
  <1> SUFFICES ASSUME NEW a \in es, Near(up, a) \in f[N]
               PROVE  a \in {Last(x) : x \in Walks(up, seed, d)}
    BY DEF ReachOf
  <1>7. Near(up, a) = seed
        \/ \E k \in 0..(d - 1) : \E w \in W[k] : Leads(w, k, Near(up, a), f[N])
    BY <1>6
  <1> HIDE DEF f, N, W, Leads
  <1>71. PICK k \in 0..(d - 1) : \E w \in W[k] : Last(w) = a
    BY <1>4, <1>7
  <1>8. PICK w \in W[k] : Last(w) = a
    BY <1>71
  <1>9. k \in 0..d
    BY <1>0
  <1> QED BY <1>3, <1>8, <1>9

(* Every row is a sequence of links.                                        *)
LEMMA WalksAreSequences ==
    ASSUME NEW up, NEW seed, NEW d \in Nat
    PROVE  Walks(up, seed, d) \subseteq Seq(arcs)
  <1> DEFINE W == WalksFrom(up, seed, d)
             bad == {m \in 0..d : ~(W[m] \subseteq Seq(arcs))}
  <1>1. bad = {}
    <2> SUFFICES ASSUME bad # {} PROVE FALSE
      OBVIOUS
    <2>1. bad \subseteq Nat
      OBVIOUS
    <2>2. PICK m \in bad : \A i \in bad : m <= i
      <3> HIDE DEF bad
      <3> QED BY <2>1, Smallest
    <2>3. m # 0
      <3>1. \A a \in arcs : <<a>> \in Seq(arcs)
        OBVIOUS
      <3>2. W[0] \subseteq Seq(arcs)
        <4>1. W[0] = {<<a>> : a \in {b \in arcs : Near(up, b) = seed}}
          BY WalksGrow
        <4> HIDE DEF W
        <4> QED BY <3>1, <4>1
      <3> QED BY <2>2, <3>2
    <2>4. m - 1 \in 0..d /\ m - 1 \notin bad /\ m \in 1..d
      BY <2>2, <2>3
    <2>5. W[m] = UNION {Onward(up, w) : w \in W[m - 1]} /\ W[m - 1] \subseteq Seq(arcs)
      BY <2>4, WalksGrow
    <2>6. \A w \in Seq(arcs), a \in arcs : Append(w, a) \in Seq(arcs)
      OBVIOUS
    <2>7. ~(W[m] \subseteq Seq(arcs))
      BY <2>2
    <2> HIDE DEF W
    <2>8. \A w \in Seq(arcs) : Onward(up, w) \subseteq Seq(arcs)
      BY <2>6 DEF Onward
    <2> QED BY <2>5, <2>7, <2>8
  <1>2. \A k \in 0..d : W[k] \subseteq Seq(arcs)
    <2> HIDE DEF W
    <2> QED BY <1>1
  <1> QED BY <1>2 DEF Walks

----------------------------------------------------------------------------
(* Reports: the lists of a task tree *)

(* The task that is taken is the only one that its list loses.              *)
LEMMA TopLoses ==
    ASSUME NEW S, NEW s \in Seq(SUBSET S), s # <<>>, NEW p
    PROVE  /\ TopWithout(s, p) \in Seq(SUBSET S) /\ TopWithout(s, p) # <<>>
           /\ UNION ToSet(s) \subseteq (UNION ToSet(TopWithout(s, p))) \cup {p}
  <1> DEFINE t == TopWithout(s, p)
  <1>1. Len(s) \in Nat /\ Len(s) \in 1..Len(s) /\ DOMAIN s = 1..Len(s)
        /\ \A i \in 1..Len(s) : s[i] \in SUBSET S
    OBVIOUS
  <1>2. /\ DOMAIN t = 1..Len(s)
        /\ \A i \in 1..Len(s) : t[i] = IF i = Len(s) THEN s[i] \ {p} ELSE s[i]
        /\ t = [i \in 1..Len(s) |-> t[i]]
    <2>1. t = [i \in DOMAIN s |-> IF i = Len(s) THEN s[i] \ {p} ELSE s[i]]
      BY <1>1 DEF TopWithout
    <2> HIDE DEF t
    <2> QED BY <1>1, <2>1
  <1> HIDE DEF t
  <1>3. t \in Seq(SUBSET S) /\ Len(t) = Len(s)
    <2>1. \A i \in 1..Len(s) : t[i] \in SUBSET S
      BY <1>1, <1>2
    <2>3. t \in [1..Len(s) -> SUBSET S]
      BY <1>2, <2>1
    <2>4. \A n \in Nat : \A u \in [1..n -> SUBSET S] : u \in Seq(SUBSET S) /\ Len(u) = n
      OBVIOUS
    <2> QED BY <1>1, <2>3, <2>4
  <1>4. t # <<>>
    BY <1>1, <1>3
  <1>5. UNION ToSet(s) \subseteq (UNION ToSet(t)) \cup {p}
    <2>1. ToSet(s) = {s[i] : i \in 1..Len(s)} /\ ToSet(t) = {t[i] : i \in 1..Len(s)}
      BY <1>1, <1>2 DEF ToSet
    <2>2. ASSUME NEW i \in 1..Len(s), NEW x \in s[i], x # p PROVE x \in UNION ToSet(t)
      <3>1. x \in t[i] /\ t[i] \in ToSet(t)
        BY <1>2, <2>1, <2>2
      <3> QED BY <3>1
    <2> QED BY <2>1, <2>2
  <1> QED BY <1>3, <1>4, <1>5 DEF t

(* A list that is over held no task.                                        *)
LEMMA LastWasEmpty ==
    ASSUME NEW S, NEW s \in Seq(SUBSET S), s # <<>>, Last(s) = {}
    PROVE  /\ Front(s) \in Seq(SUBSET S) /\ (Len(s) # 1 => Front(s) # <<>>)
           /\ UNION ToSet(s) \subseteq UNION ToSet(Front(s))
           /\ Len(s) = 1 => UNION ToSet(s) = {}
  <1> DEFINE t == Front(s)
  <1>1. Len(s) \in Nat /\ Len(s) # 0 /\ DOMAIN s = 1..Len(s) /\ s[Len(s)] = {}
    BY DEF Last
  <1>2. t \in Seq(SUBSET S) /\ Len(t) = Len(s) - 1 /\ DOMAIN t = 1..(Len(s) - 1)
        /\ \A i \in 1..(Len(s) - 1) : t[i] = s[i]
    BY <1>1 DEF Front
  <1> HIDE DEF t
  <1>3. ToSet(s) = {s[i] : i \in 1..Len(s)} /\ ToSet(t) = {t[i] : i \in 1..(Len(s) - 1)}
    BY <1>1, <1>2 DEF ToSet
  <1>4. ASSUME NEW i \in 1..Len(s), NEW x \in s[i] PROVE i \in 1..(Len(s) - 1) /\ x \in t[i]
    <2>1. i # Len(s)
      BY <1>1, <1>4
    <2>2. i \in 1..(Len(s) - 1)
      <3>1. \A n \in Nat : \A k \in 1..n : k # n => k \in 1..(n - 1)
        OBVIOUS
      <3> QED BY <1>1, <2>1, <3>1
    <2> QED BY <1>2, <2>2
  <1>5. UNION ToSet(s) \subseteq UNION ToSet(t)
    <2> SUFFICES ASSUME NEW i \in 1..Len(s), NEW x \in s[i] PROVE x \in UNION ToSet(t)
      BY <1>3
    <2>1. x \in t[i] /\ t[i] \in ToSet(t)
      BY <1>3, <1>4
    <2> QED BY <2>1
  <1>6. Len(s) = 1 => UNION ToSet(s) = {}
    <2> SUFFICES ASSUME Len(s) = 1, NEW i \in 1..Len(s), NEW x \in s[i] PROVE FALSE
      BY <1>3
    <2>1. i = Len(s)
      BY <1>1
    <2> QED BY <1>1, <2>1
  <1>7. Len(s) # 1 => t # <<>>
    BY <1>1, <1>2
  <1> QED BY <1>2, <1>5, <1>6, <1>7 DEF t

(* A sequence that repeats nothing goes on with something new.              *)
LEMMA StaysInjective ==
    ASSUME NEW S, NEW s \in Seq(S), IsInjective(s), NEW v \in S, v \notin ToSet(s)
    PROVE  IsInjective(Append(s, v))
  <1> DEFINE t == Append(s, v)
  <1>1. Len(s) \in Nat /\ DOMAIN s = 1..Len(s) /\ DOMAIN t = 1..(Len(s) + 1)
        /\ t[Len(s) + 1] = v /\ \A i \in 1..Len(s) : t[i] = s[i]
    OBVIOUS
  <1> HIDE DEF t
  <1>2. \A i \in DOMAIN t : i \in DOMAIN s \/ i = Len(s) + 1
    BY <1>1
  <1>3. \A i \in DOMAIN s : s[i] # v
    BY DEF ToSet
  <1> SUFFICES ASSUME NEW i \in DOMAIN t, NEW j \in DOMAIN t, t[i] = t[j] PROVE i = j
    BY DEF IsInjective, t
  <1>4. CASE i \in DOMAIN s /\ j \in DOMAIN s
    BY <1>1, <1>4 DEF IsInjective
  <1>5. CASE i \notin DOMAIN s \/ j \notin DOMAIN s
    BY <1>1, <1>2, <1>3, <1>5
  <1> QED BY <1>4, <1>5

----------------------------------------------------------------------------
(* Reports: the invariant *)

\* The fields of a report, of either kind.
ReportFields == {"pc", "seed", "depth", "cap", "rows", "lines", "stack", "cut", "first"}

\* Of a tree that was not cut: the root and what is below a listed task are
\* listed or in a list that is being walked.
TreeOK(w) ==
    /\ w.stack \in Seq(SUBSET Points) /\ w.stack # <<>> /\ ~w.cut
    /\ w.seed \in ToSet(w.lines) \cup UNION ToSet(w.stack)
    /\ \A a \in w.first : a[1] \in ToSet(w.lines) =>
          a[2] \in ToSet(w.lines) \cup UNION ToSet(w.stack)
ReportOK(w) ==
    /\ DOMAIN w = ReportFields /\ w.seed \in Points /\ w.cut \in BOOLEAN
    /\ w.lines \in Seq(Points) /\ IsInjective(w.lines)
    /\ w.pc \in {"ancestors", "descendants", "cap", "tree", "done"}
    /\ w.pc \in {"ancestors", "descendants", "cap"} => w.lines = <<>> /\ w.depth \in Nat \ {0}
    /\ w.pc \in {"descendants", "cap"} /\ ~w.cut => HoldsLineage(w, TRUE)
    /\ w.pc = "cap" /\ ~w.cut => HoldsLineage(w, FALSE)
    /\ w.pc = "tree" => TreeOK(w)
    /\ w.pc = "done" /\ ~w.cut => IF w.lines = <<>>
                                  THEN \A up \in BOOLEAN : HoldsLineage(w, up)
                                  ELSE HoldsTree(w)
ReportsInv ==
    /\ arcs \subseteq Arcs /\ DOMAIN report = Readers
    /\ \A r \in Readers : report[r].pc # "idle" => ReportOK(report[r]) /\ report[r].first \subseteq arcs

(* HoldsLineage, link by link.                                              *)
LEMMA SeedLeads == \A up, w : HoldsLineage(w, up) <=>
    \A a \in w.first : Near(up, a) \in ReachOf(up, w.seed, w.first) =>
        \E x \in w.rows : x[1] = up /\ Last(x[2]) = a
  BY DEF HoldsLineage

(* A step of one report changes no link and no other report.                *)
LEMMA OneReportMoves ==
    ASSUME ReportsInv, NEW r \in Readers, NEW w, report' = [report EXCEPT ![r] = w],
           arcs' = arcs, ReportOK(w), w.first \subseteq arcs
    PROVE  ReportsInv'
  <1>1. DOMAIN report' = Readers
    BY DEF ReportsInv
  <1>2. ASSUME NEW q \in Readers
        PROVE  (report[q].pc # "idle" => ReportOK(report[q]) /\ report[q].first \subseteq arcs)'
    <2>1. report'[q].pc # "idle" => ReportOK(report'[q]) /\ report'[q].first \subseteq arcs
      BY DEF ReportsInv
    <2> QED BY <2>1 DEF ReportOK, HoldsLineage, HoldsTree, TreeOK
  <1> QED BY <1>1, <1>2 DEF ReportsInv

(* The invariant, one action at a time.                                     *)
LEMMA AskLineageKeeps == ASSUME ReportsInv, NEW r \in Readers, AskLineage(r) PROVE ReportsInv'
  <1>1. PICK s \in Points, d \in Depths \ {0}, c \in Limits :
           report' = [report EXCEPT ![r] =
             [pc |-> "ancestors", seed |-> s, depth |-> d, cap |-> c, rows |-> {},
              lines |-> <<>>, stack |-> <<>>, cut |-> FALSE, first |-> arcs]]
    BY DEF AskLineage
  <1> DEFINE w == [pc |-> "ancestors", seed |-> s, depth |-> d, cap |-> c, rows |-> {},
                   lines |-> <<>>, stack |-> <<>>, cut |-> FALSE, first |-> arcs]
  <1>2. d \in Nat \ {0}
    BY ReportsAssumption
  <1>3. IsInjective(<<>>) /\ <<>> \in Seq(Points)
    BY DEF IsInjective
  <1>4. ReportOK(w) /\ w.first = arcs
    BY <1>2, <1>3 DEF ReportOK, ReportFields
  <1>5. arcs' = arcs /\ report' = [report EXCEPT ![r] = w]
    BY <1>1 DEF AskLineage
  <1> HIDE DEF w
  <1> QED BY <1>4, <1>5, OneReportMoves

(* A tree begins with the root in the list that is walked.                  *)
LEMMA AskTreeKeeps == ASSUME ReportsInv, NEW r \in Readers, AskTree(r) PROVE ReportsInv'
  <1>1. PICK s \in Points, d \in Depths, c \in Limits :
           report' = [report EXCEPT ![r] =
             [pc |-> "tree", seed |-> s, depth |-> d, cap |-> c, rows |-> {},
              lines |-> <<>>, stack |-> <<{s}>>, cut |-> FALSE, first |-> arcs]]
    BY DEF AskTree
  <1> DEFINE w == [pc |-> "tree", seed |-> s, depth |-> d, cap |-> c, rows |-> {},
                   lines |-> <<>>, stack |-> <<{s}>>, cut |-> FALSE, first |-> arcs]
  <1>2. IsInjective(<<>>) /\ <<>> \in Seq(Points) /\ ToSet(<<>>) = {}
    BY DEF IsInjective, ToSet
  <1>3. <<{s}>> \in Seq(SUBSET Points) /\ <<{s}>> # <<>> /\ s \in UNION ToSet(<<{s}>>)
    <2>1. <<{s}>> \in Seq(SUBSET Points) /\ <<{s}>> # <<>>
      OBVIOUS
    <2>2. {s} \in ToSet(<<{s}>>)
      BY DEF ToSet
    <2> QED BY <2>1, <2>2
  <1>4. TreeOK(w)
    BY <1>2, <1>3 DEF TreeOK
  <1>5. ReportOK(w) /\ w.first = arcs
    BY <1>2, <1>4 DEF ReportOK, ReportFields
  <1>6. arcs' = arcs /\ report' = [report EXCEPT ![r] = w]
    BY <1>1 DEF AskTree
  <1> HIDE DEF w
  <1> QED BY <1>5, <1>6, OneReportMoves

(* A direction that was not cut has given every link in it.                 *)
LEMMA WalkLineageKeeps == ASSUME ReportsInv, NEW r \in Readers, WalkLineage(r) PROVE ReportsInv'
  <1> DEFINE w == report[r]
             up == w.pc = "ancestors"
             all == Walks(up, w.seed, w.depth)
             new == {<<up, x>> : x \in {y \in all : Len(y) <= w.depth}}
             v == [w EXCEPT !.rows = @ \cup new, !.cut = @ \/ Deeper(w, all),
                            !.pc = IF up THEN "descendants" ELSE "cap"]
  <1>1. ReportOK(w) /\ w.first \subseteq arcs /\ w.pc \in {"ancestors", "descendants"}
    BY DEF ReportsInv, WalkLineage
  <1>2. r \in DOMAIN report /\ DOMAIN w = ReportFields
    BY <1>1 DEF ReportsInv, ReportOK
  <1>3. report' = [report EXCEPT ![r] = v] /\ arcs' = arcs
    BY <1>2 DEF WalkLineage, ReportFields
  <1>4. /\ DOMAIN v = ReportFields /\ v.rows = w.rows \cup new /\ v.cut = (w.cut \/ Deeper(w, all))
        /\ v.pc = IF up THEN "descendants" ELSE "cap"
        /\ v.seed = w.seed /\ v.depth = w.depth /\ v.lines = w.lines /\ v.first = w.first
    <2> HIDE DEF all, new
    <2> QED BY <1>2 DEF ReportFields
  <1> HIDE DEF v
  <1>5. w.depth \in Nat \ {0} /\ w.seed \in Points /\ w.lines = <<>> /\ w.cut \in BOOLEAN
        /\ up \in BOOLEAN /\ arcs \subseteq Arcs
    BY <1>1 DEF ReportOK, ReportsInv
  <1>6. ~Deeper(w, all) => HoldsLineage(v, up)
    <2> SUFFICES ASSUME ~Deeper(w, all), NEW a \in w.first,
                        Near(up, a) \in ReachOf(up, w.seed, w.first)
                 PROVE  \E x \in v.rows : x[1] = up /\ Last(x[2]) = a
      BY <1>4, SeedLeads
    <2>1. ~\E x \in all : Len(x) > w.depth
      BY DEF Deeper
    <2>2. a \in {Last(x) : x \in all}
      <3>1. {b \in w.first : Near(up, b) \in ReachOf(up, w.seed, w.first)} \subseteq {Last(x) : x \in all}
        <4> HIDE DEF w, up
        <4> QED BY <1>1, <1>5, <2>1, WalksReachAll DEF all
      <3> HIDE DEF all
      <3> QED BY <3>1
    <2>3. PICK x \in all : Last(x) = a
      <3> HIDE DEF all
      <3> QED BY <2>2
    <2>4. Len(x) <= w.depth
      <3>1. Len(x) \in Nat
        BY <1>5, WalksAreSequences
      <3> HIDE DEF all, w
      <3> QED BY <1>5, <2>1, <3>1
    <2>5. <<up, x>> \in v.rows
      BY <1>4, <2>4
    <2> HIDE DEF up, all
    <2> QED BY <2>3, <2>5
  <1>7. \A u : HoldsLineage(w, u) => HoldsLineage(v, u)
    <2> HIDE DEF new, w
    <2> QED BY <1>4, SeedLeads
  <1> HIDE DEF all, new
  <1>8. ReportOK(v)
    <2>1. v.pc \in {"descendants", "cap"} /\ v.cut \in BOOLEAN
      BY <1>4, <1>5
    <2>2. ~v.cut => HoldsLineage(v, TRUE)
      <3>1. CASE w.pc = "ancestors"
        BY <1>4, <1>5, <1>6, <3>1
      <3>2. CASE w.pc = "descendants"
        BY <1>1, <1>4, <1>5, <1>7, <3>2 DEF ReportOK
      <3> QED BY <1>1, <3>1, <3>2
    <2>3. v.pc = "cap" /\ ~v.cut => HoldsLineage(v, FALSE)
      BY <1>4, <1>5, <1>6
    <2>4. v.seed \in Points /\ v.lines \in Seq(Points) /\ IsInjective(v.lines)
      BY <1>1, <1>4 DEF ReportOK
    <2> HIDE DEF w
    <2> QED BY <1>4, <1>5, <2>1, <2>2, <2>3, <2>4 DEF ReportOK
  <1> QED BY <1>1, <1>3, <1>4, <1>8, OneReportMoves

(* Under the cap, all rows survive.                                         *)
LEMMA ReplyLineageKeeps == ASSUME ReportsInv, NEW r \in Readers, ReplyLineage(r) PROVE ReportsInv'
  <1> DEFINE w == report[r]
  <1>1. ReportOK(w) /\ w.first \subseteq arcs /\ w.pc = "cap"
    BY DEF ReportsInv, ReplyLineage
  <1>2. r \in DOMAIN report /\ DOMAIN w = ReportFields
    BY <1>1 DEF ReportsInv, ReportOK
  <1>3. PICK kept \in CutAt(w.rows, w.cap) :
           report' = [report EXCEPT ![r].rows = kept, ![r].pc = "done",
                                    ![r].cut = @ \/ kept # w.rows]
    BY DEF ReplyLineage
  <1> DEFINE v == [w EXCEPT !.rows = kept, !.pc = "done", !.cut = @ \/ kept # w.rows]
  <1>4. report' = [report EXCEPT ![r] = v] /\ arcs' = arcs
    BY <1>2, <1>3 DEF ReplyLineage, ReportFields
  <1>5. /\ DOMAIN v = ReportFields /\ v.rows = kept /\ v.cut = (w.cut \/ kept # w.rows)
        /\ v.pc = "done" /\ v.seed = w.seed /\ v.lines = w.lines /\ v.first = w.first
    BY <1>2 DEF ReportFields
  <1> HIDE DEF v
  <1>6. w.cut \in BOOLEAN /\ w.lines = <<>>
    BY <1>1 DEF ReportOK
  <1>7. ~v.cut => \A up \in BOOLEAN : HoldsLineage(v, up)
    <2> SUFFICES ASSUME ~v.cut, NEW up \in BOOLEAN PROVE HoldsLineage(v, up)
      OBVIOUS
    <2>1. HoldsLineage(w, up)
      <3>1. HoldsLineage(w, TRUE) /\ HoldsLineage(w, FALSE)
        BY <1>1, <1>5, <1>6 DEF ReportOK
      <3> QED BY <3>1
    <2> HIDE DEF w
    <2> QED BY <1>5, <1>6, <2>1, SeedLeads
  <1>8. ReportOK(v)
    <2>1. v.seed \in Points /\ v.lines \in Seq(Points) /\ IsInjective(v.lines) /\ v.cut \in BOOLEAN
      BY <1>1, <1>5, <1>6 DEF ReportOK
    <2> HIDE DEF w
    <2> QED BY <1>5, <1>6, <1>7, <2>1 DEF ReportOK
  <1> QED BY <1>1, <1>4, <1>5, <1>8, OneReportMoves

(* A list that is done holds nothing, so nothing is lost with it.           *)
LEMMA FinishListKeeps == ASSUME ReportsInv, NEW r \in Readers, FinishList(r) PROVE ReportsInv'
  <1> DEFINE w == report[r]
             v == [w EXCEPT !.stack = Front(@), !.pc = IF Len(w.stack) = 1 THEN "done" ELSE @]
  <1>1. ReportOK(w) /\ w.first \subseteq arcs /\ w.pc = "tree" /\ Last(w.stack) = {}
    BY DEF ReportsInv, FinishList
  <1>2. r \in DOMAIN report /\ DOMAIN w = ReportFields /\ TreeOK(w)
    BY <1>1 DEF ReportsInv, ReportOK
  <1>3. report' = [report EXCEPT ![r] = v] /\ arcs' = arcs
    BY <1>2 DEF FinishList, ReportFields
  <1>4. /\ DOMAIN v = ReportFields /\ v.stack = Front(w.stack) /\ v.cut = w.cut
        /\ v.pc = IF Len(w.stack) = 1 THEN "done" ELSE "tree"
        /\ v.seed = w.seed /\ v.lines = w.lines /\ v.first = w.first
    BY <1>1, <1>2 DEF ReportFields
  <1> HIDE DEF v
  <1>5. w.lines \in Seq(Points) /\ IsInjective(w.lines) /\ w.seed \in Points /\ ~w.cut
        /\ w.stack \in Seq(SUBSET Points) /\ w.stack # <<>>
    BY <1>1, <1>2 DEF ReportOK, TreeOK
  <1>6. /\ Front(w.stack) \in Seq(SUBSET Points) /\ (Len(w.stack) # 1 => Front(w.stack) # <<>>)
        /\ UNION ToSet(w.stack) \subseteq UNION ToSet(Front(w.stack))
        /\ Len(w.stack) = 1 => UNION ToSet(w.stack) = {}
    <2> HIDE DEF w
    <2> QED BY <1>1, <1>5, LastWasEmpty
  <1>7. Len(w.stack) # 1 => TreeOK(v)
    BY <1>2, <1>4, <1>5, <1>6 DEF TreeOK
  <1>8. Len(w.stack) = 1 => HoldsTree(v) /\ v.lines # <<>>
    <2> SUFFICES ASSUME Len(w.stack) = 1 PROVE HoldsTree(v) /\ v.lines # <<>>
      OBVIOUS
    <2>1. w.seed \in ToSet(w.lines) /\ \A a \in w.first : a[1] \in ToSet(w.lines) => a[2] \in ToSet(w.lines)
      BY <1>2, <1>6 DEF TreeOK
    <2>2. w.first \in SUBSET Arcs
      BY <1>1 DEF ReportsInv
    <2>3. ReachOf(FALSE, w.seed, w.first) \subseteq ToSet(w.lines)
      <3>1. \A a \in w.first : Near(FALSE, a) \in ToSet(w.lines) => FarEnd(FALSE, a) \in ToSet(w.lines)
        BY <2>1 DEF Near, FarEnd
      <3> HIDE DEF w
      <3> QED BY <1>5, <2>1, <2>2, <3>1, ClosedHoldsReach
    <2>4. w.lines # <<>>
      BY <2>1 DEF ToSet
    <2> QED BY <1>4, <2>3, <2>4 DEF HoldsTree
  <1>9. ReportOK(v)
    <2>1. /\ v.seed \in Points /\ v.cut \in BOOLEAN /\ v.lines \in Seq(Points) /\ IsInjective(v.lines)
          /\ v.pc \in {"tree", "done"}
      BY <1>1, <1>4, <1>5 DEF ReportOK
    <2>2. (v.pc = "tree" => TreeOK(v)) /\ (v.pc = "done" => HoldsTree(v) /\ v.lines # <<>>)
      <3>1. CASE Len(w.stack) = 1
        BY <1>4, <1>8, <3>1
      <3>2. CASE Len(w.stack) # 1
        BY <1>4, <1>7, <3>2
      <3> QED BY <3>1, <3>2
    <2> HIDE DEF w
    <2> QED BY <1>4, <2>1, <2>2 DEF ReportOK
  <1> QED BY <1>1, <1>3, <1>4, <1>9, OneReportMoves

(* A listed task has what is below it listed, walked, or on the list that   *)
(* it has just got.                                                         *)
LEMMA VisitedOK ==
    ASSUME ReportsInv, NEW w, ReportOK(w), w.pc = "tree", w.first \subseteq arcs,
           NEW p \in Last(w.stack)
    PROVE  ReportOK(Visited(w, p)) /\ Visited(w, p).first = w.first
  <1> DEFINE rest == TopWithout(w.stack, p)
             below == Children(p, ToSet(w.lines) \cup {p})
             longer == Append(w.lines, p)
  <1>1. /\ DOMAIN w = ReportFields /\ w.seed \in Points /\ w.lines \in Seq(Points)
        /\ IsInjective(w.lines) /\ TreeOK(w) /\ arcs \subseteq Arcs
    BY DEF ReportOK, ReportsInv
  <1>2. w.stack \in Seq(SUBSET Points) /\ w.stack # <<>> /\ ~w.cut
    BY <1>1 DEF TreeOK
  <1>3. p \in Points
    BY <1>2 DEF Last
  <1>4. /\ rest \in Seq(SUBSET Points) /\ rest # <<>>
        /\ UNION ToSet(w.stack) \subseteq (UNION ToSet(rest)) \cup {p}
    BY <1>2, TopLoses
  <1>5. below \subseteq Points
    BY <1>1, ReportsAssumption DEF Children
  <1>6. \A a \in w.first : a[1] = p => a[2] \in ToSet(w.lines) \cup {p} \cup below
    BY DEF Children
  <1>7. p \notin ToSet(w.lines) =>
           /\ longer \in Seq(Points) /\ IsInjective(longer) /\ ToSet(longer) = ToSet(w.lines) \cup {p}
    BY <1>1, <1>3, Appended, StaysInjective
  <1>8. /\ Append(rest, below) \in Seq(SUBSET Points) /\ Append(rest, below) # <<>>
        /\ UNION ToSet(Append(rest, below)) = (UNION ToSet(rest)) \cup below
    <2> HIDE DEF rest, below
    <2>1. /\ Append(rest, below) \in Seq(SUBSET Points)
          /\ Len(Append(rest, below)) = Len(rest) + 1
          /\ ToSet(Append(rest, below)) = ToSet(rest) \cup {below}
      BY <1>4, <1>5, Appended
    <2>2. Append(rest, below) # <<>>
      BY <1>4
    <2> QED BY <2>1, <2>2
  <1> HIDE DEF rest, below, longer
  <1>9. CASE Len(w.lines) >= w.cap
    <2> DEFINE v == [w EXCEPT !.cut = TRUE, !.pc = "done"]
    <2>1. Visited(w, p) = v
      BY <1>9 DEF Visited
    <2>2. DOMAIN v = ReportFields /\ v.cut = TRUE /\ v.pc = "done" /\ v.seed = w.seed
          /\ v.lines = w.lines /\ v.first = w.first
      BY <1>1 DEF ReportFields
    <2> HIDE DEF v
    <2>3. ReportOK(v)
      BY <1>1, <2>2 DEF ReportOK
    <2> QED BY <2>1, <2>2, <2>3
  <1>10. CASE ~(Len(w.lines) >= w.cap) /\ p \in ToSet(w.lines)
    <2> DEFINE v == [w EXCEPT !.stack = rest]
    <2>1. Visited(w, p) = v
      BY <1>10 DEF Visited, rest
    <2>2. DOMAIN v = ReportFields /\ v.cut = w.cut /\ v.pc = "tree" /\ v.seed = w.seed
          /\ v.lines = w.lines /\ v.first = w.first /\ v.stack = rest
      BY <1>1 DEF ReportFields
    <2> HIDE DEF v
    <2>3. TreeOK(v)
      BY <1>1, <1>2, <1>4, <1>10, <2>2 DEF TreeOK
    <2>4. ReportOK(v)
      BY <1>1, <1>2, <2>2, <2>3 DEF ReportOK
    <2> QED BY <2>1, <2>2, <2>4
  <1>11. CASE ~(Len(w.lines) >= w.cap) /\ p \notin ToSet(w.lines) /\ StopsTree(w, below)
    <2> DEFINE v == [w EXCEPT !.lines = longer, !.cut = TRUE, !.pc = "done"]
    <2>1. Visited(w, p) = v
      BY <1>11 DEF Visited, below, longer
    <2>2. DOMAIN v = ReportFields /\ v.cut = TRUE /\ v.pc = "done" /\ v.seed = w.seed
          /\ v.lines = longer /\ v.first = w.first
      BY <1>1 DEF ReportFields
    <2> HIDE DEF v
    <2>3. ReportOK(v)
      BY <1>1, <1>7, <1>11, <2>2 DEF ReportOK
    <2> QED BY <2>1, <2>2, <2>3
  <1>12. CASE ~(Len(w.lines) >= w.cap) /\ p \notin ToSet(w.lines) /\ ~StopsTree(w, below)
    <2> DEFINE stack == IF Depth(w) >= w.depth THEN rest ELSE Append(rest, below)
               v == [w EXCEPT !.lines = longer, !.stack = stack]
    <2>1. Visited(w, p) = v
      BY <1>12 DEF Visited, below, longer, rest
    <2>2. DOMAIN v = ReportFields /\ v.cut = w.cut /\ v.pc = "tree" /\ v.seed = w.seed
          /\ v.lines = longer /\ v.first = w.first /\ v.stack = stack
      BY <1>1 DEF ReportFields
    <2> HIDE DEF v
    <2>3. /\ stack \in Seq(SUBSET Points) /\ stack # <<>>
          /\ UNION ToSet(stack) = (UNION ToSet(rest)) \cup below
      <3>1. CASE Depth(w) >= w.depth
        <4>1. below = {}
          BY <1>12, <3>1 DEF StopsTree
        <4> QED BY <1>4, <3>1, <4>1
      <3>2. CASE ~(Depth(w) >= w.depth)
        BY <1>8, <3>2
      <3> QED BY <3>1, <3>2
    <2> HIDE DEF stack
    <2>4. TreeOK(v)
      <3>1. ToSet(v.lines) = ToSet(w.lines) \cup {p} /\ ~v.cut
        BY <1>2, <1>7, <1>12, <2>2
      <3>2. v.seed \in ToSet(v.lines) \cup UNION ToSet(v.stack)
        BY <1>1, <1>4, <2>2, <2>3, <3>1 DEF TreeOK
      <3>3. ASSUME NEW a \in v.first, a[1] \in ToSet(v.lines)
            PROVE  a[2] \in ToSet(v.lines) \cup UNION ToSet(v.stack)
        <4>1. CASE a[1] = p
          BY <1>6, <2>2, <2>3, <3>1, <4>1
        <4>2. CASE a[1] \in ToSet(w.lines)
          BY <1>1, <1>4, <2>2, <2>3, <3>1, <4>2 DEF TreeOK
        <4> QED BY <3>1, <3>3, <4>1, <4>2
      <3> QED BY <2>2, <2>3, <3>1, <3>2, <3>3 DEF TreeOK
    <2>5. ReportOK(v)
      BY <1>1, <1>2, <1>7, <1>12, <2>2, <2>4 DEF ReportOK
    <2> QED BY <2>1, <2>2, <2>5
  <1> QED BY <1>9, <1>10, <1>11, <1>12

(* Every step of a report keeps the invariant; links are only added.        *)
LEMMA ReportsInvNext == ReportsInv /\ [ReportsNext]_reportVars => ReportsInv'
  <1> SUFFICES ASSUME ReportsInv, [ReportsNext]_reportVars PROVE ReportsInv'
    OBVIOUS
  <1>1. CASE AddArc
    <2>1. report' = report /\ arcs \subseteq arcs' /\ arcs' \subseteq Arcs
      BY <1>1 DEF AddArc, ReportsInv
    <2>2. ASSUME NEW q \in Readers
          PROVE  (report[q].pc # "idle" => ReportOK(report[q]) /\ report[q].first \subseteq arcs)'
      <3>1. report'[q].pc # "idle" => ReportOK(report'[q]) /\ report'[q].first \subseteq arcs'
        BY <2>1 DEF ReportsInv
      <3> QED BY <3>1 DEF ReportOK, HoldsLineage, HoldsTree, TreeOK
    <2> QED BY <2>1, <2>2 DEF ReportsInv
  <1>2. ASSUME NEW r \in Readers, VisitTask(r) PROVE ReportsInv'
    <2>1. PICK p \in Last(report[r].stack) : report' = [report EXCEPT ![r] = Visited(@, p)]
      BY <1>2 DEF VisitTask
    <2> DEFINE v == Visited(report[r], p)
    <2>2. ReportOK(report[r]) /\ report[r].pc = "tree" /\ report[r].first \subseteq arcs
      BY <1>2 DEF ReportsInv, VisitTask
    <2>3. ReportOK(v) /\ v.first = report[r].first
      BY <2>2, VisitedOK
    <2>4. report' = [report EXCEPT ![r] = v] /\ arcs' = arcs
      BY <1>2, <2>1 DEF VisitTask
    <2> HIDE DEF v
    <2> QED BY <2>2, <2>3, <2>4, OneReportMoves
  <1>3. CASE UNCHANGED reportVars
    <2>1. report' = report /\ arcs' = arcs
      BY <1>3 DEF reportVars
    <2>2. ASSUME NEW q \in Readers
          PROVE  (report[q].pc # "idle" => ReportOK(report[q]) /\ report[q].first \subseteq arcs)'
      <3>1. report'[q].pc # "idle" => ReportOK(report'[q]) /\ report'[q].first \subseteq arcs'
        BY <2>1 DEF ReportsInv
      <3> QED BY <3>1 DEF ReportOK, HoldsLineage, HoldsTree, TreeOK
    <2> QED BY <2>1, <2>2 DEF ReportsInv
  <1> QED BY <1>1, <1>2, <1>3, AskLineageKeeps, AskTreeKeeps, WalkLineageKeeps,
             ReplyLineageKeeps, FinishListKeeps DEF ReportsNext

(* mem_lineage and task_tree: a report that does not say it was truncated   *)
(* holds all that was there when it was asked for, over graphs of any size  *)
(* and shape and whatever links are added meanwhile; a tree lists no task   *)
(* twice (provenance.py, tasks/api.py).                                     *)
THEOREM ReportsAreComplete == ReportsSpec => []UntruncatedReportsAreComplete
  <1>1. ReportsInit => ReportsInv
    BY DEF ReportsInit, ReportsInv
  <1>2. ReportsInv => UntruncatedReportsAreComplete
    BY DEF ReportsInv, ReportOK, UntruncatedReportsAreComplete
  <1> QED BY <1>1, <1>2, ReportsInvNext, PTL DEF ReportsSpec

-----------------------------------------------------------------------------
(* memory_related *)

\* The memories of S nearer to the seed than m.
Above(m, S, seed) == {x \in S : Nearness[seed][x] > Nearness[seed][m]}

(* The seed costs one place of those that were asked for, wherever it comes. *)
LEMMA SeedTakesOnePlace ==
    ASSUME NEW n \in Nat, NEW V, V \subseteq Kin, NEW seed \in Kin
    PROVE  Foremost(n, Foremost(n + 1, V, seed) \ {seed}, seed) = Foremost(n, V \ {seed}, seed)
  <1> DEFINE F == Foremost(n + 1, V, seed)
  <1>0. \A a, b, c \in Kin : /\ Nearness[seed][a] \in Int
                             /\ Nearness[seed][a] > Nearness[seed][b] /\ Nearness[seed][b] > Nearness[seed][c]
                                  => Nearness[seed][a] > Nearness[seed][c]
    BY KinAssumption
  <1>1. \A S, m : S \subseteq Kin =>
           /\ IsFiniteSet(Above(m, S, seed)) /\ Cardinality(Above(m, S, seed)) \in Nat
    <2> TAKE S, m
    <2> HAVE S \subseteq Kin
    <2>1. Above(m, S, seed) \subseteq Kin
      BY DEF Above
    <2> QED BY <2>1, KinAssumption, FS_Subset, FS_CardinalityType
  <1>2. ASSUME NEW m \in V, Cardinality(Above(m, V, seed)) <= n
        PROVE  Above(m, F \ {seed}, seed) = Above(m, V \ {seed}, seed)
    <2>1. ASSUME NEW x \in Above(m, V, seed) PROVE x \in F
      <3>1. Above(x, V, seed) \subseteq Above(m, V, seed)
        BY <1>0, <2>1 DEF Above
      <3>2. Cardinality(Above(x, V, seed)) <= Cardinality(Above(m, V, seed))
        BY <1>1, <3>1, FS_Subset
      <3>3. Cardinality(Above(x, V, seed)) < n + 1
        BY <1>1, <1>2, <3>2
      <3> QED BY <2>1, <3>3 DEF Foremost, Above
    <2> QED BY <2>1 DEF Above, Foremost
  <1>3. ASSUME NEW m \in F \ {seed} PROVE m \in V /\ Cardinality(Above(m, V, seed)) <= n
    <2>1. m \in V /\ Cardinality(Above(m, V, seed)) < n + 1
      BY <1>3 DEF Foremost, Above
    <2> QED BY <1>1, <2>1
  <1>4. ASSUME NEW m \in V \ {seed}, Cardinality(Above(m, V \ {seed}, seed)) < n
        PROVE  m \in F /\ Cardinality(Above(m, V, seed)) <= n
    <2> DEFINE A == Above(m, V \ {seed}, seed)
    <2>1. Above(m, V, seed) \subseteq A \cup {seed}
      BY DEF Above
    <2>2. IsFiniteSet(A) /\ Cardinality(A) \in Nat
      BY <1>1
    <2>3. IsFiniteSet(A \cup {seed}) /\ Cardinality(A \cup {seed}) <= Cardinality(A) + 1
          /\ Cardinality(A \cup {seed}) \in Nat
      <3> HIDE DEF A
      <3>1. IsFiniteSet(A \cup {seed})
            /\ Cardinality(A \cup {seed}) = IF seed \in A THEN Cardinality(A) ELSE Cardinality(A) + 1
        BY <2>2, FS_AddElement
      <3>2. Cardinality(A \cup {seed}) \in Nat
        BY <3>1, FS_CardinalityType
      <3> QED BY <2>2, <3>1, <3>2
    <2>4. Cardinality(Above(m, V, seed)) <= Cardinality(A \cup {seed})
      BY <2>1, <2>3, FS_Subset
    <2>5. Cardinality(Above(m, V, seed)) <= n /\ Cardinality(Above(m, V, seed)) < n + 1
      <3>1. Cardinality(Above(m, V, seed)) \in Nat
        BY <1>1
      <3> HIDE DEF A
      <3>2. Cardinality(A) < n
        BY <1>4 DEF A
      <3> QED BY <2>2, <2>3, <2>4, <3>1, <3>2
    <2> QED BY <2>5 DEF Foremost, Above
  <1>5. \A k, S : Foremost(k, S, seed) = {m \in S : Cardinality(Above(m, S, seed)) < k}
    BY DEF Foremost, Above
  <1> HIDE DEF F
  <1>6. Foremost(n, F \ {seed}, seed) \subseteq Foremost(n, V \ {seed}, seed)
    <2> SUFFICES ASSUME NEW m \in F \ {seed}, Cardinality(Above(m, F \ {seed}, seed)) < n
                 PROVE  m \in V \ {seed} /\ Cardinality(Above(m, V \ {seed}, seed)) < n
      BY <1>5
    <2>1. m \in V /\ Cardinality(Above(m, V, seed)) <= n
      BY <1>3
    <2>2. Above(m, F \ {seed}, seed) = Above(m, V \ {seed}, seed)
      BY <1>2, <2>1
    <2> QED BY <2>1, <2>2
  <1>7. Foremost(n, V \ {seed}, seed) \subseteq Foremost(n, F \ {seed}, seed)
    <2> SUFFICES ASSUME NEW m \in V \ {seed}, Cardinality(Above(m, V \ {seed}, seed)) < n
                 PROVE  m \in F \ {seed} /\ Cardinality(Above(m, F \ {seed}, seed)) < n
      BY <1>5
    <2>1. m \in F /\ Cardinality(Above(m, V, seed)) <= n
      BY <1>4
    <2>2. Above(m, F \ {seed}, seed) = Above(m, V \ {seed}, seed)
      BY <1>2, <2>1
    <2> QED BY <2>1, <2>2
  <1> QED BY <1>6, <1>7 DEF F

\* The calls that are under way or answered.
AskCalls == [at : {"vector", "search", "hydrate", "answered"}, q : Asks, retired : BOOLEAN,
             page : SUBSET Kin, hits : SUBSET Kin, calm : BOOLEAN]
VisibleKin == {m \in Kin : Seen(m)}

\* While nothing changes, lags or fails, points are the visible memories, and
\* what a call holds is what it asked for of them.
AskOK(a) ==
    a.calm => /\ \A m \in Kin : kinPoint[m] <=> Seen(m)
              /\ a.at = "hydrate" /\ Seen(a.q.seed) =>
                    a.page = Foremost(a.q.limit, VisibleKin \ {a.q.seed}, a.q.seed)
              /\ a.at = "answered" /\ Seen(a.q.seed) =>
                    a.hits = {m \in Foremost(a.q.limit, VisibleKin \ {a.q.seed}, a.q.seed) :
                                 Nearness[a.q.seed][m] >= a.q.floor}

\* Rows, points and calls have their types, and calls hold what they say.
RelatedInv ==
    /\ kinRow \in [Kin -> {"active", "retired", "gone"}] /\ kinPoint \in [Kin -> BOOLEAN]
    /\ asking \in [Askers -> AskCalls \cup {NoAsk}]
    /\ \A c \in Askers : asking[c].at # "idle" => AskOK(asking[c])

(* What a call is made of.                                                  *)
LEMMA AskFacts ==
    ASSUME NEW a \in AskCalls \cup {NoAsk}
    PROVE  /\ a.at # "idle" <=> a \in AskCalls
           /\ a \in AskCalls => /\ a.q \in Asks /\ a.q.seed \in Kin /\ a.q.limit \in Nat
                                /\ a.retired \in BOOLEAN /\ a.calm \in BOOLEAN
                                /\ a.page \subseteq Kin /\ a.hits \subseteq Kin
  <1>1. a \in AskCalls => a.at \in {"vector", "search", "hydrate", "answered"} /\ a.q \in Asks
    BY DEF AskCalls
  <1>2. \A q \in Asks : q.seed \in Kin /\ q.limit \in Nat
    BY AsksAssumption
  <1>3. NoAsk.at = "idle"
    BY DEF NoAsk
  <1> QED BY <1>1, <1>2, <1>3 DEF AskCalls

(* A pass ends in an answer or in another pass.                             *)
LEMMA PassEndsIn ==
    ASSUME NEW a \in AskCalls, NEW h \in SUBSET Kin
    PROVE  /\ PassEnds(a, h) \in AskCalls /\ PassEnds(a, h).q = a.q
           /\ PassEnds(a, h).calm = a.calm
           /\ \/ PassEnds(a, h).at = "vector"
              \/ PassEnds(a, h).at = "answered" /\ PassEnds(a, h).hits = h
  BY DEF PassEnds, AskCalls

(* A step of one call changes no row and no point.                          *)
LEMMA OneCallMoves ==
    ASSUME RelatedInv, NEW c \in Askers, NEW a \in AskCalls, asking' = [asking EXCEPT ![c] = a],
           UNCHANGED <<kinRow, kinPoint>>, AskOK(a)
    PROVE  RelatedInv'
  <1>1. asking' \in [Askers -> AskCalls \cup {NoAsk}]
    BY DEF RelatedInv
  <1>2. \A x : AskOK(x)' <=> AskOK(x)
    BY DEF AskOK, VisibleKin, Seen
  <1>3. \A d \in Askers : asking'[d].at # "idle" => AskOK(asking'[d])
    BY DEF RelatedInv
  <1>4. ASSUME NEW d \in Askers PROVE (asking[d].at # "idle" => AskOK(asking[d]))'
    BY <1>2, <1>3
  <1> QED BY <1>1, <1>4 DEF RelatedInv

(* Others end what calls promised.                                          *)
LEMMA ForgottenIsOK ==
    ASSUME RelatedInv, asking' = Forgotten
    PROVE  /\ asking' \in [Askers -> AskCalls \cup {NoAsk}]
           /\ \A c \in Askers : asking'[c].at # "idle" => ~asking'[c].calm
  <1>1. \A c \in Askers : asking[c] \in AskCalls \/ asking[c].at = "idle"
    BY AskFacts DEF RelatedInv
  <1>2. \A c \in Askers : asking'[c] = IF asking[c].at \in {"idle", "answered"} THEN NoAsk
                                       ELSE [asking[c] EXCEPT !.calm = FALSE]
    BY DEF Forgotten
  <1>3. \A a \in AskCalls : [a EXCEPT !.calm = FALSE] \in AskCalls
                            /\ ~[a EXCEPT !.calm = FALSE].calm
    BY DEF AskCalls
  <1>4. ASSUME NEW c \in Askers
        PROVE  asking'[c] \in AskCalls \cup {NoAsk} /\ (asking'[c].at # "idle" => ~asking'[c].calm)
    <2>1. CASE asking[c].at \in {"idle", "answered"}
      <3>1. asking'[c] = NoAsk
        BY <1>2, <2>1
      <3> QED BY <3>1 DEF NoAsk
    <2>2. CASE asking[c].at \notin {"idle", "answered"}
      <3>1. asking[c] \in AskCalls
        BY <1>1, <2>2
      <3> QED BY <1>2, <1>3, <2>2, <3>1
    <2> QED BY <2>1, <2>2
  <1> QED BY <1>4 DEF Forgotten

(* Every step of a call, and every change under it, keeps the invariant.    *)
LEMMA RelatedInvNext == RelatedInv /\ [RelatedNext]_relatedVars => RelatedInv'
  <1> SUFFICES ASSUME RelatedInv, [RelatedNext]_relatedVars PROVE RelatedInv'
    OBVIOUS
  <1>0. \A c \in Askers : asking[c] \in AskCalls \cup {NoAsk}
    BY DEF RelatedInv
  <1>1. ASSUME NEW c \in Askers, NEW q \in Asks, AskRelated(c, q) PROVE RelatedInv'
    <2> DEFINE a == [at |-> "vector", q |-> q, retired |-> FALSE, page |-> {}, hits |-> {},
                     calm |-> \A m \in Kin : kinPoint[m] <=> Seen(m)]
    <2>1. a \in AskCalls
      BY DEF AskCalls
    <2>2. AskOK(a)
      BY DEF AskOK
    <2>3. asking' = [asking EXCEPT ![c] = a] /\ UNCHANGED <<kinRow, kinPoint>>
      BY <1>1 DEF AskRelated
    <2> HIDE DEF a
    <2> QED BY <2>1, <2>2, <2>3, OneCallMoves
  <1>2. ASSUME NEW c \in Askers, StoreAway(c) PROVE RelatedInv'
    <2> DEFINE b == [asking[c] EXCEPT !.calm = FALSE]
               a == PassEnds(b, {})
    <2>1. asking[c] \in AskCalls
      BY <1>0, <1>2, AskFacts DEF StoreAway
    <2>2. b \in AskCalls /\ ~b.calm
      BY <2>1 DEF AskCalls
    <2>3. asking' = [asking EXCEPT ![c] = a] /\ UNCHANGED <<kinRow, kinPoint>>
      BY <1>2 DEF StoreAway
    <2> HIDE DEF b
    <2>4. a \in AskCalls /\ ~a.calm
      BY <2>2, PassEndsIn
    <2> HIDE DEF a
    <2>5. AskOK(a)
      BY <2>4 DEF AskOK
    <2> QED BY <2>3, <2>4, <2>5, OneCallMoves
  <1>3. ASSUME NEW c \in Askers, FetchVector(c) PROVE RelatedInv'
    <2> DEFINE b == [asking[c] EXCEPT !.at = "search"]
               e == PassEnds(asking[c], {})
               a == IF kinPoint[asking[c].q.seed] THEN b ELSE e
    <2>1. asking[c] \in AskCalls /\ AskOK(asking[c])
      BY <1>0, <1>3, AskFacts DEF FetchVector, RelatedInv
    <2>2. b \in AskCalls /\ b.calm = asking[c].calm /\ b.at = "search"
      BY <2>1 DEF AskCalls
    <2>3. asking' = [asking EXCEPT ![c] = a] /\ UNCHANGED <<kinRow, kinPoint>>
      BY <1>3 DEF FetchVector
    <2>4. e \in AskCalls /\ e.calm = asking[c].calm /\ e.q = asking[c].q
          /\ (e.at = "vector" \/ e.at = "answered")
      BY <2>1, PassEndsIn
    <2>5. asking[c].q.seed \in Kin
      BY <2>1, AskFacts
    <2> HIDE DEF b, e
    <2>6. a \in AskCalls
      BY <2>2, <2>4
    <2>7. AskOK(a)
      <3>1. CASE kinPoint[asking[c].q.seed]
        BY <2>1, <2>2, <3>1 DEF AskOK
      <3>2. CASE ~kinPoint[asking[c].q.seed]
        BY <2>1, <2>4, <2>5, <3>2 DEF AskOK
      <3> QED BY <3>1, <3>2
    <2> HIDE DEF a
    <2> QED BY <2>3, <2>6, <2>7, OneCallMoves
  <1>4. ASSUME NEW c \in Askers, SearchNearest(c) PROVE RelatedInv'
    <2> DEFINE s == asking[c].q.seed
               n == asking[c].q.limit
               V == {m \in Kin : kinPoint[m]}
               page == Foremost(n, Foremost(n + 1, V, s) \ {s}, s)
               a == [asking[c] EXCEPT !.at = "hydrate", !.page = page]
    <2>1. asking[c] \in AskCalls /\ AskOK(asking[c])
      BY <1>0, <1>4, AskFacts DEF SearchNearest, RelatedInv
    <2>2. s \in Kin /\ n \in Nat
      BY <2>1, AskFacts
    <2>3. page = Foremost(n, V \ {s}, s) /\ page \subseteq Kin
      <3>1. V \subseteq Kin
        OBVIOUS
      <3>2. Foremost(n, V \ {s}, s) \subseteq Kin
        BY <3>1 DEF Foremost
      <3> QED BY <2>2, <3>1, <3>2, SeedTakesOnePlace
    <2>4. asking' = [asking EXCEPT ![c] = a] /\ UNCHANGED <<kinRow, kinPoint>>
      BY <1>4, <2>1 DEF SearchNearest, PointsAskedFor, AskCalls
    <2>5. a \in AskCalls /\ a.at = "hydrate" /\ a.page = page /\ a.calm = asking[c].calm
          /\ a.q = asking[c].q
      <3> HIDE DEF page
      <3> QED BY <2>1, <2>3 DEF AskCalls
    <2> HIDE DEF page
    <2>6. AskOK(a)
      <3>1. asking[c].calm => V = VisibleKin
        BY <2>1 DEF AskOK, VisibleKin
      <3> HIDE DEF V, a
      <3> QED BY <2>1, <2>3, <2>5, <3>1 DEF AskOK
    <2> HIDE DEF a
    <2> QED BY <2>4, <2>5, <2>6, OneCallMoves
  <1>5. ASSUME NEW c \in Askers, HydrateRelated(c) PROVE RelatedInv'
    <2> DEFINE s == asking[c].q.seed
               h == {m \in Hydrated(c) : Nearness[s][m] >= asking[c].q.floor}
               a == PassEnds(asking[c], h)
    <2>1. asking[c] \in AskCalls /\ AskOK(asking[c]) /\ asking[c].at = "hydrate"
      BY <1>0, <1>5, AskFacts DEF HydrateRelated, RelatedInv
    <2>2. h \subseteq Kin
      BY <2>1, AskFacts DEF Hydrated
    <2>3. asking' = [asking EXCEPT ![c] = a] /\ UNCHANGED <<kinRow, kinPoint>>
      BY <1>5 DEF HydrateRelated
    <2>4. asking[c].calm /\ Seen(s) =>
             h = {m \in Foremost(asking[c].q.limit, VisibleKin \ {s}, s) :
                     Nearness[s][m] >= asking[c].q.floor}
      <3> SUFFICES ASSUME asking[c].calm, Seen(s)
                   PROVE  h = {m \in Foremost(asking[c].q.limit, VisibleKin \ {s}, s) :
                                  Nearness[s][m] >= asking[c].q.floor}
        OBVIOUS
      <3>1. asking[c].page = Foremost(asking[c].q.limit, VisibleKin \ {s}, s)
        BY <2>1 DEF AskOK
      <3>2. \A m \in asking[c].page : Seen(m)
        BY <3>1 DEF Foremost, VisibleKin
      <3>3. Hydrated(c) = asking[c].page
        BY <3>2 DEF Hydrated
      <3> QED BY <3>1, <3>3
    <2> HIDE DEF h
    <2>5. /\ a \in AskCalls /\ a.q = asking[c].q /\ a.calm = asking[c].calm
          /\ a.at = "vector" \/ (a.at = "answered" /\ a.hits = h)
      BY <2>1, <2>2, PassEndsIn
    <2> HIDE DEF a
    <2>6. AskOK(a)
      BY <2>1, <2>4, <2>5 DEF AskOK
    <2> QED BY <2>3, <2>5, <2>6, OneCallMoves
  <1>6. ASSUME NEW m \in Kin, StirRow(m) \/ ProjectPoint(m) PROVE RelatedInv'
    <2>1. asking' = Forgotten
      BY <1>6 DEF StirRow, ProjectPoint
    <2>2. kinRow' \in [Kin -> {"active", "retired", "gone"}] /\ kinPoint' \in [Kin -> BOOLEAN]
      <3>1. Seen(m) \in BOOLEAN
        BY DEF Seen
      <3> QED BY <1>6, <3>1 DEF StirRow, ProjectPoint, RelatedInv
    <2>3. \A a : ~a.calm => AskOK(a)'
      BY DEF AskOK
    <2>4. ASSUME NEW c \in Askers PROVE (asking[c].at # "idle" => AskOK(asking[c]))'
      BY <2>1, <2>3, ForgottenIsOK
    <2> QED BY <2>1, <2>2, <2>4, ForgottenIsOK DEF RelatedInv
  <1>7. CASE UNCHANGED relatedVars
    <2>1. \A x : AskOK(x)' <=> AskOK(x)
      BY <1>7 DEF AskOK, VisibleKin, Seen, relatedVars
    <2> QED BY <1>7, <2>1 DEF RelatedInv, relatedVars
  <1> QED BY <1>1, <1>2, <1>3, <1>4, <1>5, <1>6, <1>7 DEF RelatedNext

(* memory_related: while the projection is up to date and the store        *)
(* answers, the hits are the nearest visible memories above the floor, as   *)
(* many as asked for and without the seed (graph.py).                       *)
THEOREM RelatedGivesNearest == RelatedSpec => []NeighboursAreNearest
  <1>1. RelatedInit => RelatedInv
    <2> SUFFICES ASSUME RelatedInit PROVE RelatedInv
      OBVIOUS
    <2> QED BY DEF RelatedInit, RelatedInv, NoAsk
  <1>2. RelatedInv => NeighboursAreNearest
    <2> SUFFICES ASSUME RelatedInv, NEW c \in Askers, asking[c].at = "answered",
                        asking[c].calm, Seen(asking[c].q.seed)
                 PROVE  asking[c].hits =
                   {m \in Foremost(asking[c].q.limit, {x \in Kin \ {asking[c].q.seed} : Seen(x)},
                                   asking[c].q.seed) :
                        Nearness[asking[c].q.seed][m] >= asking[c].q.floor}
      BY DEF NeighboursAreNearest
    <2>1. AskOK(asking[c])
      BY DEF RelatedInv
    <2>2. \A s : {x \in Kin \ {s} : Seen(x)} = VisibleKin \ {s}
      BY DEF VisibleKin
    <2> QED BY <2>1, <2>2 DEF AskOK
  <1> QED BY <1>1, <1>2, RelatedInvNext, PTL DEF RelatedSpec

-----------------------------------------------------------------------------
(* Lists: what a query keeps of them *)

\* f keeps the members of S of the first i elements of s.
Sieves(f, S, s) ==
    /\ f[0] = <<>>
    /\ \A i \in 1..Len(s) : f[i] = IF s[i] \in S THEN Append(f[i - 1], s[i]) ELSE f[i - 1]

(* What is kept of a sequence, element by element.                          *)
LEMMA AmongUnfolds ==
    ASSUME NEW S, NEW U, NEW s \in Seq(U)
    PROVE  \E f \in [0..Len(s) -> Seq(S \cap U)] :
              Sieves(f, S, s) /\ Among(S, s) = f[Len(s)]
  <1> DEFINE n == Len(s)
             D == Seq(S \cap U)
             step(i, x) == IF s[i] \in S THEN Append(x, s[i]) ELSE x
             g == [i \in 1..n |-> [x \in D |-> step(i, x)]]
             Filters(f) == f = [i \in 0..n |-> IF i = 0 THEN <<>> ELSE step(i, f[i - 1])]
             f == CHOOSE x : Filters(x)
  <1>1. n \in Nat /\ \A i \in 1..n : s[i] \in U
    OBVIOUS
  <1>2. ASSUME NEW i \in 1..n, NEW x \in D PROVE step(i, x) \in D
    BY <1>1
  <1>3. <<>> \in D
    OBVIOUS
  <1>4. \E h \in [0..n -> D] : Steps(h, n, <<>>, g)
    <2> HIDE DEF n, D, step
    <2>1. \A k \in 1..n : \A x \in D : g[k][x] \in D
      BY <1>2
    <2> HIDE DEF g
    <2> QED BY <1>1, <1>3, <2>1, StepsStay
  <1>5. Filters(f)
    <2>1. PICK h \in [0..n -> D] : Steps(h, n, <<>>, g)
      BY <1>4
    <2>2. ASSUME NEW k \in 0..n PROVE h[k] = IF k = 0 THEN <<>> ELSE step(k, h[k - 1])
      <3>1. h[k] = IF k = 0 THEN <<>> ELSE g[k][h[k - 1]]
        BY <2>1 DEF Steps
      <3>2. k # 0 => k \in 1..n /\ h[k - 1] \in D
        <4> HIDE DEF D, n
        <4> QED BY <1>1
      <3>3. k # 0 => g[k][h[k - 1]] = step(k, h[k - 1])
        BY <3>2
      <3> HIDE DEF g, step
      <3> QED BY <3>1, <3>3
    <2>3. h = [k \in 0..n |-> h[k]]
      OBVIOUS
    <2>4. Filters(h)
      <3> HIDE DEF step, D
      <3> QED BY <2>2, <2>3
    <2> HIDE DEF Filters
    <2> QED BY <2>4
  <1>6. Among(S, s) = f[n]
    BY DEF Among
  <1> DEFINE T == {k \in 0..n : f[k] \in D}
  <1>7. \A k \in 0..n : k \in T
    <2> HIDE DEF f, D, n, step
    <2>1. 0 \in T
      BY <1>1, <1>3, <1>5
    <2>2. \A k \in 1..n : k - 1 \in T => k \in T
      <3> SUFFICES ASSUME NEW k \in 1..n, k - 1 \in T PROVE k \in T
        OBVIOUS
      <3>1. f[k] = step(k, f[k - 1])
        BY <1>1, <1>5
      <3> QED BY <1>1, <1>2, <3>1
    <2> HIDE DEF T
    <2> QED BY <1>1, <2>1, <2>2, ByRounds
  <1>8. f \in [0..n -> D] /\ f[0] = <<>>
    <2> HIDE DEF f, D, n
    <2> QED BY <1>1, <1>5, <1>7
  <1>9. \A i \in 1..n : f[i] = step(i, f[i - 1])
    <2> HIDE DEF f, D, n, step
    <2> QED BY <1>1, <1>5
  <1>10. Sieves(f, S, s)
    <2> HIDE DEF f, D
    <2> QED BY <1>8, <1>9 DEF Sieves
  <1>11. f \in [0..Len(s) -> Seq(S \cap U)] /\ Among(S, s) = f[Len(s)]
    BY <1>6, <1>8
  <1> HIDE DEF f, n, D, step, g, Filters
  <1> QED BY <1>10, <1>11

(* What is kept of a sequence comes from it.                                *)
LEMMA AmongOnly ==
    ASSUME NEW S, NEW U, NEW s \in Seq(U)
    PROVE  Among(S, s) \in Seq(S \cap U)
  <1>1. PICK f \in [0..Len(s) -> Seq(S \cap U)] : Among(S, s) = f[Len(s)]
    BY AmongUnfolds
  <1>2. Len(s) \in 0..Len(s)
    OBVIOUS
  <1> QED BY <1>1, <1>2

(* All that fits is kept of a sequence.                                     *)
LEMMA AmongAll ==
    ASSUME NEW S, NEW U, NEW s \in Seq(U), NEW x \in S, Contains(s, x)
    PROVE  Contains(Among(S, s), x)
  <1>1. PICK f \in [0..Len(s) -> Seq(S \cap U)] :
           Sieves(f, S, s) /\ Among(S, s) = f[Len(s)]
    BY AmongUnfolds
  <1>2. PICK n : n = Len(s) /\ n \in Nat
    OBVIOUS
  <1>3. PICK i \in 1..n : s[i] = x
    BY <1>2 DEF Contains
  <1> DEFINE T == {k \in 0..n : k >= i => Contains(f[k], x)}
  <1>4. 0 \in T
    BY <1>2
  <1>5. ASSUME NEW k \in 1..n, k - 1 \in T PROVE k \in T
    <2>0. k - 1 \in 0..n /\ k \in 1..Len(s) /\ f \in [0..n -> Seq(S \cap U)]
      BY <1>2
    <2>1. f[k - 1] \in Seq(S \cap U) /\ s[k] \in U
      <3>1. f[k - 1] \in Seq(S \cap U)
        BY <2>0
      <3>2. s[k] \in U
        BY <2>0
      <3> QED BY <3>1, <3>2
    <2>2. PICK t : t = f[k - 1] /\ t \in Seq(S \cap U)
      BY <2>1
    <2>3. f[k] = IF s[k] \in S THEN Append(t, s[k]) ELSE t
      BY <1>1, <1>2, <2>2 DEF Sieves
    <2>4. ASSUME k = i PROVE Contains(f[k], x)
      <3>1. f[k] = Append(t, x)
        BY <1>3, <2>3, <2>4
      <3>2. x \in S \cap U
        BY <1>3, <2>1, <2>4
      <3>3. Len(t) + 1 \in 1..Len(Append(t, x)) /\ Append(t, x)[Len(t) + 1] = x
        BY <2>2, <3>2
      <3> QED BY <3>1, <3>3 DEF Contains
    <2>5. ASSUME k # i, k >= i PROVE Contains(f[k], x)
      <3>1. PICK j \in 1..Len(t) : t[j] = x
        <4>1. k - 1 >= i
          BY <2>5
        <4> QED BY <1>5, <2>2, <4>1 DEF Contains
      <3>2. s[k] \in S =>
              j \in 1..Len(Append(t, s[k])) /\ Append(t, s[k])[j] = x
        BY <2>1, <2>2, <3>1
      <3>3. CASE s[k] \in S
        BY <2>3, <3>2, <3>3 DEF Contains
      <3>4. CASE s[k] \notin S
        BY <2>3, <3>1, <3>4 DEF Contains
      <3> QED BY <3>3, <3>4
    <2> QED BY <2>4, <2>5
  <1> HIDE DEF T
  <1>6. n \in T
    <2>1. \A k \in 0..n : k \in T
      BY <1>2, <1>4, <1>5, ByRounds
    <2> QED BY <1>2, <2>1
  <1> QED BY <1>1, <1>2, <1>3, <1>6 DEF T

(* A list that did not fill its limit was not cut.                          *)
LEMMA FirstIsAll ==
    ASSUME NEW U, NEW s \in Seq(U), NEW k \in Nat, Len(First(k, s)) # k
    PROVE  First(k, s) = s
  <1>1. CASE Len(s) < k
    <2>1. First(k, s) = SubSeq(s, 1, Len(s))
      BY <1>1 DEF First
    <2> QED BY <2>1
  <1>2. CASE ~(Len(s) < k)
    <2>1. First(k, s) = SubSeq(s, 1, k)
      BY <1>2 DEF First
    <2>2. Len(SubSeq(s, 1, k)) = k
      BY <1>2
    <2> QED BY <2>1, <2>2
  <1> QED BY <1>1, <1>2

(* The first of a sequence.                                                 *)
LEMMA FirstOnly ==
    ASSUME NEW U, NEW s \in Seq(U), NEW k \in Int
    PROVE  First(k, s) \in Seq(U) /\ (k \in Nat => Len(First(k, s)) <= k)
  BY DEF First

(* What is in a sequence over a set is in the set.                          *)
LEMMA MembersAreIn ==
    ASSUME NEW U, NEW s \in Seq(U)
    PROVE  ToSet(s) \subseteq U /\ Reverse(s) \in Seq(U) /\ \A T : s \in Seq(T) <=> ToSet(s) \subseteq T
  <1>1. \A i \in 1..Len(s) : s[i] \in U /\ (Len(s) - i) + 1 \in 1..Len(s)
    OBVIOUS
  <1>2. ToSet(s) \subseteq U
    BY DEF ToSet
  <1>3. Reverse(s) \in Seq(U)
    BY <1>1 DEF Reverse
  <1>4. ASSUME NEW T, ToSet(s) \subseteq T PROVE s \in Seq(T)
    BY <1>4 DEF ToSet
  <1>5. ASSUME NEW T, s \in Seq(T) PROVE ToSet(s) \subseteq T
    BY <1>5 DEF ToSet
  <1> QED BY <1>2, <1>3, <1>4, <1>5

-----------------------------------------------------------------------------
(* mem_context_pack: what the recursions say *)

\* What a section may hold: memories and tasks.
Packable == Notes \cup ToSet(ReadyTasks)

(* A bounded set of numbers has a greatest one.                             *)
LEMMA Greatest ==
    ASSUME NEW b \in Nat, NEW S, S \subseteq 0..b, S # {}
    PROVE  \E m \in S : \A k \in S : m >= k
  <1> DEFINE R == {b - x : x \in S}
  <1>0. \A x \in 0..b : x \in Int /\ b - x \in Nat
    OBVIOUS
  <1>1. R \subseteq Nat /\ R # {}
    BY <1>0
  <1>2. PICK r \in R : \A k \in R : r <= k
    BY <1>1, Smallest
  <1>3. PICK m \in S : r = b - m
    BY <1>2
  <1>4. ASSUME NEW k \in S PROVE m >= k
    <2>1. r <= b - k
      BY <1>2
    <2>2. m \in 0..b /\ k \in 0..b
      BY <1>3, <1>4
    <2>3. m \in Int /\ k \in Int /\ b \in Int
      BY <2>2
    <2> HIDE DEF R
    <2> QED BY <1>3, <2>1, <2>3
  <1> QED BY <1>4

(* The words that fit are a number of words.                                *)
LEMMA TruncatedType ==
    ASSUME NEW words \in Nat, NEW cap \in Int
    PROVE  Truncated(words, cap) \in Nat
  <1>1. CASE cap <= 0 \/ Tokens(words) <= cap
    BY <1>1 DEF Truncated
  <1>2. CASE ~(cap <= 0 \/ Tokens(words) <= cap)
    <2> DEFINE b == (3 * cap) \div 4
               S == {k \in 0..b : Tokens(k) <= cap}
    <2>1. cap \in Nat /\ cap > 0 /\ b \in Nat
      BY <1>2
    <2>2. 0 \in S
      <3>1. (4 * 0 + 2) \div 3 = 0
        OBVIOUS
      <3> QED BY <2>1, <3>1 DEF Tokens
    <2>3. \E m \in S : \A k \in S : m >= k
      <3> HIDE DEF b
      <3> QED BY <2>1, <2>2, Greatest
    <2>4. Max(S) \in S
      <3> HIDE DEF S
      <3> QED BY <2>3 DEF Max
    <2>5. Truncated(words, cap) = Max(S)
      BY <1>2 DEF Truncated
    <2> QED BY <2>1, <2>4, <2>5
  <1> QED BY <1>1, <1>2

(* A hit that fits takes no more than its cap.                              *)
LEMMA HitFits ==
    ASSUME NEW name, NEW m \in Packable, NEW cap \in Int
    PROVE  /\ HitTokens(name, m, cap) \in Int
           /\ HitTokens(name, m, cap) >= 0 => HitTokens(name, m, cap) <= cap
  <1> DEFINE title == Tokens(TitleWords[m])
             cut == Truncated(Body(name, m, cap), cap - title)
             used == title + Tokens(cut)
  <1>1. \A n \in Nat : Tokens(n) \in Nat
    BY DEF Tokens
  <1>2. title \in Nat
    BY <1>1, TextAssumption DEF Packable
  <1>3. Body(name, m, cap) \in Nat
    BY TextAssumption DEF Body
  <1>4. cut \in Nat
    <2> HIDE DEF title
    <2>1. cap - title \in Int
      BY <1>2
    <2> QED BY <1>3, <2>1, TruncatedType
  <1>5. used \in Int
    <2> HIDE DEF title, cut
    <2> QED BY <1>1, <1>2, <1>4
  <1>6. HitTokens(name, m, cap) = IF (cap <= title /\ Body(name, m, cap) > 0) \/ used > cap THEN -1 ELSE used
    BY DEF HitTokens
  <1> HIDE DEF used, title, cut
  <1> QED BY <1>5, <1>6

\* What a section of the candidates ids holds, packed under a cap beside seen.
PackedWell(acc, ids, cap, seen) ==
    /\ acc.items \in Seq(ToSet(ids)) /\ IsInjective(acc.items)
    /\ acc.used \in Int /\ acc.used <= cap
    /\ acc.seen = seen \cup ToSet(acc.items) /\ seen \cap ToSet(acc.items) = {}

(* What one more element does to a sequence that repeats nothing.            *)
LEMMA OneMoreFits ==
    ASSUME NEW name, NEW ids \in Seq(Packable), NEW cap \in Nat,
           NEW seen \in SUBSET Packable,
           NEW acc \in [seen : SUBSET Packable, items : Seq(Packable), used : Int],
           PackedWell(acc, ids, cap, seen), NEW m \in ToSet(ids)
    PROVE  /\ PackOne(name, cap, acc, m) \in [seen : SUBSET Packable, items : Seq(Packable), used : Int]
           /\ PackedWell(PackOne(name, cap, acc, m), ids, cap, seen)
  <1>0. m \in Packable
    BY MembersAreIn
  <1> DEFINE t == HitTokens(name, m, cap - acc.used)
  <1>1. CASE m \in acc.seen \/ acc.used >= cap \/ t < 0
    BY <1>1 DEF PackOne
  <1>2. CASE ~(m \in acc.seen \/ acc.used >= cap \/ t < 0)
    <2> DEFINE new == [seen |-> acc.seen \cup {m}, items |-> Append(acc.items, m),
                       used |-> acc.used + t]
    <2>1. PackOne(name, cap, acc, m) = new
      BY <1>2 DEF PackOne
    <2>2. acc.used \in Int /\ cap - acc.used \in Int
      OBVIOUS
    <2>3. t \in Int /\ t <= cap - acc.used
      <3>1. /\ HitTokens(name, m, cap - acc.used) \in Int
            /\ HitTokens(name, m, cap - acc.used) >= 0 => HitTokens(name, m, cap - acc.used) <= cap - acc.used
        BY <1>0, <2>2, HitFits
      <3> QED BY <1>2, <3>1
    <2>4. acc.used + t \in Int /\ acc.used + t <= cap
      <3> HIDE DEF t
      <3> QED BY <2>2, <2>3
    <2>5. acc.items \in Seq(ToSet(ids)) /\ acc.items \in Seq(Packable) /\ m \notin ToSet(acc.items)
          /\ IsInjective(acc.items) /\ acc.seen = seen \cup ToSet(acc.items)
          /\ seen \cap ToSet(acc.items) = {}
      BY <1>2 DEF PackedWell
    <2>6. /\ Append(acc.items, m) \in Seq(ToSet(ids)) /\ Append(acc.items, m) \in Seq(Packable)
          /\ ToSet(Append(acc.items, m)) = ToSet(acc.items) \cup {m}
      BY <1>0, <2>5, Appended
    <2>7. IsInjective(Append(acc.items, m))
      <3> DEFINE s == acc.items
      <3>1. s \in Seq(Packable) /\ IsInjective(s) /\ \A i \in 1..Len(s) : s[i] # m
        BY <2>5 DEF ToSet
      <3> HIDE DEF s
      <3>2. /\ DOMAIN s = 1..Len(s) /\ Len(s) \in Nat
            /\ DOMAIN Append(s, m) = 1..(Len(s) + 1)
            /\ Append(s, m)[Len(s) + 1] = m /\ \A i \in 1..Len(s) : Append(s, m)[i] = s[i]
        BY <1>0, <3>1
      <3>3. \A i \in 1..(Len(s) + 1) : i = Len(s) + 1 \/ i \in 1..Len(s)
        BY <3>2
      <3>4. IsInjective(Append(s, m))
        BY <3>1, <3>2, <3>3 DEF IsInjective
      <3> QED BY <3>4 DEF s
    <2> HIDE DEF t
    <2>8. new \in [seen : SUBSET Packable, items : Seq(Packable), used : Int]
      BY <1>0, <2>4, <2>6
    <2>9. PackedWell(new, ids, cap, seen)
      <3>1. m \notin seen
        BY <1>2, <2>5
      <3> QED BY <2>4, <2>5, <2>6, <2>7, <3>1 DEF PackedWell
    <2> QED BY <2>1, <2>8, <2>9
  <1> QED BY <1>1, <1>2

(* A section is packed within its cap, of its candidates, and beside what    *)
(* the sections before it hold.                                             *)
LEMMA SectionFits ==
    ASSUME NEW name, NEW ids \in Seq(Packable), NEW cap \in Nat,
           NEW seen \in SUBSET Packable
    PROVE  LET s == PackSection(name, ids, cap, seen)
           IN  /\ s.cap = cap /\ s.used \in Int /\ s.used <= cap
               /\ s.items \in Seq(ToSet(ids)) /\ IsInjective(s.items)
               /\ seen \cap ToSet(s.items) = {}
  <1> DEFINE n == Len(ids)
             A == [seen : SUBSET Packable, items : Seq(Packable), used : Int]
             D == {acc \in A : PackedWell(acc, ids, cap, seen)}
             base == NothingPacked(seen)
             step(i, x) == PackOne(name, cap, x, ids[i])
             g == [i \in 1..n |-> [x \in D |-> step(i, x)]]
             Holds(f) == f = [i \in 0..n |-> IF i = 0 THEN base ELSE step(i, f[i - 1])]
             f == CHOOSE x : Holds(x)
  <1>1. n \in Nat /\ \A i \in 1..n : ids[i] \in ToSet(ids)
    BY DEF ToSet
  <1>2. ASSUME NEW i \in 1..n, NEW x \in D PROVE step(i, x) \in D
    <2>1. x \in A /\ PackedWell(x, ids, cap, seen) /\ ids[i] \in ToSet(ids)
      BY <1>1
    <2> QED BY <2>1, OneMoreFits
  <1>3. base \in D
    <2>1. <<>> \in Seq(ToSet(ids)) /\ <<>> \in Seq(Packable) /\ ToSet(<<>>) = {} /\ IsInjective(<<>>)
      BY DEF ToSet, IsInjective
    <2>2. base.seen = seen /\ base.items = <<>> /\ base.used = 0 /\ base \in A
      BY <2>1 DEF NothingPacked
    <2>3. seen \cup ToSet(<<>>) = seen /\ seen \cap ToSet(<<>>) = {} /\ 0 <= cap /\ 0 \in Int
      BY <2>1
    <2> HIDE DEF base
    <2>4. PackedWell(base, ids, cap, seen)
      BY <2>1, <2>2, <2>3 DEF PackedWell
    <2> QED BY <2>2, <2>4
  <1>4. \E h \in [0..n -> D] : Steps(h, n, base, g)
    <2> HIDE DEF n, D, step, base
    <2>1. \A k \in 1..n : \A x \in D : g[k][x] \in D
      BY <1>2
    <2> HIDE DEF g
    <2> QED BY <1>1, <1>3, <2>1, StepsStay
  <1>5. Holds(f)
    <2>1. PICK h \in [0..n -> D] : Steps(h, n, base, g)
      BY <1>4
    <2>2. ASSUME NEW k \in 0..n PROVE h[k] = IF k = 0 THEN base ELSE step(k, h[k - 1])
      <3> HIDE DEF base
      <3>1. h[k] = IF k = 0 THEN base ELSE g[k][h[k - 1]]
        BY <2>1 DEF Steps
      <3>2. k # 0 => k \in 1..n /\ h[k - 1] \in D
        <4> HIDE DEF D, n
        <4> QED BY <1>1
      <3>3. k # 0 => g[k][h[k - 1]] = step(k, h[k - 1])
        <4> HIDE DEF D, step
        <4> QED BY <3>2
      <3> HIDE DEF g, step
      <3> QED BY <3>1, <3>3
    <2>3. h = [k \in 0..n |-> h[k]]
      OBVIOUS
    <2>4. Holds(h)
      <3> HIDE DEF step, D, base
      <3> QED BY <2>2, <2>3
    <2> HIDE DEF Holds
    <2> QED BY <2>4
  <1>6. PackSection(name, ids, cap, seen) = [cap |-> cap, items |-> f[n].items, used |-> f[n].used]
    BY DEF PackSection
  <1> DEFINE T == {k \in 0..n : f[k] \in D}
  <1>7. n \in T
    <2> HIDE DEF f, D, n, step, base
    <2>1. 0 \in T
      BY <1>1, <1>3, <1>5
    <2>2. \A k \in 1..n : k - 1 \in T => k \in T
      <3> SUFFICES ASSUME NEW k \in 1..n, k - 1 \in T PROVE k \in T
        OBVIOUS
      <3>1. f[k] = step(k, f[k - 1])
        BY <1>1, <1>5
      <3> QED BY <1>1, <1>2, <3>1
    <2> HIDE DEF T
    <2>3. \A k \in 0..n : k \in T
      BY <1>1, <2>1, <2>2, ByRounds
    <2> QED BY <1>1, <2>3
  <1>8. PackedWell(f[n], ids, cap, seen)
    BY <1>7
  <1> HIDE DEF f, n
  <1> QED BY <1>6, <1>8 DEF PackedWell

----------------------------------------------------------------------------
(* The caps *)

\* Is x in R?
Counted(R, x) == IF x \in R THEN 1 ELSE 0

(* One element more, counted or not.                                        *)
LEMMA CountsOneMore ==
    ASSUME NEW S, IsFiniteSet(S), NEW x, x \notin S, NEW R
    PROVE  /\ IsFiniteSet(S \cup {x})
           /\ Cardinality(R \cap (S \cup {x})) = Cardinality(R \cap S) + Counted(R, x)
           /\ Cardinality(R \cap S) \in Nat
  <1>1. IsFiniteSet(R \cap S) /\ IsFiniteSet(S \cup {x})
    BY FS_Subset, FS_AddElement
  <1>2. Cardinality(R \cap S) \in Nat
    BY <1>1, FS_CardinalityType
  <1>3. CASE x \in R
    <2>1. R \cap (S \cup {x}) = (R \cap S) \cup {x} /\ x \notin R \cap S
      BY <1>3
    <2> QED BY <1>1, <1>2, <1>3, <2>1, FS_AddElement DEF Counted
  <1>4. CASE x \notin R
    <2>1. R \cap (S \cup {x}) = R \cap S /\ Counted(R, x) = 0
      BY <1>4 DEF Counted
    <2>2. \A c \in Nat : c = c + 0
      OBVIOUS
    <2>3. Cardinality(R \cap (S \cup {x})) = Cardinality(R \cap S) + Counted(R, x)
      BY <1>2, <2>1, <2>2
    <2> QED BY <1>1, <1>2, <2>3
  <1> QED BY <1>1, <1>2, <1>3, <1>4

(* The sections are seven.                                                  *)
LEMMA SectionsAre ==
    /\ Sections = {"digest", "trigger_matched", "recent_journal", "tasks", "decisions",
                   "playbooks", "archival"}
    /\ \A n \in Sections : Place(n) \in 1..7 /\ Order[Place(n)] = n
    /\ Len(Order) = 7 /\ \A i \in 1..7 : Order[i] \in Sections /\ Place(Order[i]) = i
    /\ IsFiniteSet(Sections)
  <1>1. DOMAIN Order = 1..7 /\ Len(Order) = 7
    BY DEF Order
  <1>2. /\ Order[1] = "digest" /\ Order[2] = "trigger_matched" /\ Order[3] = "recent_journal"
        /\ Order[4] = "tasks" /\ Order[5] = "decisions" /\ Order[6] = "playbooks"
        /\ Order[7] = "archival"
    BY DEF Order
  <1>3. \A i \in 1..7 : i = 1 \/ i = 2 \/ i = 3 \/ i = 4 \/ i = 5 \/ i = 6 \/ i = 7
    OBVIOUS
  <1>4. Sections = {Order[i] : i \in 1..7}
    BY <1>1 DEF Sections, ToSet
  <1>5. Sections = {"digest", "trigger_matched", "recent_journal", "tasks", "decisions",
                    "playbooks", "archival"}
    <2> HIDE DEF Order
    <2> QED BY <1>2, <1>3, <1>4
  <1>6. ASSUME NEW n \in Sections PROVE Place(n) \in 1..7 /\ Order[Place(n)] = n
    <2>1. \E i \in DOMAIN Order : Order[i] = n
      BY <1>1, <1>4
    <2> QED BY <1>1, <2>1 DEF Place
  <1>7. IsFiniteSet(Sections)
    <2>1. IsFiniteSet({"digest"} \cup {"trigger_matched"} \cup {"recent_journal"} \cup {"tasks"}
                         \cup {"decisions"} \cup {"playbooks"} \cup {"archival"})
      BY FS_Singleton, FS_Union
    <2>2. Sections = {"digest"} \cup {"trigger_matched"} \cup {"recent_journal"} \cup {"tasks"}
                         \cup {"decisions"} \cup {"playbooks"} \cup {"archival"}
      BY <1>5
    <2> QED BY <2>1, <2>2
  <1>8. \A i, j \in 1..7 : Order[i] = Order[j] => i = j
    <2> HIDE DEF Order
    <2> QED BY <1>2, <1>3
  <1>9. \A i \in 1..7 : Order[i] \in Sections /\ Place(Order[i]) = i
    BY <1>4, <1>6, <1>8
  <1> QED BY <1>1, <1>5, <1>6, <1>7, <1>9

(* Counting the sections of a set one by one.                               *)
LEMMA CountedOverSections ==
    ASSUME NEW R, R \subseteq Sections
    PROVE  /\ IsFiniteSet(R)
           /\ Cardinality(R) = Total([n \in Sections |-> Counted(R, n)])
  <1> DEFINE S1 == {"digest"}
             S2 == S1 \cup {"trigger_matched"}
             S3 == S2 \cup {"recent_journal"}
             S4 == S3 \cup {"tasks"}
             S5 == S4 \cup {"decisions"}
             S6 == S5 \cup {"playbooks"}
             S7 == S6 \cup {"archival"}
             C(S) == Cardinality(R \cap S)
  <1>1. IsFiniteSet({}) /\ R \cap {} = {} /\ Cardinality({}) = 0
    BY FS_EmptySet
  <1>2. {} \cup {"digest"} = S1
    OBVIOUS
  <1>3. IsFiniteSet(S1) /\ C(S1) = Counted(R, "digest")
    <2>1. /\ IsFiniteSet({} \cup {"digest"})
          /\ Cardinality(R \cap ({} \cup {"digest"})) = Cardinality(R \cap {}) + Counted(R, "digest")
      BY <1>1, CountsOneMore
    <2>2. Counted(R, "digest") \in Nat
      BY DEF Counted
    <2> QED BY <1>1, <1>2, <2>1, <2>2
  <1>4. IsFiniteSet(S2) /\ C(S2) = C(S1) + Counted(R, "trigger_matched")
    <2>1. "trigger_matched" \notin S1 /\ S2 = S1 \cup {"trigger_matched"}
      OBVIOUS
    <2> HIDE DEF S1, S2
    <2>2. IsFiniteSet(S1)
      BY <1>3
    <2> QED BY <2>1, <2>2, CountsOneMore
  <1>5. IsFiniteSet(S3) /\ C(S3) = C(S2) + Counted(R, "recent_journal")
    <2>1. "recent_journal" \notin S2 /\ S3 = S2 \cup {"recent_journal"}
      OBVIOUS
    <2> HIDE DEF S2, S3
    <2>2. IsFiniteSet(S2)
      BY <1>4
    <2> QED BY <2>1, <2>2, CountsOneMore
  <1>6. IsFiniteSet(S4) /\ C(S4) = C(S3) + Counted(R, "tasks")
    <2>1. "tasks" \notin S3 /\ S4 = S3 \cup {"tasks"}
      OBVIOUS
    <2> HIDE DEF S3, S4
    <2>2. IsFiniteSet(S3)
      BY <1>5
    <2> QED BY <2>1, <2>2, CountsOneMore
  <1>7. IsFiniteSet(S5) /\ C(S5) = C(S4) + Counted(R, "decisions")
    <2>1. "decisions" \notin S4 /\ S5 = S4 \cup {"decisions"}
      OBVIOUS
    <2> HIDE DEF S4, S5
    <2>2. IsFiniteSet(S4)
      BY <1>6
    <2> QED BY <2>1, <2>2, CountsOneMore
  <1>8. IsFiniteSet(S6) /\ C(S6) = C(S5) + Counted(R, "playbooks")
    <2>1. "playbooks" \notin S5 /\ S6 = S5 \cup {"playbooks"}
      OBVIOUS
    <2> HIDE DEF S5, S6
    <2>2. IsFiniteSet(S5)
      BY <1>7
    <2> QED BY <2>1, <2>2, CountsOneMore
  <1>9. IsFiniteSet(S7) /\ C(S7) = C(S6) + Counted(R, "archival")
    <2>1. "archival" \notin S6 /\ S7 = S6 \cup {"archival"}
      OBVIOUS
    <2> HIDE DEF S6, S7
    <2>2. IsFiniteSet(S6)
      BY <1>8
    <2> QED BY <2>1, <2>2, CountsOneMore
  <1>10. S7 = Sections /\ R \cap S7 = R
    BY SectionsAre
  <1>11. IsFiniteSet(R)
    BY SectionsAre, FS_Subset
  <1> DEFINE F == [n \in Sections |-> Counted(R, n)]
  <1>12. /\ F["digest"] = Counted(R, "digest") /\ F["tasks"] = Counted(R, "tasks")
         /\ F["trigger_matched"] = Counted(R, "trigger_matched")
         /\ F["recent_journal"] = Counted(R, "recent_journal")
         /\ F["decisions"] = Counted(R, "decisions") /\ F["archival"] = Counted(R, "archival")
         /\ F["playbooks"] = Counted(R, "playbooks")
    BY SectionsAre
  <1>13. C(S7) = Cardinality(R)
    BY <1>10
  <1>14. \A n : Counted(R, n) \in Nat
    BY DEF Counted
  <1> HIDE DEF F, C, S1, S2, S3, S4, S5, S6, S7
  <1>15. Cardinality(R) = Total(F)
    BY <1>3, <1>4, <1>5, <1>6, <1>7, <1>8, <1>9, <1>12, <1>13, <1>14 DEF Total
  <1> QED BY <1>11, <1>15 DEF F

(* The order of the fractions is strict and total.                          *)
LEMMA AheadIsAnOrder ==
    ASSUME NEW budget \in Nat, NEW names \in SUBSET Sections, TotalWeight(names) \in Nat \ {0}
    PROVE  /\ \A a, b \in names : a # b => Ahead(budget, names, a, b) \/ Ahead(budget, names, b, a)
           /\ \A a \in names : ~Ahead(budget, names, a, a)
           /\ \A a, b, c \in names : Ahead(budget, names, a, b) /\ Ahead(budget, names, b, c)
                                        => Ahead(budget, names, a, c)
  <1> DEFINE t == TotalWeight(names)
             frac(n) == (budget * Weight(n)) % t
  <1>1. \A n \in names : Weight(n) \in Nat
    BY DEF Weight
  <1>2. \A n \in names : frac(n) \in Int
    <2>1. \A w \in Nat : budget * w \in Int
      OBVIOUS
    <2>2. \A x \in Int : x % t \in Int
      OBVIOUS
    <2> HIDE DEF t
    <2> QED BY <1>1, <2>1, <2>2
  <1>3. \A n \in names : Place(n) \in Int
    BY SectionsAre
  <1>4. \A a, b \in names : Place(a) = Place(b) => a = b
    BY SectionsAre
  <1>5. \A a, b : Ahead(budget, names, a, b) <=>
            \/ frac(a) > frac(b)
            \/ frac(a) = frac(b) /\ Weight(a) > Weight(b)
            \/ frac(a) = frac(b) /\ Weight(a) = Weight(b) /\ Place(a) < Place(b)
    BY DEF Ahead
  <1> HIDE DEF frac, t
  <1>6. \A n \in names : Weight(n) \in Int
    BY <1>1
  <1>7. ASSUME NEW a \in names, NEW b \in names, a # b
        PROVE  Ahead(budget, names, a, b) \/ Ahead(budget, names, b, a)
    <2>1. Place(a) # Place(b)
      BY <1>4, <1>7
    <2> QED BY <1>2, <1>3, <1>5, <1>6, <2>1
  <1>8. ASSUME NEW a \in names PROVE ~Ahead(budget, names, a, a)
    BY <1>2, <1>3, <1>5, <1>6
  <1>9. ASSUME NEW a \in names, NEW b \in names, NEW c \in names,
               Ahead(budget, names, a, b), Ahead(budget, names, b, c)
        PROVE  Ahead(budget, names, a, c)
    BY <1>2, <1>3, <1>5, <1>6, <1>9
  <1> QED BY <1>7, <1>8, <1>9

(* No more sections are rounded up than tokens are left.                    *)
LEMMA FewAreRoundedUp ==
    ASSUME NEW budget \in Nat, NEW names \in SUBSET Sections, TotalWeight(names) \in Nat \ {0},
           budget - Total(Of(names, Share(budget, names))) \in Nat
    PROVE  /\ RoundedUp(budget, names) \subseteq names
           /\ Cardinality(RoundedUp(budget, names))
                 <= budget - Total(Of(names, Share(budget, names)))
  <1> DEFINE left == budget - Total(Of(names, Share(budget, names)))
             before(n) == {a \in names : Ahead(budget, names, a, n)}
             rank(n) == Cardinality(before(n))
             R == RoundedUp(budget, names)
  <1>1. R = {n \in names : rank(n) < left}
    BY DEF RoundedUp
  <1>2. IsFiniteSet(names) /\ IsFiniteSet(R)
    BY <1>1, SectionsAre, FS_Subset
  <1>3. \A n \in names : IsFiniteSet(before(n)) /\ rank(n) \in Nat
    BY <1>2, FS_Subset, FS_CardinalityType
  <1>4. Cardinality(R) \in Nat /\ left \in Nat
    BY <1>2, FS_CardinalityType
  <1>5. CASE R = {}
    <2>1. Cardinality(R) = 0
      BY <1>5, FS_EmptySet
    <2> QED BY <1>1, <1>4, <2>1
  <1>6. CASE R # {}
    <2> DEFINE ranks == {rank(n) : n \in R}
    <2>1. ranks \subseteq 0..left /\ ranks # {}
      <3>1. ASSUME NEW n \in R PROVE rank(n) \in 0..left
        <4>1. n \in names /\ rank(n) < left
          BY <1>1
        <4>2. rank(n) \in Nat /\ left \in Nat
          BY <1>3, <1>4, <4>1
        <4> HIDE DEF rank, left
        <4> QED BY <4>1, <4>2
      <3> HIDE DEF R, rank, left
      <3> QED BY <1>6, <3>1
    <2>2. PICK k \in ranks : \A j \in ranks : k >= j
      <3> HIDE DEF ranks, left
      <3> QED BY <1>4, <2>1, Greatest
    <2>3. PICK x \in R : k = rank(x)
      BY <2>2
    <2>4. x \in names /\ rank(x) < left /\ rank(x) \in Nat
      <3> HIDE DEF R, rank
      <3> QED BY <1>1, <1>3
    <2>5. ASSUME NEW y \in R, y # x PROVE y \in before(x)
      <3>1. y \in names /\ x \in names
        BY <1>1
      <3>2. CASE Ahead(budget, names, y, x)
        BY <3>1, <3>2
      <3>3. CASE Ahead(budget, names, x, y)
        <4>1. before(x) \cup {x} \subseteq before(y) /\ x \notin before(x)
          BY <3>1, <3>3, AheadIsAnOrder
        <4>2. rank(x) + 1 <= rank(y)
          <5>1. Cardinality(before(x) \cup {x}) = rank(x) + 1
            <6> HIDE DEF before
            <6> QED BY <1>3, <2>4, <4>1, FS_AddElement
          <5>2. Cardinality(before(x) \cup {x}) <= rank(y)
            <6> HIDE DEF before
            <6> QED BY <1>3, <3>1, <4>1, FS_Subset
          <5> HIDE DEF rank
          <5> QED BY <5>1, <5>2
        <4>3. k >= rank(y) /\ rank(y) \in Nat
          <5>1. rank(y) \in ranks
            OBVIOUS
          <5> HIDE DEF ranks, rank
          <5> QED BY <1>3, <2>2, <3>1, <5>1
        <4> HIDE DEF rank
        <4> QED BY <2>3, <2>4, <4>2, <4>3
      <3> QED BY <2>5, <3>1, <3>2, <3>3, AheadIsAnOrder
    <2>6. R \subseteq before(x) \cup {x}
      BY <2>5
    <2>7. Cardinality(before(x) \cup {x}) <= rank(x) + 1 /\ IsFiniteSet(before(x) \cup {x})
      <3> HIDE DEF before
      <3>1. IsFiniteSet(before(x))
        BY <1>3, <2>4
      <3>2. x \notin before(x) => Cardinality(before(x) \cup {x}) = rank(x) + 1
        BY <3>1, FS_AddElement
      <3>3. x \in before(x) => before(x) \cup {x} = before(x)
        OBVIOUS
      <3>4. IsFiniteSet(before(x) \cup {x})
        BY <3>1, FS_AddElement
      <3>5. rank(x) <= rank(x) + 1
        BY <2>4
      <3>6. rank(x) + 1 <= rank(x) + 1
        BY <2>4
      <3>7. CASE x \in before(x)
        BY <3>3, <3>4, <3>5, <3>7
      <3>8. CASE x \notin before(x)
        <4>1. Cardinality(before(x) \cup {x}) = rank(x) + 1
          BY <3>2, <3>8
        <4> QED BY <3>4, <3>6, <4>1
      <3> QED BY <3>7, <3>8
    <2>8. Cardinality(R) <= Cardinality(before(x) \cup {x})
          /\ Cardinality(before(x) \cup {x}) \in Nat
      <3> HIDE DEF before, R
      <3> QED BY <2>6, <2>7, FS_Subset, FS_CardinalityType
    <2>9. Cardinality(R) <= left
      <3> DEFINE c == Cardinality(before(x) \cup {x})
                 r == Cardinality(R)
                 q == rank(x)
      <3>1. r <= c /\ c \in Nat /\ c <= q + 1 /\ q < left /\ q \in Nat /\ left \in Nat /\ r \in Nat
        BY <1>4, <2>4, <2>7, <2>8
      <3> HIDE DEF c, r, q, left
      <3>2. r <= left
        BY <3>1
      <3> QED BY <3>2 DEF r
    <2> QED BY <1>1, <2>9
  <1> QED BY <1>5, <1>6

(* Arithmetic of shares.                                                    *)
LEMMA SharesAddUp ==
    ASSUME NEW t \in Nat, NEW b \in Nat, NEW x \in Nat, NEW y \in Nat, NEW v \in Nat, NEW w \in Nat,
           x * t <= b * v, y * t <= b * w
    PROVE  (x + y) * t <= b * (v + w)
  <1>1. (x + y) * t = x * t + y * t /\ b * (v + w) = b * v + b * w
    OBVIOUS
  <1>2. x * t \in Int /\ y * t \in Int /\ b * v \in Int /\ b * w \in Int
    OBVIOUS
  <1>3. \A i, j, k, l \in Int : i <= k /\ j <= l => i + j <= k + l
    OBVIOUS
  <1> QED BY <1>1, <1>2, <1>3

(* A share of the whole is no more than the whole.                         *)
LEMMA SharesStayBelow ==
    ASSUME NEW t \in Nat \ {0}, NEW b \in Nat, NEW x \in Nat, x * t <= b * t
    PROVE  x <= b
  <1> SUFFICES ASSUME x >= b + 1 PROVE FALSE
    OBVIOUS
  <1> DEFINE d == x - (b + 1)
  <1>1. d \in Nat /\ x = (b + 1) + d
    OBVIOUS
  <1> HIDE DEF d
  <1>2. x * t = b * t + t + d * t
    BY <1>1
  <1>3. d * t \in Nat /\ b * t \in Nat
    BY <1>1
  <1> QED BY <1>2, <1>3

(* The floor of a fraction.                                                *)
LEMMA SharesRoundDown ==
    ASSUME NEW t \in Nat \ {0}, NEW a \in Nat
    PROVE  a \div t \in Nat /\ (a \div t) * t <= a
  OBVIOUS

(* The shares, rounded down, are within the budget.                         *)
LEMMA SharesFit ==
    ASSUME NEW budget \in Nat, NEW names \in SUBSET Sections, names # {}
    PROVE  /\ TotalWeight(names) \in Nat \ {0}
           /\ \A n \in names : Share(budget, names)[n] \in Nat
           /\ Total(Of(names, Share(budget, names))) \in Nat
           /\ Total(Of(names, Share(budget, names))) <= budget
  <1> DEFINE t == TotalWeight(names)
             W == [n \in Sections |-> IF n \in names THEN Weight(n) ELSE 0]
             S == Of(names, Share(budget, names))
  <1>1. \A n \in Sections : W[n] \in Nat /\ (n \in names => W[n] > 0 /\ W[n] = Weight(n))
    BY DEF Weight
  <1>2. t = Total(W)
    BY DEF TotalWeight
  <1>3. PICK o \in names : TRUE
    OBVIOUS
  <1> HIDE DEF W
  <1>4. t \in Nat \ {0}
    <2>1. W[o] > 0 /\ o \in Sections
      BY <1>1, <1>3
    <2>2. /\ W["digest"] \in Nat /\ W["trigger_matched"] \in Nat /\ W["recent_journal"] \in Nat
          /\ W["tasks"] \in Nat /\ W["decisions"] \in Nat /\ W["playbooks"] \in Nat
          /\ W["archival"] \in Nat
      BY <1>1, SectionsAre
    <2>3. o \in {"digest", "trigger_matched", "recent_journal", "tasks", "decisions",
                 "playbooks", "archival"}
      BY <2>1, SectionsAre
    <2> HIDE DEF t
    <2>4. t \in Nat /\ W[o] <= t
      <3>1. t = W["digest"] + W["trigger_matched"] + W["recent_journal"] + W["tasks"]
                  + W["decisions"] + W["playbooks"] + W["archival"]
        BY <1>2 DEF Total
      <3>2. \A a, b, c, d, e, f, g \in Nat :
               LET s == a + b + c + d + e + f + g
               IN  /\ s \in Nat /\ a <= s /\ b <= s /\ c <= s /\ d <= s /\ e <= s /\ f <= s
                   /\ g <= s
        OBVIOUS
      <3>3. /\ t \in Nat /\ W["digest"] <= t /\ W["trigger_matched"] <= t
            /\ W["recent_journal"] <= t /\ W["tasks"] <= t /\ W["decisions"] <= t
            /\ W["playbooks"] <= t /\ W["archival"] <= t
        BY <2>2, <3>1, <3>2
      <3> QED BY <2>3, <3>3, Zenon
    <2>5. W[o] \in Nat /\ t \in Nat
      BY <1>1, <2>1, <2>4
    <2> QED BY <2>1, <2>4, <2>5
  <1>5. ASSUME NEW n \in names
        PROVE  /\ Share(budget, names)[n] \in Nat
               /\ Share(budget, names)[n] * t <= budget * W[n]
    <2>1. Share(budget, names)[n] = (budget * W[n]) \div t
      BY <1>1 DEF Share
    <2>2. budget * W[n] \in Nat
      <3>1. \A x, y \in Nat : x * y \in Nat
        OBVIOUS
      <3>2. W[n] \in Nat
        BY <1>1
      <3> QED BY <3>1, <3>2
    <2> HIDE DEF t
    <2> QED BY <1>4, <2>1, <2>2, SharesRoundDown
  <1>6. \A n \in Sections : S[n] \in Nat /\ S[n] * t <= budget * W[n]
    <2> TAKE n \in Sections
    <2>1. CASE n \in names
      <3>1. S[n] = Share(budget, names)[n]
        BY <2>1 DEF Of
      <3> HIDE DEF S, t
      <3> QED BY <1>5, <2>1, <3>1
    <2>2. CASE n \notin names
      <3>1. S[n] = 0
        BY <2>2 DEF Of
      <3>2. 0 * t = 0 /\ budget * W[n] >= 0
        <4>1. \A x, y \in Nat : x * y >= 0 /\ 0 * x = 0
          OBVIOUS
        <4>2. W[n] \in Nat
          BY <1>1
        <4> HIDE DEF t
        <4> QED BY <1>4, <4>1, <4>2
      <3> HIDE DEF S, t
      <3> QED BY <3>1, <3>2
    <2> QED BY <2>1, <2>2
  <1> HIDE DEF S, t
  <1>7. \A n \in Sections : S[n] \in Nat /\ W[n] \in Nat
    BY <1>1, <1>6
  <1> DEFINE s2 == S["digest"] + S["trigger_matched"]
             s3 == s2 + S["recent_journal"]
             s4 == s3 + S["tasks"]
             s5 == s4 + S["decisions"]
             s6 == s5 + S["playbooks"]
             s7 == s6 + S["archival"]
             w2 == W["digest"] + W["trigger_matched"]
             w3 == w2 + W["recent_journal"]
             w4 == w3 + W["tasks"]
             w5 == w4 + W["decisions"]
             w6 == w5 + W["playbooks"]
             w7 == w6 + W["archival"]
  <1>8. t \in Nat
    BY <1>4
  <1>9. s2 \in Nat /\ w2 \in Nat /\ s2 * t <= budget * w2
    <2>1. /\ S["digest"] \in Nat /\ W["digest"] \in Nat /\ S["trigger_matched"] \in Nat
          /\ W["trigger_matched"] \in Nat /\ S["digest"] * t <= budget * W["digest"]
          /\ S["trigger_matched"] * t <= budget * W["trigger_matched"]
      BY <1>6, <1>7, SectionsAre
    <2>2. s2 * t <= budget * w2
      BY <1>8, <2>1, SharesAddUp
    <2> QED BY <2>1, <2>2
  <1> HIDE DEF s2, w2
  <1>10. s3 \in Nat /\ w3 \in Nat /\ s3 * t <= budget * w3
    <2>1. S["recent_journal"] \in Nat /\ W["recent_journal"] \in Nat
          /\ S["recent_journal"] * t <= budget * W["recent_journal"]
      BY <1>6, <1>7, SectionsAre
    <2>2. s3 * t <= budget * w3
      BY <1>8, <1>9, <2>1, SharesAddUp
    <2> QED BY <1>9, <2>1, <2>2
  <1> HIDE DEF s3, w3
  <1>11. s4 \in Nat /\ w4 \in Nat /\ s4 * t <= budget * w4
    <2>1. S["tasks"] \in Nat /\ W["tasks"] \in Nat /\ S["tasks"] * t <= budget * W["tasks"]
      BY <1>6, <1>7, SectionsAre
    <2>2. s4 * t <= budget * w4
      BY <1>8, <1>10, <2>1, SharesAddUp
    <2> QED BY <1>10, <2>1, <2>2
  <1> HIDE DEF s4, w4
  <1>12. s5 \in Nat /\ w5 \in Nat /\ s5 * t <= budget * w5
    <2>1. S["decisions"] \in Nat /\ W["decisions"] \in Nat
          /\ S["decisions"] * t <= budget * W["decisions"]
      BY <1>6, <1>7, SectionsAre
    <2>2. s5 * t <= budget * w5
      BY <1>8, <1>11, <2>1, SharesAddUp
    <2> QED BY <1>11, <2>1, <2>2
  <1> HIDE DEF s5, w5
  <1>13. s6 \in Nat /\ w6 \in Nat /\ s6 * t <= budget * w6
    <2>1. S["playbooks"] \in Nat /\ W["playbooks"] \in Nat
          /\ S["playbooks"] * t <= budget * W["playbooks"]
      BY <1>6, <1>7, SectionsAre
    <2>2. s6 * t <= budget * w6
      BY <1>8, <1>12, <2>1, SharesAddUp
    <2> QED BY <1>12, <2>1, <2>2
  <1> HIDE DEF s6, w6
  <1>14. s7 \in Nat /\ w7 \in Nat /\ s7 * t <= budget * w7
    <2>1. S["archival"] \in Nat /\ W["archival"] \in Nat
          /\ S["archival"] * t <= budget * W["archival"]
      BY <1>6, <1>7, SectionsAre
    <2>2. s7 * t <= budget * w7
      BY <1>8, <1>13, <2>1, SharesAddUp
    <2> QED BY <1>13, <2>1, <2>2
  <1>15. \A f, g, h, i, j, k, l \in Nat :
            f + g + h + i + j + k + l = (((((f + g) + h) + i) + j) + k) + l
    OBVIOUS
  <1>16. w7 = Total(W) /\ s7 = Total(S)
    BY <1>7, SectionsAre DEF Total, s2, s3, s4, s5, s6, w2, w3, w4, w5, w6
  <1> HIDE DEF s7, w7
  <1>17. Total(S) \in Nat /\ Total(S) <= budget
    <2>1. s7 * t <= budget * t
      BY <1>2, <1>14, <1>16
    <2> QED BY <1>4, <1>14, <1>16, <2>1, SharesStayBelow
  <1>18. \A n \in names : Share(budget, names)[n] \in Nat
    BY <1>5
  <1> QED BY <1>4, <1>17, <1>18 DEF S, t

(* The caps use up no more than the budget.                                 *)
LEMMA CapsFit ==
    ASSUME NEW budget \in Nat, NEW names \in SUBSET Sections
    PROVE  /\ DOMAIN Caps(budget, names) = names
           /\ \A n \in names : Caps(budget, names)[n] \in Nat
           /\ Total(Of(names, Caps(budget, names))) <= budget
  <1>1. DOMAIN Caps(budget, names) = names
    BY DEF Caps
  <1>2. CASE names = {}
    <2>1. \A n \in Sections : Of(names, Caps(budget, names))[n] = 0
      BY <1>2 DEF Of
    <2>2. Total(Of(names, Caps(budget, names))) = 0
      BY <2>1, SectionsAre DEF Total
    <2> QED BY <1>1, <1>2, <2>2
  <1>3. CASE names # {}
    <2> DEFINE S == Of(names, Share(budget, names))
               R == RoundedUp(budget, names)
               C == Of(names, Caps(budget, names))
               K == [n \in Sections |-> Counted(R, n)]
    <2>1. /\ TotalWeight(names) \in Nat \ {0} /\ \A n \in names : Share(budget, names)[n] \in Nat
          /\ Total(S) \in Nat /\ Total(S) <= budget
      BY <1>3, SharesFit
    <2>2. budget - Total(S) \in Nat
      <3> HIDE DEF S
      <3> QED BY <2>1
    <2>3. R \subseteq names /\ Cardinality(R) <= budget - Total(S)
      BY <2>1, <2>2, FewAreRoundedUp
    <2>4. Cardinality(R) = Total(K) /\ IsFiniteSet(R)
      BY <2>3, CountedOverSections
    <2>5. \A n \in names : Caps(budget, names)[n] = Share(budget, names)[n] + Counted(R, n)
      BY DEF Caps, Counted
    <2>6. \A n \in Sections : /\ S[n] = IF n \in names THEN Share(budget, names)[n] ELSE 0
                              /\ C[n] = IF n \in names THEN Caps(budget, names)[n] ELSE 0
                              /\ K[n] = Counted(R, n)
      BY DEF Of
    <2>7. \A n : Counted(R, n) \in {0, 1} /\ (n \notin names => Counted(R, n) = 0)
      BY <2>3 DEF Counted
    <2> HIDE DEF S, R, C, K
    <2>8. ASSUME NEW n \in Sections
          PROVE  S[n] \in Nat /\ K[n] \in Nat /\ C[n] = S[n] + K[n]
      <3>1. CASE n \in names
        BY <2>1, <2>5, <2>6, <2>7, <3>1
      <3>2. CASE n \notin names
        BY <2>6, <2>7, <3>2
      <3> QED BY <3>1, <3>2
    <2>9. Total(C) = Total(S) + Total(K)
      <3>1. \A n \in Sections : S[n] \in Int /\ K[n] \in Int /\ C[n] = S[n] + K[n]
        BY <2>8
      <3> QED BY <3>1, SectionsAre DEF Total
    <2>10. Cardinality(R) \in Nat
      BY <2>4, FS_CardinalityType
    <2>11. Total(C) <= budget
      BY <2>1, <2>3, <2>4, <2>9, <2>10
    <2>12. \A n \in names : Caps(budget, names)[n] \in Nat
      <3>1. \A n \in names : Counted(R, n) \in Nat
        BY <2>7
      <3> QED BY <2>1, <2>5, <3>1
    <2> QED BY <1>1, <2>11, <2>12 DEF C
  <1> QED BY <1>2, <1>3

\* What is packed after k sections: each within its cap, of its candidates, and
\* no hit twice.
PackedApart(p, k, cand, caps) ==
    /\ DOMAIN p = {n \in DOMAIN caps : Place(n) <= k}
    /\ \A n \in DOMAIN p : /\ p[n].cap = caps[n] /\ p[n].used <= caps[n]
                           /\ p[n].items \in Seq(ToSet(cand[n])) /\ IsInjective(p[n].items)
    /\ \A n, o \in DOMAIN p : n # o => ToSet(p[n].items) \cap ToSet(p[o].items) = {}

\* The shapes of a packed section and of a pack.
PackSlots == [cap : Nat, items : Seq(Packable), used : Int]
PackShapes == UNION {[d -> PackSlots] : d \in SUBSET Sections}

(* One section more, beside those that are packed.                          *)
LEMMA OneSectionMore ==
    ASSUME NEW p \in PackShapes, NEW n \in Sections, NEW cand, NEW caps,
           DOMAIN caps \subseteq Sections, \A x \in DOMAIN caps : caps[x] \in Nat,
           \A x \in DOMAIN caps : cand[x] \in Seq(Packable)
    PROVE  /\ WithSection(p, n, cand, caps) \in PackShapes
           /\ \A k \in 1..7 : Place(n) = k /\ PackedApart(p, k - 1, cand, caps)
                                => PackedApart(WithSection(p, n, cand, caps), k, cand, caps)
  <1>1. PICK d \in SUBSET Sections : p \in [d -> PackSlots]
    BY DEF PackShapes
  <1>2. DOMAIN p = d /\ \A x \in d : p[x].items \in Seq(Packable)
    BY <1>1 DEF PackSlots
  <1>3. \A x \in DOMAIN caps : Place(x) \in 1..7 /\ (Place(x) = Place(n) => x = n)
    BY SectionsAre
  <1>4. CASE n \notin DOMAIN caps
    <2>1. WithSection(p, n, cand, caps) = p
      BY <1>4 DEF WithSection
    <2>2. ASSUME NEW k \in 1..7, Place(n) = k, PackedApart(p, k - 1, cand, caps)
          PROVE  PackedApart(p, k, cand, caps)
      <3>1. {x \in DOMAIN caps : Place(x) <= k - 1} = {x \in DOMAIN caps : Place(x) <= k}
        BY <1>3, <1>4, <2>2
      <3> QED BY <2>2, <3>1 DEF PackedApart
    <2> QED BY <2>1, <2>2
  <1>5. CASE n \in DOMAIN caps
    <2> DEFINE seen == SeenSoFar(p)
               s == PackSection(n, cand[n], caps[n], seen)
               q == WithSection(p, n, cand, caps)
    <2>1. q = [x \in d \cup {n} |-> IF x = n THEN s ELSE p[x]]
      BY <1>2, <1>5 DEF WithSection
    <2>2. seen \in SUBSET Packable
      <3>1. \A x \in d : ToSet(p[x].items) \subseteq Packable
        BY <1>2, MembersAreIn
      <3> QED BY <1>2, <3>1 DEF SeenSoFar
    <2>3. cand[n] \in Seq(Packable) /\ caps[n] \in Nat
      BY <1>5
    <2>4. /\ s.cap = caps[n] /\ s.used \in Int /\ s.used <= caps[n]
          /\ s.items \in Seq(ToSet(cand[n])) /\ IsInjective(s.items)
          /\ seen \cap ToSet(s.items) = {}
      <3> HIDE DEF seen
      <3> QED BY <2>2, <2>3, SectionFits
    <2>5. s \in PackSlots
      <3>1. ToSet(cand[n]) \subseteq Packable /\ ToSet(s.items) \subseteq ToSet(cand[n])
        <4> HIDE DEF s
        <4> QED BY <2>3, <2>4, MembersAreIn
      <3>2. s.items \in Seq(Packable)
        <4> HIDE DEF s
        <4> QED BY <2>4, <3>1, MembersAreIn
      <3>3. s = [cap |-> s.cap, items |-> s.items, used |-> s.used]
        BY DEF PackSection
      <3> HIDE DEF s
      <3> QED BY <2>3, <2>4, <3>2, <3>3 DEF PackSlots
    <2> HIDE DEF s
    <2>6. q \in [d \cup {n} -> PackSlots]
      <3> HIDE DEF q
      <3> QED BY <1>1, <2>1, <2>5
    <2>7. q \in PackShapes
      <3> HIDE DEF q
      <3> QED BY <2>6 DEF PackShapes
    <2> HIDE DEF q
    <2>8. ASSUME NEW k \in 1..7, Place(n) = k, PackedApart(p, k - 1, cand, caps)
          PROVE  PackedApart(q, k, cand, caps)
      <3>1. d = {x \in DOMAIN caps : Place(x) <= k - 1}
        BY <1>2, <2>8 DEF PackedApart
      <3>2. DOMAIN q = d \cup {n} /\ n \notin d
        BY <2>1, <2>8, <3>1
      <3>3. DOMAIN q = {x \in DOMAIN caps : Place(x) <= k}
        <4>1. \A x \in DOMAIN caps : Place(x) <= k <=> Place(x) <= k - 1 \/ x = n
          BY <1>3, <2>8
        <4> QED BY <1>5, <3>1, <3>2, <4>1
      <3>4. q[n] = s /\ \A x \in d : q[x] = p[x]
        BY <2>1, <3>2
      <3>5. \A x \in d : ToSet(q[x].items) \cap ToSet(q[n].items) = {}
        <4>1. \A x \in d : ToSet(p[x].items) \subseteq seen
          BY <1>2 DEF SeenSoFar
        <4> HIDE DEF seen
        <4> QED BY <2>4, <3>4, <4>1
      <3>6. \A x, y \in DOMAIN q : x # y => ToSet(q[x].items) \cap ToSet(q[y].items) = {}
        <4> SUFFICES ASSUME NEW x \in DOMAIN q, NEW y \in DOMAIN q, x # y
                     PROVE  ToSet(q[x].items) \cap ToSet(q[y].items) = {}
          OBVIOUS
        <4>1. CASE x = n \/ y = n
          BY <3>2, <3>5, <4>1
        <4>2. CASE x \in d /\ y \in d
          BY <1>2, <2>8, <3>4, <4>2 DEF PackedApart
        <4> QED BY <3>2, <4>1, <4>2
      <3>7. \A x \in DOMAIN q : /\ q[x].cap = caps[x] /\ q[x].used <= caps[x]
                                /\ q[x].items \in Seq(ToSet(cand[x])) /\ IsInjective(q[x].items)
        BY <1>2, <2>4, <2>8, <3>2, <3>4 DEF PackedApart
      <3> QED BY <3>3, <3>6, <3>7 DEF PackedApart
    <2> QED BY <2>7, <2>8 DEF q
  <1> QED BY <1>4, <1>5

(* All sections are packed, each within its cap and beside the others.      *)
LEMMA SectionsFit ==
    ASSUME NEW budget \in Nat, NEW cand, DOMAIN cand \subseteq Sections,
           \A n \in DOMAIN cand : cand[n] \in Seq(Packable)
    PROVE  LET caps == Caps(budget, {n \in DOMAIN cand : cand[n] # <<>>})
           IN  PackedApart(PackSections(cand, budget), 7, cand, caps)
               /\ DOMAIN caps = {n \in DOMAIN cand : cand[n] # <<>>}
               /\ Total(Of(DOMAIN caps, caps)) <= budget
  <1> DEFINE names == {n \in DOMAIN cand : cand[n] # <<>>}
             caps == Caps(budget, names)
             D == PackShapes
             step(k, x) == WithSection(x, Order[k], cand, caps)
             g == [k \in 1..7 |-> [x \in D |-> step(k, x)]]
             Holds(f) == f = [k \in 0..7 |-> IF k = 0 THEN <<>> ELSE step(k, f[k - 1])]
             f == CHOOSE x : Holds(x)
  <1>1. names \in SUBSET Sections /\ 7 \in Nat /\ Len(Order) = 7
    BY SectionsAre
  <1>2. /\ DOMAIN caps = names /\ \A n \in names : caps[n] \in Nat
        /\ Total(Of(names, caps)) <= budget
    <2> HIDE DEF names
    <2> QED BY <1>1, CapsFit
  <1>3. \A n \in names : cand[n] \in Seq(Packable)
    OBVIOUS
  <1> HIDE DEF caps, names
  <1>4. ASSUME NEW k \in 1..7, NEW x \in D
        PROVE  /\ step(k, x) \in D
               /\ PackedApart(x, k - 1, cand, caps) => PackedApart(step(k, x), k, cand, caps)
    <2>1. Order[k] \in Sections /\ Place(Order[k]) = k
      BY SectionsAre
    <2> QED BY <1>1, <1>2, <1>3, <2>1, OneSectionMore
  <1>5. <<>> \in D /\ PackedApart(<<>>, 0, cand, caps)
    <2>1. DOMAIN <<>> = {} /\ <<>> \in [{} -> PackSlots]
      OBVIOUS
    <2>2. {} \in SUBSET Sections
      OBVIOUS
    <2>3. <<>> \in D
      BY <2>1, <2>2 DEF PackShapes
    <2>4. {n \in DOMAIN caps : Place(n) <= 0} = {}
      <3>1. \A n \in DOMAIN caps : Place(n) \in 1..7
        BY <1>1, <1>2, SectionsAre
      <3>2. \A i \in 1..7 : ~(i <= 0)
        OBVIOUS
      <3> QED BY <3>1, <3>2
    <2> QED BY <2>1, <2>3, <2>4 DEF PackedApart
  <1> HIDE DEF D
  <1>6. \E h \in [0..7 -> D] : Steps(h, 7, <<>>, g)
    <2> HIDE DEF step
    <2>1. \A k \in 1..7 : \A x \in D : g[k][x] \in D
      BY <1>4
    <2> HIDE DEF g
    <2> QED BY <1>1, <1>5, <2>1, StepsStay
  <1>7. Holds(f)
    <2>1. PICK h \in [0..7 -> D] : Steps(h, 7, <<>>, g)
      BY <1>6
    <2>2. ASSUME NEW k \in 0..7 PROVE h[k] = IF k = 0 THEN <<>> ELSE step(k, h[k - 1])
      <3>1. h[k] = IF k = 0 THEN <<>> ELSE g[k][h[k - 1]]
        BY <2>1 DEF Steps
      <3>2. k # 0 => k \in 1..7 /\ h[k - 1] \in D
        OBVIOUS
      <3>3. k # 0 => g[k][h[k - 1]] = step(k, h[k - 1])
        <4> HIDE DEF step
        <4> QED BY <3>2
      <3> HIDE DEF g, step
      <3> QED BY <3>1, <3>3
    <2>3. h = [k \in 0..7 |-> h[k]]
      OBVIOUS
    <2>4. Holds(h)
      <3> HIDE DEF step
      <3> QED BY <2>2, <2>3
    <2> HIDE DEF Holds
    <2> QED BY <2>4
  <1>8. PackSections(cand, budget) = f[7]
    BY <1>1 DEF PackSections, names, caps
  <1> DEFINE T == {k \in 0..7 : f[k] \in D /\ PackedApart(f[k], k, cand, caps)}
  <1>9. 7 \in T
    <2> HIDE DEF f, step
    <2>1. 0 \in T
      BY <1>5, <1>7
    <2>2. \A k \in 1..7 : k - 1 \in T => k \in T
      <3> SUFFICES ASSUME NEW k \in 1..7, k - 1 \in T PROVE k \in T
        OBVIOUS
      <3>1. f[k] = step(k, f[k - 1])
        BY <1>7
      <3> QED BY <1>4, <3>1
    <2> HIDE DEF T
    <2>3. \A k \in 0..7 : k \in T
      BY <1>1, <2>1, <2>2, ByRounds
    <2> QED BY <2>3
  <1>10. PackedApart(PackSections(cand, budget), 7, cand, caps)
    BY <1>8, <1>9
  <1>11. Total(Of(DOMAIN caps, caps)) <= budget
    BY <1>2
  <1> QED BY <1>2, <1>10, <1>11 DEF caps, names

----------------------------------------------------------------------------
(* The invariant *)

PackerFields == {"pc", "budget", "journal", "cand", "cand0", "found", "pack", "still"}

\* What kept still since the call began and was fetched is visible (in S).
Current(ids, quiet, S) == ToSet(ids) \cap Notes \cap quiet \subseteq S

\* A pack that was made.
PackIsFit(w, S) ==
    /\ Total(Of(DOMAIN w.pack, [n \in DOMAIN w.pack |-> w.pack[n].cap])) <= w.budget
    /\ \A n \in DOMAIN w.pack : /\ w.pack[n].used <= w.pack[n].cap
                                /\ w.pack[n].items \in Seq(Packable) /\ IsInjective(w.pack[n].items)
                                /\ Current(w.pack[n].items, w.still, S)
    /\ \A n, o \in DOMAIN w.pack :
          n # o => ToSet(w.pack[n].items) \cap ToSet(w.pack[o].items) = {}
PackerOK(w, S) ==
    /\ DOMAIN w = PackerFields /\ w.budget \in Nat /\ w.still \subseteq Notes
    /\ DOMAIN w.cand \subseteq Sections
    /\ \A n \in DOMAIN w.cand : w.cand[n] \in Seq(Packable) /\ Current(w.cand[n], w.still, S)
    /\ w.cand0 \in Seq(Notes) /\ Current(w.cand0, w.still, S)
    /\ w.found \in Seq(Notes)
    /\ w.pc = "done" => PackIsFit(w, S)
PackInv ==
    /\ note \in [Notes -> [status : {"absent", "active", "stale", "retired", "superseded"},
                           sup : Nat]]
    /\ \A m \in Notes : note[m].sup # 0 => note[m].status = "superseded"
    /\ vectors \subseteq Notes /\ DOMAIN packer = Packers
    /\ \A p \in Packers : packer[p].pc # "idle" => PackerOK(packer[p], Shown)

(* What keeps still stays visible.                                          *)
LEMMA CurrentAmidChange ==
    ASSUME NEW ids, NEW quiet, NEW S, NEW R, NEW ms, Current(ids, quiet, S), S \ ms \subseteq R
    PROVE  Current(ids, quiet \ ms, R)
  BY DEF Current

(* A change by others ends the stillness of what it changes.                *)
LEMMA PackerAmidChange ==
    ASSUME NEW w, NEW S, NEW R, NEW ms, PackerOK(w, S), S \ ms \subseteq R
    PROVE  PackerOK([w EXCEPT !.still = @ \ ms], R)
  <1> DEFINE v == [w EXCEPT !.still = @ \ ms]
  <1>1. /\ DOMAIN v = PackerFields /\ v.still = w.still \ ms /\ v.pc = w.pc
        /\ v.budget = w.budget /\ v.cand = w.cand /\ v.cand0 = w.cand0 /\ v.found = w.found
        /\ v.pack = w.pack
    BY DEF PackerOK, PackerFields
  <1>2. \A ids : Current(ids, w.still, S) => Current(ids, v.still, R)
    <2> HIDE DEF v
    <2> TAKE ids
    <2> HAVE Current(ids, w.still, S)
    <2>1. Current(ids, w.still \ ms, R)
      BY CurrentAmidChange
    <2> QED BY <1>1, <2>1
  <1> HIDE DEF v
  <1>3. v.pc = "done" => PackIsFit(v, R)
    BY <1>1, <1>2 DEF PackerOK, PackIsFit, Current
  <1>4. PackerOK(v, R)
    BY <1>1, <1>2, <1>3 DEF PackerOK
  <1> QED BY <1>4 DEF v

(* A step of one call changes no memory and no other call.                  *)
LEMMA OnePackerMoves ==
    ASSUME PackInv, NEW p \in Packers, NEW w, packer' = [packer EXCEPT ![p] = w],
           UNCHANGED <<note, vectors>>, PackerOK(w, Shown)
    PROVE  PackInv'
  <1>1. Shown' = Shown
    BY DEF Shown
  <1>2. \A q \in Packers : packer'[q].pc # "idle" => PackerOK(packer'[q], Shown)
    BY DEF PackInv
  <1>3. ASSUME NEW q \in Packers PROVE (packer[q].pc # "idle" => PackerOK(packer[q], Shown))'
    BY <1>1, <1>2 DEF PackerOK, PackIsFit, Current
  <1> QED BY <1>3 DEF PackInv

\* The hits that may be candidates: what kept still is visible (in S).
Eligible(quiet, S) == {m \in Packable : m \in Notes \cap quiet => m \in S}

(* The candidates that are current, as a sequence of eligible ones.         *)
LEMMA CurrentMeans ==
    ASSUME NEW ids \in Seq(Packable), NEW quiet, NEW S
    PROVE  Current(ids, quiet, S) <=> ids \in Seq(Eligible(quiet, S))
  <1>1. ToSet(ids) \subseteq Packable
    BY MembersAreIn
  <1>2. ids \in Seq(Eligible(quiet, S)) <=> ToSet(ids) \subseteq Eligible(quiet, S)
    BY MembersAreIn
  <1> QED BY <1>1, <1>2 DEF Current, Eligible

(* Memories are numbered from 1.                                            *)
LEMMA NotesAreNumbers ==
    Cardinality(Notes) \in Nat /\ Notes \subseteq Nat /\ InOrder \in Seq(Notes)
  <1> DEFINE n == Cardinality(Notes)
  <1>1. IsFiniteSet(Notes) /\ 1..n = Notes
    BY NotesAssumption, Zenon
  <1>2. n \in Nat
    BY <1>1, FS_CardinalityType
  <1>3. InOrder = [i \in 1..n |-> i]
    BY DEF InOrder
  <1> HIDE DEF n
  <1>4. InOrder \in Seq(1..n) /\ 1..n \subseteq Nat
    BY <1>2, <1>3
  <1> QED BY <1>1, <1>2, <1>4 DEF n

(* What the queries give is visible.                                        *)
LEMMA QueriesShow ==
    ASSUME PackInv
    PROVE  /\ \A kinds, except : \A k \in Int : Fetch(kinds, except, k) \in Seq(Shown)
           /\ \A kind : \A k \in Int : FetchNewest(kind, k) \in Seq(Shown)
           /\ \A ids \in Seq(Notes) : Rows(ids) \in Seq(Shown)
           /\ \A except : MacroRows(except) \in Seq(Shown)
  <1>1. Cardinality(Notes) \in Int
    BY NotesAreNumbers
  <1>2. InOrder \in Seq(Notes)
    BY NotesAreNumbers
  <1>3. \A T, U : \A s \in Seq(T) : T \subseteq U => s \in Seq(U)
    BY MembersAreIn
  <1>4. ASSUME NEW kinds, NEW except, NEW k \in Int PROVE Fetch(kinds, except, k) \in Seq(Shown)
    <2> DEFINE S == (Shown \cap OfKinds(kinds)) \ except
    <2>1. Among(S, InOrder) \in Seq(S \cap Notes)
      BY <1>2, AmongOnly
    <2>2. S \cap Notes \subseteq Shown
      OBVIOUS
    <2>3. Among(S, InOrder) \in Seq(Shown)
      <3> HIDE DEF S
      <3> QED BY <1>3, <2>1, <2>2
    <2> QED BY <2>3, FirstOnly DEF Fetch
  <1>5. ASSUME NEW kind, NEW k \in Int PROVE FetchNewest(kind, k) \in Seq(Shown)
    <2>1. Reverse(Fetch({kind}, {}, Cardinality(Notes))) \in Seq(Shown)
      BY <1>1, <1>4, MembersAreIn
    <2> QED BY <2>1, FirstOnly DEF FetchNewest
  <1>6. ASSUME NEW ids \in Seq(Notes) PROVE Rows(ids) \in Seq(Shown)
    <2>1. Among(Shown, ids) \in Seq(Shown \cap Notes)
      BY AmongOnly
    <2> QED BY <1>3, <2>1 DEF Rows
  <1>7. ASSUME NEW except PROVE MacroRows(except) \in Seq(Shown)
    <2> DEFINE s == Fetch({"playbook"}, except, Cardinality(Notes))
    <2>1. s \in Seq(Shown)
      BY <1>1, <1>4
    <2> HIDE DEF s
    <2>2. Among(MacroMatches, s) \in Seq(MacroMatches \cap Shown)
      BY <2>1, AmongOnly
    <2>3. Among(MacroMatches, s) \in Seq(Shown)
      BY <1>3, <2>2
    <2>4. TopK["playbooks"] \in Int
      BY TextAssumption
    <2> QED BY <2>3, <2>4, FirstOnly DEF MacroRows, s
  <1> QED BY <1>4, <1>5, <1>6, <1>7

(* What the index gives are memories.                                       *)
LEMMA IndexFindsNotes ==
    ASSUME PackInv
    PROVE  TriggerIds \in Seq(Notes) /\ \A except : TopUp(except, MacroRows(except)) \in Seq(Notes)
  <1>1. \A T : \A s \in Seq(T) : T \subseteq Notes => s \in Seq(Notes)
    BY MembersAreIn
  <1>2. TopK["trigger_matched"] \in Int /\ TopK["playbooks"] \in Int
    BY TextAssumption
  <1>3. \A S : \A s \in Seq(Notes) : Among(S, s) \in Seq(Notes)
    <2> TAKE S
    <2> TAKE s \in Seq(Notes)
    <2>1. Among(S, s) \in Seq(S \cap Notes)
      BY AmongOnly
    <2> QED BY <1>1, <2>1
  <1>4. TriggerIds \in Seq(Notes)
    BY <1>2, <1>3, TextAssumption, FirstOnly DEF TriggerIds
  <1>5. ASSUME NEW except PROVE TopUp(except, MacroRows(except)) \in Seq(Notes)
    <2> DEFINE have == MacroRows(except)
               s == First(TopK["playbooks"], Among(vectors, PlaybookOrder))
    <2>1. have \in Seq(Shown)
      BY QueriesShow
    <2>2. Len(have) \in Int
      BY <2>1
    <2>3. s \in Seq(Notes)
      BY <1>2, <1>3, TextAssumption, FirstOnly
    <2> HIDE DEF have, s
    <2>4. TopK["playbooks"] - Len(have) \in Int
      BY <1>2, <2>2
    <2>5. First(TopK["playbooks"] - Len(have), Among(Notes \ (except \cup ToSet(have)), s)) \in Seq(Notes)
      BY <1>3, <2>3, <2>4, FirstOnly
    <2> QED BY <2>5 DEF TopUp, have, s
  <1> QED BY <1>4, <1>5

(* What a section fetches is visible, or has changed since.                 *)
LEMMA SectionIsCurrent ==
    ASSUME PackInv, NEW w, PackerOK(w, Shown), NEW name \in Sections
    PROVE  Section(w, name) \in Seq(Eligible(w.still, Shown))
  <1> DEFINE E == Eligible(w.still, Shown)
  <1>1. \A s \in Seq(Shown) : s \in Seq(E)
    <2>1. Shown \subseteq E
      BY DEF Eligible, Packable, Shown
    <2> HIDE DEF E
    <2> QED BY <2>1, MembersAreIn
  <1>2. \A n \in {"trigger_matched", "recent_journal", "decisions", "playbooks", "archival"} :
           TopK[n] \in Int
    BY TextAssumption
  <1>3. Rows(w.found) \in Seq(Shown)
    BY QueriesShow DEF PackerOK
  <1>4. CASE name = "digest"
    <2>1. FetchNewest("digest", 1) \in Seq(Shown)
      BY QueriesShow
    <2>2. Section(w, name) = FetchNewest("digest", 1)
      BY <1>4 DEF Section
    <2> QED BY <1>1, <2>1, <2>2
  <1>5. CASE name = "recent_journal"
    <2>1. FetchNewest("journal", TopK[name]) \in Seq(Shown)
      BY <1>2, <1>5, QueriesShow
    <2>2. Section(w, name) = FetchNewest("journal", TopK[name])
      BY <1>5 DEF Section
    <2> QED BY <1>1, <2>1, <2>2
  <1>6. CASE name = "tasks"
    <2>1. Section(w, name) = ReadyTasks
      BY <1>6 DEF Section
    <2>2. ReadyTasks \in Seq(Nat) /\ ToSet(ReadyTasks) \subseteq E
      <3>1. ReadyTasks \in Seq(Nat)
        BY TextAssumption
      <3>2. \A m \in ToSet(ReadyTasks) : m \notin Notes
        BY PackAssumption
      <3> QED BY <3>1, <3>2 DEF Eligible, Packable
    <2> HIDE DEF E
    <2>3. ReadyTasks \in Seq(E)
      BY <2>2, MembersAreIn
    <2> QED BY <2>1, <2>3 DEF E
  <1>7. CASE name = "decisions"
    <2>1. Fetch({"decision"}, Excluded(w, Earlier(name)), TopK[name]) \in Seq(Shown)
      BY <1>2, <1>7, QueriesShow
    <2>2. Section(w, name) = Fetch({"decision"}, Excluded(w, Earlier(name)), TopK[name])
      BY <1>7 DEF Section
    <2> QED BY <1>1, <2>1, <2>2
  <1>8. CASE name = "archival"
    <2>1. Fetch(Archival, Excluded(w, Earlier(name)), TopK[name]) \in Seq(Shown)
      BY <1>2, <1>8, QueriesShow
    <2>2. Section(w, name) = Fetch(Archival, Excluded(w, Earlier(name)), TopK[name])
      BY <1>8 DEF Section
    <2> QED BY <1>1, <2>1, <2>2
  <1>9. CASE name = "trigger_matched"
    <2>1. Section(w, name) = Rows(w.found)
      BY <1>9 DEF Section
    <2> QED BY <1>1, <1>3, <2>1
  <1>10. CASE name = "playbooks"
    <2>1. Section(w, name) = w.cand0 \o Rows(w.found)
      BY <1>10 DEF Section
    <2>2. Rows(w.found) \in Seq(E)
      BY <1>1, <1>3
    <2>3. w.cand0 \in Seq(E)
      <3>1. w.cand0 \in Seq(Notes) /\ Notes \subseteq Packable
        BY DEF PackerOK, Packable
      <3>2. w.cand0 \in Seq(Packable)
        BY <3>1, MembersAreIn
      <3> QED BY <3>2, CurrentMeans DEF PackerOK
    <2> HIDE DEF E
    <2> QED BY <2>1, <2>2, <2>3 DEF E
  <1> QED BY <1>4, <1>5, <1>6, <1>7, <1>8, <1>9, <1>10, SectionsAre

(* Nothing is fetched when a call begins.                                   *)
LEMMA StartPackKeeps == ASSUME PackInv, NEW p \in Packers, StartPack(p) PROVE PackInv'
  <1>1. PICK b \in Budgets, journal \in BOOLEAN :
           packer' = [packer EXCEPT ![p] =
             [pc |-> "digest", budget |-> b, journal |-> journal, cand |-> <<>>,
              cand0 |-> <<>>, found |-> <<>>, pack |-> <<>>, still |-> Notes]]
    BY DEF StartPack
  <1> DEFINE w == [pc |-> "digest", budget |-> b, journal |-> journal, cand |-> <<>>,
                   cand0 |-> <<>>, found |-> <<>>, pack |-> <<>>, still |-> Notes]
  <1>2. b \in Nat
    BY PackAssumption
  <1>3. DOMAIN <<>> = {} /\ ToSet(<<>>) = {} /\ <<>> \in Seq(Notes)
    BY DEF ToSet
  <1>4. PackerOK(w, Shown)
    BY <1>2, <1>3 DEF PackerOK, PackerFields, Current
  <1> HIDE DEF w
  <1>5. UNCHANGED <<note, vectors>>
    BY DEF StartPack
  <1> QED BY <1>1, <1>4, <1>5, OnePackerMoves DEF w

(* The index finds memories; their rows are read in the next step.          *)
LEMMA SearchIndexKeeps == ASSUME PackInv, NEW p \in Packers, SearchIndex(p) PROVE PackInv'
  <1> DEFINE w == packer[p]
             except == Excluded(w, Earlier("playbooks"))
             pc == IF w.pc = "playbooks" THEN "playbook rows" ELSE "trigger rows"
             cand0 == IF w.pc = "playbooks" THEN MacroRows(except) ELSE <<>>
  <1>1. w.pc \in {"trigger_matched", "playbooks"} /\ UNCHANGED <<note, vectors>>
    BY DEF SearchIndex
  <1>2. PICK fails \in BOOLEAN : packer' = [packer EXCEPT ![p].pc = pc, ![p].cand0 = cand0,
           ![p].found = IF fails THEN <<>>
                        ELSE IF w.pc = "playbooks" THEN TopUp(except, MacroRows(except))
                        ELSE TriggerIds]
    BY DEF SearchIndex
  <1> DEFINE found == IF fails THEN <<>>
                      ELSE IF w.pc = "playbooks" THEN TopUp(except, MacroRows(except))
                      ELSE TriggerIds
             v == [w EXCEPT !.pc = pc, !.cand0 = cand0, !.found = found]
  <1>3. PackerOK(w, Shown)
    BY <1>1 DEF PackInv
  <1>4. p \in DOMAIN packer /\ DOMAIN w = PackerFields
    BY <1>3 DEF PackInv, PackerOK
  <1>5. found \in Seq(Notes)
    <2>1. <<>> \in Seq(Notes)
      OBVIOUS
    <2> QED BY <2>1, IndexFindsNotes
  <1>6. cand0 \in Seq(Notes) /\ Current(cand0, w.still, Shown)
    <2>1. cand0 \in Seq(Shown)
      <3>1. <<>> \in Seq(Shown) /\ MacroRows(except) \in Seq(Shown)
        BY QueriesShow
      <3> QED BY <3>1
    <2> HIDE DEF cand0
    <2>2. ToSet(cand0) \subseteq Shown /\ Shown \subseteq Notes
      BY <2>1, MembersAreIn DEF Shown
    <2>3. cand0 \in Seq(Notes)
      BY <2>1, <2>2, MembersAreIn
    <2> QED BY <2>2, <2>3 DEF Current
  <1> HIDE DEF found, cand0
  <1>7. packer' = [packer EXCEPT ![p] = v]
    BY <1>2, <1>4 DEF PackerFields, found
  <1>8. /\ DOMAIN v = PackerFields /\ v.pc = pc /\ v.cand0 = cand0 /\ v.found = found
        /\ v.budget = w.budget /\ v.cand = w.cand /\ v.still = w.still
    BY <1>4 DEF PackerFields
  <1>9. pc # "done"
    OBVIOUS
  <1> HIDE DEF v, pc, w
  <1>10. PackerOK(v, Shown)
    BY <1>3, <1>5, <1>6, <1>8, <1>9 DEF PackerOK
  <1> QED BY <1>1, <1>7, <1>10, OnePackerMoves

(* The rows of a section are read in one step.                              *)
LEMMA FetchSectionKeeps == ASSUME PackInv, NEW p \in Packers, FetchSection(p) PROVE PackInv'
  <1> DEFINE w == packer[p]
             name == NameAt(w.pc)
             next == IF name = "archival" THEN "pack" ELSE Order[Place(name) + 1]
  <1>1. /\ w.pc \in Sections \cup {"trigger rows", "playbook rows"} /\ UNCHANGED <<note, vectors>>
        /\ w.pc \notin {"trigger_matched", "playbooks"}
    BY DEF FetchSection, Sections
  <1>2. PICK got \in {Section(w, name), <<>>} :
         packer' = [packer EXCEPT ![p].pc = next, ![p].found = <<>>, ![p].cand0 = <<>>,
           ![p].cand = [n \in DOMAIN w.cand \cup {name} |->
                          IF n # name THEN w.cand[n]
                          ELSE IF name = "recent_journal" /\ ~w.journal THEN <<>> ELSE got]]
    BY DEF FetchSection
  <1> DEFINE fetched == IF name = "recent_journal" /\ ~w.journal THEN <<>> ELSE got
             cand == [n \in DOMAIN w.cand \cup {name} |-> IF n # name THEN w.cand[n] ELSE fetched]
             v == [w EXCEPT !.pc = next, !.found = <<>>, !.cand0 = <<>>, !.cand = cand]
  <1>3. name \in Sections
    BY <1>1, SectionsAre DEF NameAt
  <1>4. w.pc # "idle"
    BY <1>1, SectionsAre
  <1>5. PackerOK(w, Shown)
    BY <1>4 DEF PackInv
  <1>6. p \in DOMAIN packer /\ DOMAIN w = PackerFields
    BY <1>5 DEF PackInv, PackerOK
  <1>7. packer' = [packer EXCEPT ![p] = v]
    <2> HIDE DEF name, next
    <2> QED BY <1>2, <1>6 DEF PackerFields
  <1>8. fetched \in Seq(Packable) /\ Current(fetched, w.still, Shown)
    <2> HIDE DEF w, name
    <2>1. Section(w, name) \in Seq(Eligible(w.still, Shown))
      BY <1>3, <1>5, SectionIsCurrent
    <2>2. fetched \in Seq(Eligible(w.still, Shown))
      <3> DEFINE E == Eligible(w.still, Shown)
      <3>1. <<>> \in Seq(E)
        OBVIOUS
      <3>2. fetched = <<>> \/ fetched = got
        OBVIOUS
      <3>3. got = <<>> \/ got = Section(w, name)
        OBVIOUS
      <3> HIDE DEF E, fetched
      <3> QED BY <2>1, <3>1, <3>2, <3>3 DEF E
    <2> HIDE DEF fetched
    <2>3. Eligible(w.still, Shown) \subseteq Packable
      BY DEF Eligible
    <2>4. fetched \in Seq(Packable)
      BY <2>2, <2>3, MembersAreIn
    <2> QED BY <2>2, <2>4, CurrentMeans
  <1>9. next # "done"
    <2>1. CASE name = "archival"
      BY <2>1
    <2>2. CASE name # "archival"
      <3>1. Order[7] = "archival" /\ Place(name) \in 1..7 /\ Order[Place(name)] = name
        BY <1>3, SectionsAre DEF Order
      <3>2. Place(name) + 1 \in 1..7
        <4> HIDE DEF name
        <4> QED BY <2>2, <3>1
      <3>3. Order[Place(name) + 1] \in Sections
        <4> HIDE DEF name
        <4> QED BY <3>2, SectionsAre
      <3> HIDE DEF name
      <3> QED BY <2>2, <3>3, SectionsAre
    <2> QED BY <2>1, <2>2
  <1> HIDE DEF next, fetched, name
  <1>10. /\ DOMAIN cand = DOMAIN w.cand \cup {name}
         /\ \A n \in DOMAIN cand : cand[n] = IF n # name THEN w.cand[n] ELSE fetched
    OBVIOUS
  <1> HIDE DEF cand
  <1>11. /\ DOMAIN v = PackerFields /\ v.pc = next /\ v.cand0 = <<>> /\ v.found = <<>>
         /\ v.budget = w.budget /\ v.cand = cand /\ v.still = w.still
    BY <1>6 DEF PackerFields
  <1> HIDE DEF v, w
  <1>12. \A n \in DOMAIN cand : cand[n] \in Seq(Packable) /\ Current(cand[n], w.still, Shown)
    BY <1>5, <1>8, <1>10 DEF PackerOK
  <1>13. <<>> \in Seq(Notes) /\ Current(<<>>, w.still, Shown)
    BY DEF Current, ToSet
  <1>14. DOMAIN cand \subseteq Sections
    BY <1>3, <1>5, <1>10 DEF PackerOK
  <1>15. PackerOK(v, Shown)
    BY <1>5, <1>9, <1>11, <1>12, <1>13, <1>14 DEF PackerOK
  <1> QED BY <1>1, <1>7, <1>15, OnePackerMoves

(* The pack is made of what was fetched.                                    *)
LEMMA MakePackKeeps == ASSUME PackInv, NEW p \in Packers, MakePack(p) PROVE PackInv'
  <1> DEFINE w == packer[p]
             pack == PackSections(w.cand, w.budget)
             v == [w EXCEPT !.pc = "done", !.pack = pack]
             caps == Caps(w.budget, {n \in DOMAIN w.cand : w.cand[n] # <<>>})
  <1>1. w.pc = "pack" /\ UNCHANGED <<note, vectors>>
    BY DEF MakePack
  <1>2. PackerOK(w, Shown)
    BY <1>1 DEF PackInv
  <1>3. p \in DOMAIN packer /\ DOMAIN w = PackerFields
    BY <1>2 DEF PackInv, PackerOK
  <1>4. packer' = [packer EXCEPT ![p] = v]
    BY <1>3 DEF MakePack, PackerFields
  <1>5. /\ PackedApart(pack, 7, w.cand, caps) /\ Total(Of(DOMAIN caps, caps)) <= w.budget
        /\ DOMAIN caps = {n \in DOMAIN w.cand : w.cand[n] # <<>>}
    <2> HIDE DEF w
    <2> QED BY <1>2, SectionsFit DEF PackerOK
  <1> HIDE DEF pack
  <1>6. /\ DOMAIN v = PackerFields /\ v.pc = "done" /\ v.pack = pack /\ v.cand0 = w.cand0
        /\ v.found = w.found /\ v.budget = w.budget /\ v.cand = w.cand /\ v.still = w.still
    BY <1>3 DEF PackerFields
  <1>7. DOMAIN caps \subseteq Sections
    BY <1>2, <1>5 DEF PackerOK
  <1>8. caps = [n \in DOMAIN caps |-> caps[n]]
    BY DEF Caps
  <1>9. \A n \in DOMAIN w.cand : w.cand[n] \in Seq(Packable) /\ Current(w.cand[n], w.still, Shown)
    BY <1>2 DEF PackerOK
  <1> HIDE DEF v, w, caps
  <1>10. DOMAIN pack = DOMAIN caps
    BY <1>5, <1>7, SectionsAre DEF PackedApart
  <1>11. [n \in DOMAIN pack |-> pack[n].cap] = caps
    BY <1>5, <1>8, <1>10 DEF PackedApart
  <1>12. ASSUME NEW n \in DOMAIN pack
         PROVE  /\ pack[n].used <= pack[n].cap
                /\ pack[n].items \in Seq(Packable) /\ IsInjective(pack[n].items)
                /\ Current(pack[n].items, w.still, Shown)
    <2>1. pack[n].items \in Seq(ToSet(w.cand[n]))
      BY <1>5 DEF PackedApart
    <2>2. n \in DOMAIN w.cand
      BY <1>5, <1>10
    <2>3. ToSet(pack[n].items) \subseteq ToSet(w.cand[n]) /\ ToSet(w.cand[n]) \subseteq Packable
      BY <1>9, <2>1, <2>2, MembersAreIn
    <2>4. pack[n].items \in Seq(Packable)
      BY <2>1, <2>3, MembersAreIn
    <2>5. Current(pack[n].items, w.still, Shown)
      BY <1>9, <2>2, <2>3 DEF Current
    <2> QED BY <1>5, <2>4, <2>5 DEF PackedApart
  <1>13. \A n, o \in DOMAIN pack : n # o => ToSet(pack[n].items) \cap ToSet(pack[o].items) = {}
    BY <1>5 DEF PackedApart
  <1>14. Total(Of(DOMAIN pack, [n \in DOMAIN pack |-> pack[n].cap])) <= w.budget
    BY <1>5, <1>10, <1>11
  <1>15. PackIsFit(v, Shown)
    BY <1>6, <1>12, <1>13, <1>14 DEF PackIsFit
  <1>16. PackerOK(v, Shown)
    BY <1>2, <1>6, <1>15 DEF PackerOK
  <1> QED BY <1>1, <1>4, <1>16, OnePackerMoves

(* Writers end the stillness of what they change.                           *)
LEMMA WritersKeep ==
    ASSUME PackInv, NEW ms, Disturb(ms), Shown \ ms \subseteq Shown'
    PROVE  /\ DOMAIN packer' = Packers
           /\ \A p \in Packers : (packer[p].pc # "idle" => PackerOK(packer[p], Shown))'
  <1>1. DOMAIN packer' = Packers
    BY DEF Disturb
  <1>2. ASSUME NEW p \in Packers PROVE (packer[p].pc # "idle" => PackerOK(packer[p], Shown))'
    <2>1. packer'[p] = IF packer[p].pc = "idle" THEN packer[p]
                       ELSE [packer[p] EXCEPT !.still = @ \ ms]
      BY DEF Disturb
    <2>2. CASE packer[p].pc = "idle"
      BY <2>1, <2>2
    <2>3. CASE packer[p].pc # "idle"
      <3>1. PackerOK(packer[p], Shown)
        BY <2>3 DEF PackInv
      <3>2. PackerOK([packer[p] EXCEPT !.still = @ \ ms], Shown')
        BY <3>1, PackerAmidChange
      <3>3. PackerOK(packer'[p], Shown')
        BY <2>1, <2>3, <3>2
      <3> QED BY <3>3 DEF PackerOK, PackIsFit, Current
    <2> QED BY <2>2, <2>3
  <1> QED BY <1>1, <1>2

\* The rows.
NoteStates == [status : {"absent", "active", "stale", "retired", "superseded"}, sup : Nat]

(* Every step keeps the invariant.                                          *)
LEMMA PackInvKept == PackInv /\ [PackNext]_packVars => PackInv'
  <1> SUFFICES ASSUME PackInv, [PackNext]_packVars PROVE PackInv'
    OBVIOUS
  <1>0. note \in [Notes -> NoteStates]
    BY DEF PackInv, NoteStates
  <1>1. ASSUME NEW m \in Notes, NEW status \in {"stale", "retired"}, SetNote(m, status)
        PROVE  PackInv'
    <2>1. note[m].status \in {"active", "stale"} /\ vectors' = vectors /\ Disturb({m})
          /\ note' = [note EXCEPT ![m].status = status]
      BY <1>1 DEF SetNote
    <2>2. note' \in [Notes -> NoteStates]
      BY <1>0, <2>1 DEF NoteStates
    <2>3. \A x \in Notes : note'[x].sup = note[x].sup
                           /\ note'[x].status = IF x = m THEN status ELSE note[x].status
      BY <1>0, <2>1 DEF NoteStates
    <2>4. Shown \ {m} \subseteq Shown'
      BY <2>3 DEF Shown
    <2>5. \A x \in Notes : note'[x].sup # 0 => note'[x].status = "superseded"
      BY <2>1, <2>3 DEF PackInv
    <2>6. /\ DOMAIN packer' = Packers
          /\ \A p \in Packers : (packer[p].pc # "idle" => PackerOK(packer[p], Shown))'
      BY <2>1, <2>4, WritersKeep
    <2> QED BY <2>1, <2>2, <2>5, <2>6 DEF PackInv, NoteStates
  <1>2. ASSUME NEW m \in Notes, NEW n \in Notes, n > m, Renew(m, n)
        PROVE  PackInv'
    <2>1. /\ note[m].status = "active" /\ note[n].status = "absent" /\ Disturb({m, n})
          /\ note' = [note EXCEPT ![m] = [status |-> "superseded", sup |-> n],
                                  ![n].status = "active"]
          /\ vectors' = vectors
      BY <1>2 DEF Renew
    <2>2. m # n /\ n \in Nat
      <3>1. n \in Nat
        BY NotesAreNumbers
      <3> QED BY <2>1, <3>1
    <2>3. note' \in [Notes -> NoteStates]
      BY <1>0, <2>1, <2>2 DEF NoteStates
    <2>4. \A x \in Notes : /\ x \notin {m, n} => note'[x] = note[x]
                           /\ x = m => note'[x].status = "superseded"
                           /\ x = n => note'[x].sup = note[x].sup
      BY <1>0, <2>1, <2>2 DEF NoteStates
    <2>5. Shown \ {m, n} \subseteq Shown'
      BY <2>4 DEF Shown
    <2>6. \A x \in Notes : note'[x].sup # 0 => note'[x].status = "superseded"
      BY <2>1, <2>2, <2>4 DEF PackInv
    <2>7. /\ DOMAIN packer' = Packers
          /\ \A p \in Packers : (packer[p].pc # "idle" => PackerOK(packer[p], Shown))'
      BY <2>1, <2>5, WritersKeep
    <2> QED BY <2>1, <2>3, <2>6, <2>7 DEF PackInv, NoteStates
  <1>3. CASE SyncVectors
    <2>1. note' = note /\ packer' = packer /\ vectors' \subseteq Notes /\ Shown' = Shown
      BY <1>3 DEF SyncVectors, Shown
    <2>2. ASSUME NEW p \in Packers PROVE (packer[p].pc # "idle" => PackerOK(packer[p], Shown))'
      BY <2>1 DEF PackInv, PackerOK, PackIsFit, Current
    <2> QED BY <2>1, <2>2 DEF PackInv
  <1>4. CASE UNCHANGED packVars
    <2>1. note' = note /\ packer' = packer /\ vectors' = vectors /\ Shown' = Shown
      BY <1>4 DEF packVars, Shown
    <2>2. ASSUME NEW p \in Packers PROVE (packer[p].pc # "idle" => PackerOK(packer[p], Shown))'
      BY <2>1 DEF PackInv, PackerOK, PackIsFit, Current
    <2> QED BY <2>1, <2>2 DEF PackInv
  <1> QED BY <1>1, <1>2, <1>3, <1>4, StartPackKeeps, SearchIndexKeeps, FetchSectionKeeps,
             MakePackKeeps DEF PackNext

(* A pack that is fit holds nothing twice and nothing that was replaced.    *)
LEMMA FitPacksAreSound == PackInv => PackIsSound
  <1> SUFFICES ASSUME PackInv PROVE PackIsSound
    OBVIOUS
  <1>1. ASSUME NEW w \in Packs
        PROVE  PackIsFit(w, Shown) /\ DOMAIN w.pack = DOMAIN w.pack
    BY DEF Packs, PackInv, PackerOK
  <1>2. PackFitsBudget
    BY <1>1 DEF PackFitsBudget, PackIsFit
  <1>3. ASSUME NEW w \in Packs, NEW n \in DOMAIN w.pack, NEW o \in DOMAIN w.pack,
               NEW i \in DOMAIN w.pack[n].items, NEW j \in DOMAIN w.pack[o].items,
               w.pack[n].items[i] = w.pack[o].items[j]
        PROVE  n = o /\ i = j
    <2>1. w.pack[n].items[i] \in ToSet(w.pack[n].items)
          /\ w.pack[o].items[j] \in ToSet(w.pack[o].items)
      BY DEF ToSet
    <2>2. n = o
      BY <1>1, <1>3, <2>1 DEF PackIsFit
    <2>3. IsInjective(w.pack[n].items)
      BY <1>1 DEF PackIsFit
    <2>4. i = j
      BY <1>3, <2>2, <2>3 DEF IsInjective
    <2> QED BY <2>2, <2>4
  <1>4. ASSUME NEW w \in Packs, NEW m \in SeenSoFar(w.pack) \cap Notes \cap w.still
        PROVE  note[m].sup = 0
    <2>1. PICK n \in DOMAIN w.pack : m \in ToSet(w.pack[n].items)
      BY <1>4 DEF SeenSoFar
    <2>2. m \in Shown
      BY <1>1, <2>1 DEF PackIsFit, Current
    <2>3. note[m].status = "active" /\ m \in Notes
      BY <2>2 DEF Shown, Visible
    <2> QED BY <2>3 DEF PackInv
  <1>5. PackedOnce
    BY <1>3, <1>4 DEF PackedOnce
  <1> QED BY <1>2, <1>5 DEF PackIsSound

(* A context pack keeps to its budget, however the shares are rounded, and  *)
(* holds nothing twice (context_pack/api.py, budget.py).                    *)
THEOREM PacksAreSound == PackSpec => []PackIsSound
  <1>1. PackInit => PackInv
    <2> SUFFICES ASSUME PackInit PROVE PackInv
      OBVIOUS
    <2>1. \A m \in Notes : note[m] = [status |-> IF m \in Future THEN "absent" ELSE "active",
                                      sup |-> 0]
      BY DEF PackInit
    <2>2. note \in [Notes -> NoteStates]
      BY DEF PackInit, NoteStates
    <2>3. vectors \subseteq Notes /\ DOMAIN packer = Packers
          /\ \A p \in Packers : packer[p].pc = "idle"
      BY DEF PackInit
    <2> QED BY <2>1, <2>2, <2>3 DEF PackInv, NoteStates
  <1> QED BY <1>1, PackInvKept, FitPacksAreSound, PTL DEF PackSpec

-----------------------------------------------------------------------------
(* Search: no hit was replaced before the call                              *)

CallFields == {"pc", "req", "asked", "got", "rows", "missing", "step", "hits", "truncated",
               "full", "failed", "steady", "over"}

\* A replaced row names a memory that was written for it, and stays as it is.
DocSound ==
    /\ doc = [m \in Corpus |-> doc[m]]
    /\ \A m \in Corpus :
          /\ DOMAIN doc[m] = {"status", "sup"}
          /\ doc[m].status = "absent" => m \in Unborn
          /\ doc[m].status = "superseded" <=> doc[m].sup # 0
          /\ doc[m].sup # 0 => /\ doc[m].sup \in Unborn /\ m < doc[m].sup
                               /\ doc[doc[m].sup].status # "absent"

\* No hit of an answer was replaced before the call, or only by what the
\* search may not see.
NoHitReplaced(w) ==
    \A m \in w.hits \cap w.over :
       w.req.retired /\ CorpusEnv[doc[m].sup] \notin w.req.envs

\* What a call that has begun knows: of a replaced row it has read the last
\* state, and a successor it did not find is out of its sight.
CallSees(w) ==
    /\ DOMAIN w = CallFields /\ DOMAIN w.req = RequestFields /\ w.step \in 0..4
    /\ w.req.retired => \E q \in Queries : q.retired
    /\ w.over \subseteq Corpus /\ \A m \in w.over : doc[m].sup # 0
    /\ DOMAIN w.rows \subseteq Corpus
    /\ \A m \in DOMAIN w.rows : w.rows[m].sup # 0 \/ m \in w.over => w.rows[m] = doc[m]
    /\ \A m \in w.over : doc[m].sup \in w.missing => CorpusEnv[doc[m].sup] \notin w.req.envs
    /\ w.pc = "finish" /\ w.req.follow =>
          \A m \in DOMAIN w.rows : w.rows[m].sup \in DOMAIN w.rows \cup {0} \cup w.missing
    /\ w.pc = "done" /\ ~w.failed /\ w.req.follow => NoHitReplaced(w)

SearchInv ==
    /\ DocSound
    /\ seek = [s \in Seekers |-> seek[s]]
    /\ \A s \in Seekers : seek[s] # Quiet => seek[s].pc # "idle" /\ CallSees(seek[s])

\* No chain of replacements is longer than the search follows, unless nobody
\* asks for superseded memories.
ChainsAreFollowed == Cardinality(Unborn) <= 8 \/ \A q \in Queries : ~q.retired

\* A replaced row stays as it is.
DocKeeps == \A m \in Corpus : doc[m].sup # 0 => doc'[m] = doc[m]

(* The writers replace a memory by a newer one, once.                       *)
LEMMA EditsKeep ==
    ASSUME DocSound, NEW m \in Corpus,
           \/ \E status \in {"stale", "archived", "retired"} : SetStatus(m, status)
           \/ \E n \in Corpus : n > m /\ Replace(m, n)
    PROVE  DocSound' /\ DocKeeps
  <1>1. doc[m].status \in Projected /\ doc[m].sup = 0
    BY DEF SetStatus, Replace, DocSound, Projected
  <1>0. \A x \in Corpus : doc[x].sup # 0 => doc[x].sup \in Corpus
    BY SearchAssumption DEF DocSound
  <1>2. ASSUME NEW status \in {"stale", "archived", "retired"}, SetStatus(m, status)
        PROVE  DocSound' /\ DocKeeps
    <2>1. doc' = [doc EXCEPT ![m].status = status]
      BY <1>2 DEF SetStatus
    <2>2. /\ doc' = [x \in Corpus |-> doc'[x]]
          /\ \A x \in Corpus : x # m => doc'[x] = doc[x]
          /\ doc'[m] = [doc[m] EXCEPT !.status = status]
      BY <2>1 DEF DocSound
    <2>3. DOMAIN doc'[m] = {"status", "sup"} /\ doc'[m].status = status /\ doc'[m].sup = 0
      BY <1>1, <2>2 DEF DocSound
    <2>4. DocKeeps
      BY <1>1, <2>2 DEF DocKeeps
    <2>5. \A x \in Corpus : x # m => doc[x].sup # m
                                     \/ (doc[x].sup = m /\ doc'[m].status # "absent")
      BY <2>3
    <2>6. \A x \in Corpus : x # m /\ doc[x].sup # 0 => doc'[doc[x].sup].status # "absent"
      BY <1>0, <2>2, <2>3 DEF DocSound
    <2> QED BY <2>2, <2>3, <2>4, <2>6 DEF DocSound
  <1>3. ASSUME NEW n \in Corpus, n > m, Replace(m, n) PROVE DocSound' /\ DocKeeps
    <2>1. /\ doc' = [doc EXCEPT ![m] = [status |-> "superseded", sup |-> n],
                                ![n].status = "active"]
          /\ doc[n].status = "absent" /\ n \in Unborn
      BY <1>3 DEF Replace, DocSound
    <2>2. m # n /\ m < n /\ n # 0 /\ doc[n].sup = 0
      <3>1. m \in Nat /\ n \in Nat /\ n > m
        BY <1>3, SearchAssumption
      <3>2. doc[n].status # "superseded" /\ (doc[n].status = "superseded" <=> doc[n].sup # 0)
        BY <2>1 DEF DocSound
      <3> QED BY <3>1, <3>2
    <2>3. /\ doc' = [x \in Corpus |-> doc'[x]]
          /\ \A x \in Corpus : x # m /\ x # n => doc'[x] = doc[x]
          /\ doc'[m] = [status |-> "superseded", sup |-> n]
          /\ doc'[n] = [doc[n] EXCEPT !.status = "active"]
      BY <2>1, <2>2 DEF DocSound
    <2>4. /\ DOMAIN doc'[n] = {"status", "sup"} /\ doc'[n].status = "active" /\ doc'[n].sup = 0
          /\ DOMAIN doc'[m] = {"status", "sup"} /\ doc'[m].status = "superseded"
          /\ doc'[m].sup = n
      BY <2>2, <2>3 DEF DocSound
    <2>5. DocKeeps
      BY <1>1, <2>2, <2>3 DEF DocKeeps
    <2>6. \A x \in Corpus : x # m /\ doc[x].sup # 0 => doc'[doc[x].sup].status # "absent"
      BY <1>0, <2>3, <2>4 DEF DocSound
    <2>7. \A x \in Corpus \ {m, n} :
             /\ DOMAIN doc'[x] = {"status", "sup"}
             /\ doc'[x].status = "absent" => x \in Unborn
             /\ doc'[x].status = "superseded" <=> doc'[x].sup # 0
             /\ doc'[x].sup # 0 => /\ doc'[x].sup \in Unborn /\ x < doc'[x].sup
                                   /\ doc'[doc'[x].sup].status # "absent"
      BY <2>3, <2>6 DEF DocSound
    <2> QED BY <2>1, <2>2, <2>3, <2>4, <2>5, <2>7 DEF DocSound
  <1> QED BY <1>2, <1>3

(* What a call has seen of replaced rows stays true.                        *)
LEMMA SightLasts ==
    ASSUME DocKeeps, NEW w, CallSees(w)
    PROVE  CallSees(w)'
  <1>1. \A m \in w.over : m \in Corpus /\ doc[m].sup # 0 /\ doc'[m] = doc[m]
    BY DEF CallSees, DocKeeps
  <1>2. \A m \in DOMAIN w.rows : w.rows[m].sup # 0 \/ m \in w.over
           => w.rows[m] = doc[m] /\ doc'[m] = doc[m]
    BY <1>1 DEF CallSees, DocKeeps
  <1>3. NoHitReplaced(w) => NoHitReplaced(w)'
    BY <1>1 DEF NoHitReplaced
  <1> QED BY <1>1, <1>2, <1>3 DEF CallSees

(* Between its reads a call forgets nothing of this.                        *)
LEMMA SameSight ==
    ASSUME NEW w, CallSees(w), NEW v, DOMAIN v = CallFields,
           v.req = w.req, v.rows = w.rows, v.missing = w.missing, v.over = w.over,
           v.step = w.step,
           \/ v.pc \notin {"finish", "done"}
           \/ v.pc = "done" /\ v.failed
           \/ v.pc = w.pc /\ v.failed = w.failed /\ v.hits = w.hits
    PROVE  CallSees(v)
  BY DEF CallSees, NoHitReplaced

(* Where nothing is written nothing changes.                                *)
LEMMA SearchRests ==
    ASSUME SearchInv, doc' = doc, seek' = seek
    PROVE  SearchInv'
  <1>1. DocSound'
    BY DEF SearchInv, DocSound
  <1>2. ASSUME NEW s \in Seekers, seek'[s] # Quiet
        PROVE  seek'[s].pc # "idle" /\ CallSees(seek[s])'
    <2>1. seek[s] # Quiet /\ seek[s].pc # "idle" /\ CallSees(seek[s])
      BY <1>2 DEF SearchInv
    <2>2. DocKeeps
      BY DEF DocKeeps
    <2>3. PICK w : w = seek[s]
      OBVIOUS
    <2>4. CallSees(w)'
      BY <2>1, <2>2, <2>3, SightLasts
    <2> QED BY <2>1, <2>3, <2>4 DEF CallSees, NoHitReplaced
  <1> QED BY <1>1, <1>2 DEF SearchInv

(* One call goes on, the rows rest.                                         *)
LEMMA CallGoesOn ==
    ASSUME SearchInv, NEW s \in Seekers, doc' = doc, NEW v,
           seek' = [seek EXCEPT ![s] = v], v.pc # "idle", CallSees(v)
    PROVE  SearchInv'
  <1>1. /\ seek' = [x \in Seekers |-> seek'[x]] /\ seek'[s] = v
        /\ \A x \in Seekers : x # s => seek'[x] = seek[x]
    BY DEF SearchInv
  <1>2. \A w : CallSees(w) => CallSees(w)'
    BY DEF CallSees, NoHitReplaced
  <1>3. DocSound'
    BY DEF SearchInv, DocSound
  <1>4. ASSUME NEW x \in Seekers, seek'[x] # Quiet
        PROVE  seek'[x].pc # "idle" /\ CallSees(seek[x])'
    <2>1. PICK w : w = seek'[x]
      OBVIOUS
    <2>2. w.pc # "idle" /\ CallSees(w)
      BY <1>1, <1>4, <2>1 DEF SearchInv
    <2>3. CallSees(w)'
      BY <1>2, <2>2
    <2> QED BY <2>1, <2>2, <2>3 DEF CallSees, NoHitReplaced
  <1> QED BY <1>1, <1>3, <1>4 DEF SearchInv

(* A chain is walked as the recursion says.                                 *)
LEMMA WalkUnfolds ==
    ASSUME NEW w, NEW x
    PROVE  \E way :
              /\ way = [k \in 0..8 |->
                           IF k = 0 THEN x
                           ELSE LET n == w.rows[way[k - 1]].sup
                                IN  IF n \in DOMAIN w.rows THEN n ELSE way[k - 1]]
              /\ Follow(w, x) = way[8]
  <1> DEFINE hop(y) == LET n == w.rows[y].sup IN IF n \in DOMAIN w.rows THEN n ELSE y
             D == {x} \cup DOMAIN w.rows
             g == [k \in 1..8 |-> [y \in D |-> hop(y)]]
  <1>1. \A y \in D : hop(y) \in D
    OBVIOUS
  <1> HIDE DEF hop, D
  <1>2. PICK f \in [0..8 -> D] : Steps(f, 8, x, g)
    <2>1. \A k \in 1..8 : \A y \in D : g[k][y] \in D
      BY <1>1
    <2>2. x \in D
      BY DEF D
    <2> HIDE DEF g
    <2> QED BY <2>1, <2>2, StepsStay
  <1>3. ASSUME NEW k \in 0..8 PROVE f[k] = IF k = 0 THEN x ELSE hop(f[k - 1])
    <2>1. f[k] = IF k = 0 THEN x ELSE g[k][f[k - 1]]
      BY <1>2 DEF Steps
    <2>2. k # 0 => k \in 1..8 /\ f[k - 1] \in D
      BY <1>2
    <2> QED BY <2>1, <2>2
  <1>4. f = [k \in 0..8 |-> f[k]]
    OBVIOUS
  <1>5. f = [k \in 0..8 |-> IF k = 0 THEN x ELSE hop(f[k - 1])]
    BY <1>3, <1>4
  <1> QED BY <1>5 DEF Follow, hop

(* Nine memories in a row, each written after the one before, are nine.     *)
LEMMA NineInARow ==
    ASSUME NEW S, IsFiniteSet(S), S \subseteq Nat, NEW f,
           \A k \in 1..9 : f[k] \in S, \A k \in 1..8 : f[k] < f[k + 1]
    PROVE  Cardinality(S) >= 9
  <1>1. /\ f[1] < f[2] /\ f[2] < f[3] /\ f[3] < f[4] /\ f[4] < f[5]
        /\ f[5] < f[6] /\ f[6] < f[7] /\ f[7] < f[8] /\ f[8] < f[9]
    <2>1. \A k \in {1, 2, 3, 4, 5, 6, 7, 8} : k \in 1..8
      OBVIOUS
    <2> QED BY <2>1
  <1>2. \A k \in 1..9 : f[k] \in Nat
    OBVIOUS
  <1> DEFINE h == [k \in 1..9 |-> f[k]]
  <1>3. ASSUME NEW i \in 1..9, NEW j \in 1..9, i < j PROVE f[i] < f[j]
    <2>1. i \in {1, 2, 3, 4, 5, 6, 7, 8, 9} /\ j \in {1, 2, 3, 4, 5, 6, 7, 8, 9}
      OBVIOUS
    <2>2. /\ f[1] \in Nat /\ f[2] \in Nat /\ f[3] \in Nat /\ f[4] \in Nat /\ f[5] \in Nat
          /\ f[6] \in Nat /\ f[7] \in Nat /\ f[8] \in Nat /\ f[9] \in Nat
      BY <1>2
    <2> QED BY <1>1, <1>3, <2>1, <2>2
  <1>4. \A i, j \in 1..9 : h[i] = h[j] => i = j
    <2> SUFFICES ASSUME NEW i \in 1..9, NEW j \in 1..9, f[i] = f[j] PROVE i = j
      OBVIOUS
    <2>1. ~(i < j) /\ ~(j < i)
      BY <1>2, <1>3
    <2> QED BY <2>1
  <1>5. h \in Injection(1..9, S)
    BY <1>4 DEF Injection, IsInjective
  <1>6. Cardinality(1..9) = 9
    <2>1. 1 \in Int /\ 9 \in Int
      OBVIOUS
    <2>2. Cardinality(1..9) = IF 1 > 9 THEN 0 ELSE 9 - 1 + 1
      BY <2>1, FS_Interval
    <2> QED BY <2>2
  <1> HIDE DEF h
  <1> QED BY <1>5, <1>6, FS_Injection

(* A hit that was replaced before the call is one that was asked for, and   *)
(* the search does not see its successor.                                   *)
LEMMA KeptUnreplaced ==
    ASSUME ChainsAreFollowed, DocSound, NEW w, CallSees(w), w.pc = "finish", w.req.follow,
           NEW m \in Kept(w) \cap w.over
    PROVE  w.req.retired /\ CorpusEnv[doc[m].sup] \notin w.req.envs
  <1>1. m \in DOMAIN w.rows /\ HitsFor(w, m) # {} /\ w.rows[m].status \in FinalStatuses(w.req)
    BY DEF Kept, Passes
  <1>2. m \in Corpus /\ w.rows[m] = doc[m] /\ doc[m].sup # 0 /\ doc[m].status = "superseded"
    BY <1>1 DEF CallSees, DocSound
  <1>3. w.req.retired
    BY <1>1, <1>2 DEF FinalStatuses
  <1>4. Cardinality(Unborn) <= 8
    BY <1>3 DEF CallSees, ChainsAreFollowed
  <1>5. CASE doc[m].sup \in w.missing
    BY <1>3, <1>5 DEF CallSees
  <1>6. CASE doc[m].sup \in DOMAIN w.rows
    <2>1. PICK x \in DOMAIN w.rows : Follow(w, x) = m
      BY <1>1 DEF HitsFor, Target
    <2>2. PICK way : /\ way = [k \in 0..8 |->
                                   IF k = 0 THEN x
                                   ELSE LET n == w.rows[way[k - 1]].sup
                                        IN  IF n \in DOMAIN w.rows THEN n ELSE way[k - 1]]
                      /\ m = way[8]
      BY <2>1, WalkUnfolds
    <2> DEFINE moves(k) == w.rows[way[k]].sup \in DOMAIN w.rows
    <2>3. /\ way[0] = x
          /\ \A k \in 0..7 : way[k + 1] = IF moves(k) THEN w.rows[way[k]].sup ELSE way[k]
      <3>1. \A k \in 0..8 : way[k] = IF k = 0 THEN x
                                      ELSE LET n == w.rows[way[k - 1]].sup
                                           IN  IF n \in DOMAIN w.rows THEN n ELSE way[k - 1]
        BY <2>2
      <3>2. \A k \in 0..7 : k + 1 \in 0..8 /\ k + 1 # 0 /\ (k + 1) - 1 = k
        OBVIOUS
      <3> QED BY <3>1, <3>2
    <2>4. \A k \in 0..7 : moves(k + 1) => moves(k)
      BY <2>3
    <2>5. moves(8)
      BY <1>2, <1>6, <2>2
    <2>6. \A k \in 0..7 : way[k + 1] \in DOMAIN w.rows <=> (moves(k) \/ way[k] \in DOMAIN w.rows)
      BY <2>3
    <2> HIDE DEF moves
    <2>7. \A k \in 0..8 : moves(k)
      <3> DEFINE stuck == {k \in 0..8 : ~moves(k)}
      <3>1. ASSUME stuck # {} PROVE FALSE
        <4>1. stuck \subseteq 0..8 /\ 8 \in Nat
          OBVIOUS
        <4>2. PICK k \in stuck : \A j \in stuck : k >= j
          BY <3>1, <4>1, Greatest
        <4>3. k \in 0..7 /\ k + 1 \in 0..8 /\ ~(k >= k + 1)
          BY <2>5
        <4>4. moves(k + 1)
          BY <4>2, <4>3
        <4> QED BY <2>4, <4>3, <4>4
      <3> QED BY <3>1
    <2>8. \A k \in 0..7 : way[k + 1] = w.rows[way[k]].sup
      BY <2>3, <2>7
    <2>9. \A k \in 1..8 : way[k] \in DOMAIN w.rows
      <3>1. \A k \in 1..8 : k - 1 \in 0..7 /\ k - 1 \in 0..8 /\ (k - 1) + 1 = k
        OBVIOUS
      <3> QED BY <2>7, <2>8, <3>1 DEF moves
    <2>10. \A k \in 0..8 : way[k] \in DOMAIN w.rows
      <3>1. \A k \in 0..8 : k = 0 \/ k \in 1..8
        OBVIOUS
      <3> QED BY <2>1, <2>3, <2>9, <3>1
    <2>11. ASSUME NEW k \in 0..8
           PROVE  /\ w.rows[way[k]].sup \in Unborn
                  /\ way[k] < w.rows[way[k]].sup
      <3>1. PICK y : y = way[k]
        OBVIOUS
      <3>2. y \in DOMAIN w.rows /\ y \in Corpus /\ w.rows[y].sup \in DOMAIN w.rows
        BY <2>7, <2>10, <3>1 DEF CallSees, moves
      <3>3. w.rows[y].sup # 0
        BY <3>2, SearchAssumption DEF CallSees
      <3>4. w.rows[y] = doc[y]
        BY <3>2, <3>3 DEF CallSees
      <3> QED BY <3>1, <3>2, <3>3, <3>4 DEF DocSound
    <2> DEFINE f == [k \in 1..9 |-> IF k = 9 THEN doc[m].sup ELSE way[k]]
    <2>12. f[9] = doc[m].sup /\ \A k \in 1..8 : f[k] = way[k]
      OBVIOUS
    <2> HIDE DEF f
    <2>13. \A k \in 1..9 : f[k] \in Unborn
      <3>1. f[9] \in Unborn
        BY <1>2, <2>12 DEF DocSound
      <3>2. ASSUME NEW k \in 1..8 PROVE f[k] \in Unborn
        <4>1. k - 1 \in 0..7 /\ k - 1 \in 0..8 /\ (k - 1) + 1 = k
          OBVIOUS
        <4>2. way[k] = w.rows[way[k - 1]].sup
          BY <2>8, <4>1
        <4> QED BY <2>11, <2>12, <4>1, <4>2
      <3>3. \A k \in 1..9 : k = 9 \/ k \in 1..8
        OBVIOUS
      <3> QED BY <3>1, <3>2, <3>3
    <2>14. \A k \in 1..8 : f[k] < f[k + 1]
      <3> SUFFICES ASSUME NEW k \in 1..8 PROVE f[k] < f[k + 1]
        OBVIOUS
      <3>1. k \in 0..8 /\ way[k] < w.rows[way[k]].sup /\ f[k] = way[k]
        BY <2>11, <2>12
      <3>2. CASE k = 8
        <4>1. f[k + 1] = doc[m].sup /\ w.rows[way[k]].sup = doc[m].sup
          <5>1. k + 1 = 9 /\ way[k] = m
            BY <2>2, <3>2
          <5>2. f[k + 1] = doc[m].sup
            BY <2>12, <5>1
          <5> QED BY <1>2, <5>1, <5>2
        <4> QED BY <3>1, <4>1
      <3>3. CASE k # 8
        <4>1. k \in 0..7 /\ k + 1 \in 1..8
          BY <3>3
        <4>2. f[k + 1] = w.rows[way[k]].sup
          BY <2>8, <2>12, <4>1
        <4> QED BY <3>1, <4>2
      <3> QED BY <3>2, <3>3
    <2>15. IsFiniteSet(Unborn) /\ Unborn \subseteq Nat
      BY SearchAssumption, FS_Subset
    <2>16. Cardinality(Unborn) \in Nat /\ Cardinality(Unborn) >= 9
      BY <2>13, <2>14, <2>15, NineInARow, FS_CardinalityType
    <2> QED BY <1>4, <2>16
  <1> QED BY <1>1, <1>2, <1>5, <1>6 DEF CallSees

(* Neither an expansion nor a wider request asks for superseded memories.   *)
LEMMA RequestsKeep ==
    /\ \A q \in Queries : /\ DOMAIN Expanded(q) = RequestFields
                          /\ Expanded(q).retired = q.retired
    /\ \A q : DOMAIN q = RequestFields =>
          \A k \in 1..4 : /\ DOMAIN FallbackStep(k, q) = RequestFields
                         /\ FallbackStep(k, q).retired = q.retired
  <1>1. \A q \in Queries : DOMAIN q = RequestFields
    BY SearchAssumption
  <1>2. \A q : DOMAIN q = RequestFields =>
               /\ DOMAIN Expanded(q) = RequestFields
               /\ Expanded(q).retired = q.retired
    BY DEF Expanded, RequestFields
  <1>3. ASSUME NEW q, DOMAIN q = RequestFields
        PROVE  \A r \in {WidenMode(q), DropFilters(q), WidenLifecycle(q), BoostLimit(q)} :
                  DOMAIN r = RequestFields /\ r.retired = q.retired
    <2>1. DOMAIN WidenMode(q) = RequestFields /\ WidenMode(q).retired = q.retired
      BY <1>3 DEF WidenMode, RequestFields
    <2>2. DOMAIN DropFilters(q) = RequestFields /\ DropFilters(q).retired = q.retired
      BY <1>3 DEF DropFilters, RequestFields
    <2>3. DOMAIN WidenLifecycle(q) = RequestFields /\ WidenLifecycle(q).retired = q.retired
      BY <1>3 DEF WidenLifecycle, RequestFields
    <2>4. DOMAIN BoostLimit(q) = RequestFields /\ BoostLimit(q).retired = q.retired
      BY <1>3 DEF BoostLimit, RequestFields
    <2> QED BY <2>1, <2>2, <2>3, <2>4
  <1>4. ASSUME NEW q, NEW k \in 1..4
        PROVE  FallbackStep(k, q)
                 \in {WidenMode(q), DropFilters(q), WidenLifecycle(q), BoostLimit(q)}
    <2>1. k = 1 \/ k = 2 \/ k = 3 \/ k = 4
      OBVIOUS
    <2> QED BY <2>1 DEF FallbackStep
  <1> QED BY <1>1, <1>2, <1>3, <1>4

(* A call begins: what was replaced by now is over.                         *)
LEMMA CallSets ==
    ASSUME SearchInv, NEW s \in Seekers, Search(s)
    PROVE  SearchInv'
  <1>1. PICK q \in Queries :
           seek' = [seek EXCEPT ![s] =
             [pc |-> IF q.mode = "id" THEN "hydrate" ELSE "legs",
              req |-> Expanded(q), asked |-> Expanded(q),
              got |-> <<>>, rows |-> <<>>, missing |-> {}, step |-> 0,
              hits |-> {}, truncated |-> FALSE, full |-> FALSE, failed |-> FALSE,
              steady |-> Corpus, over |-> {m \in Corpus : doc[m].status = "superseded"}]]
    BY DEF Search
  <1>2. PICK v : v = [pc |-> IF q.mode = "id" THEN "hydrate" ELSE "legs",
                      req |-> Expanded(q), asked |-> Expanded(q),
                      got |-> <<>>, rows |-> <<>>, missing |-> {}, step |-> 0,
                      hits |-> {}, truncated |-> FALSE, full |-> FALSE, failed |-> FALSE,
                      steady |-> Corpus, over |-> {m \in Corpus : doc[m].status = "superseded"}]
    OBVIOUS
  <1>3. /\ DOMAIN v = CallFields /\ v.pc \in {"hydrate", "legs"} /\ v.req = Expanded(q)
        /\ v.rows = <<>> /\ v.missing = {} /\ v.step = 0
        /\ v.over = {m \in Corpus : doc[m].status = "superseded"}
    BY <1>2 DEF CallFields
  <1>4. DOMAIN v.rows = {}
    BY <1>3
  <1>5. CallSees(v)
    BY <1>3, <1>4, RequestsKeep DEF CallSees, SearchInv, DocSound
  <1>6. doc' = doc /\ v.pc # "idle"
    BY <1>3 DEF Search
  <1> QED BY <1>1, <1>2, <1>5, <1>6, CallGoesOn

(* What a call is before it goes on.                                        *)
LEMMA CallOpen ==
    ASSUME SearchInv, NEW s \in Seekers, seek[s].pc # "idle"
    PROVE  CallSees(seek[s]) /\ DOMAIN seek[s] = CallFields
  BY DEF SearchInv, Quiet, CallSees

(* The legs bring candidates only.                                          *)
LEMMA LegsSee ==
    ASSUME SearchInv, NEW s \in Seekers,
           GraphFails(s) \/ \E l \in {"lex", "sem", "graph"} : RunLeg(s, l)
    PROVE  SearchInv'
  <1> DEFINE w == seek[s]
  <1>1. w = seek[s]
    OBVIOUS
  <1>2. w.pc = "legs" /\ doc' = doc
    BY <1>1 DEF GraphFails, RunLeg
  <1>3. CallSees(w) /\ DOMAIN w = CallFields
    BY <1>1, <1>2, CallOpen
  <1>4. ASSUME NEW v, DOMAIN v = CallFields, v.req = w.req, v.rows = w.rows,
               v.missing = w.missing, v.over = w.over, v.step = w.step,
               v.pc \in {"hydrate", "legs"} \/ (v.pc = "done" /\ v.failed),
               seek' = [seek EXCEPT ![s] = v]
        PROVE  SearchInv'
    <2>1. CallSees(v) /\ v.pc # "idle"
      BY <1>3, <1>4, SameSight
    <2> QED BY <1>2, <1>4, <2>1, CallGoesOn
  <1>5. seek = [x \in Seekers |-> seek[x]]
    BY DEF SearchInv
  <1>6. ASSUME NEW l \in {"lex", "sem", "graph"}, RunLeg(s, l) PROVE SearchInv'
    <2>1. PICK got : seek' = [seek EXCEPT ![s].got = got,
                       ![s].full = w.full \/ Len(got[l]) = LegLimit(w.req),
                       ![s].pc = IF DOMAIN got = Legs(w.req) THEN "hydrate" ELSE "legs"]
      BY <1>1, <1>6 DEF RunLeg
    <2>2. PICK pc, full : /\ pc = IF DOMAIN got = Legs(w.req) THEN "hydrate" ELSE "legs"
                          /\ full = (w.full \/ Len(got[l]) = LegLimit(w.req))
      OBVIOUS
    <2>3. PICK v : v = [[[w EXCEPT !.got = got] EXCEPT !.full = full] EXCEPT !.pc = pc]
      OBVIOUS
    <2>4. seek' = [seek EXCEPT ![s] = v]
      BY <1>5, <2>1, <2>2, <2>3
    <2>5. /\ DOMAIN v = CallFields /\ v.req = w.req /\ v.rows = w.rows
          /\ v.missing = w.missing /\ v.over = w.over /\ v.step = w.step
          /\ v.pc \in {"hydrate", "legs"}
      BY <1>3, <2>2, <2>3 DEF CallFields
    <2> QED BY <1>4, <2>4, <2>5
  <1>7. CASE GraphFails(s)
    <2>1. CASE w.req.mode = "graph"
      <3>1. PICK v : v = [[w EXCEPT !.pc = "done"] EXCEPT !.failed = TRUE]
        OBVIOUS
      <3>2. /\ DOMAIN v = CallFields /\ v.req = w.req /\ v.rows = w.rows
            /\ v.missing = w.missing /\ v.over = w.over /\ v.step = w.step
            /\ v.pc = "done" /\ v.failed
        BY <1>3, <3>1 DEF CallFields
      <3>3. seek' = [seek EXCEPT ![s] = v]
        BY <1>5, <1>7, <2>1, <3>1 DEF GraphFails
      <3> QED BY <1>4, <3>2, <3>3
    <2>2. CASE w.req.mode # "graph"
      <3>1. PICK got, pc :
               /\ pc = IF DOMAIN got = Legs(w.req) THEN "hydrate" ELSE "legs"
               /\ seek' = [seek EXCEPT ![s].got = got, ![s].pc = pc]
        BY <1>7, <2>2 DEF GraphFails
      <3>2. PICK v : v = [[w EXCEPT !.got = got] EXCEPT !.pc = pc]
        OBVIOUS
      <3>3. /\ DOMAIN v = CallFields /\ v.req = w.req /\ v.rows = w.rows
            /\ v.missing = w.missing /\ v.over = w.over /\ v.step = w.step
            /\ v.pc \in {"hydrate", "legs"}
        BY <1>3, <3>1, <3>2 DEF CallFields
      <3>4. seek' = [seek EXCEPT ![s] = v]
        BY <1>5, <3>1, <3>2
      <3> QED BY <1>4, <3>3, <3>4
    <2> QED BY <2>1, <2>2
  <1> QED BY <1>6, <1>7

(* One statement reads rows as they are.                                    *)
LEMMA ReadSees ==
    ASSUME SearchInv, NEW s \in Seekers, seek[s].pc \in {"hydrate", "follow"}, NEW ms, Read(s, ms)
    PROVE  SearchInv'
  <1> DEFINE w == seek[s]
  <1>1. w = seek[s]
    OBVIOUS
  <1>2. CallSees(w) /\ DOMAIN w = CallFields /\ w.pc # "done"
    BY <1>1, CallOpen
  <1> DEFINE found == {m \in Corpus : /\ m \in ms /\ doc[m].status # "absent"
                                      /\ CorpusEnv[m] \in w.req.envs}
             rows == [m \in DOMAIN w.rows \cup found |->
                        IF m \in found THEN doc[m] ELSE w.rows[m]]
             missing == w.missing \cup (ms \ found)
             more == w.req.follow /\ ToFollow([w EXCEPT !.rows = rows, !.missing = missing]) # {}
             pc == IF more THEN "follow" ELSE "finish"
             v == [w EXCEPT !.rows = rows, !.missing = missing, !.pc = pc]
  <1>3. doc' = doc
    BY DEF Read
  <1>4. seek' = [seek EXCEPT ![s].rows = rows, ![s].missing = missing, ![s].pc = pc]
    BY DEF Read
  <1> HIDE DEF w
  <1>5. /\ DOMAIN rows = DOMAIN w.rows \cup found
        /\ \A m \in DOMAIN rows : rows[m] = IF m \in found THEN doc[m] ELSE w.rows[m]
    OBVIOUS
  <1>6. \A m \in w.over : doc[m].sup \in Corpus /\ doc[doc[m].sup].status # "absent"
    BY <1>2, SearchAssumption DEF CallSees, SearchInv, DocSound
  <1>7. \A n \in ms \ found :
           n \in Corpus /\ doc[n].status # "absent" => CorpusEnv[n] \notin w.req.envs
    OBVIOUS
  <1>8. found \subseteq Corpus
    OBVIOUS
  <1>9. \A m \in w.over : doc[m].sup \in missing => CorpusEnv[doc[m].sup] \notin w.req.envs
    BY <1>2, <1>6, <1>7 DEF CallSees
  <1>10. ~more /\ w.req.follow =>
            \A m \in DOMAIN rows : rows[m].sup \in DOMAIN rows \cup {0} \cup missing
    <2> SUFFICES ASSUME ~more, w.req.follow
                 PROVE  \A m \in DOMAIN rows : rows[m].sup \in DOMAIN rows \cup {0} \cup missing
      OBVIOUS
    <2> HIDE DEF rows, missing
    <2>1. PICK r : r = [w EXCEPT !.rows = rows, !.missing = missing]
      OBVIOUS
    <2>2. r.rows = rows /\ r.missing = missing
      BY <1>2, <2>1 DEF CallFields
    <2>3. {rows[m].sup : m \in DOMAIN rows} \ (DOMAIN rows \cup {0} \cup missing) = {}
      BY <2>1, <2>2 DEF ToFollow
    <2> QED BY <2>3
  <1> HIDE DEF rows, missing, found, more
  <1>11. /\ DOMAIN v = CallFields /\ v.pc = pc /\ v.req = w.req /\ v.rows = rows
         /\ v.missing = missing /\ v.over = w.over /\ v.step = w.step
    BY <1>2 DEF CallFields
  <1>12. seek' = [seek EXCEPT ![s] = v]
    BY <1>1, <1>2, <1>4 DEF SearchInv, CallFields
  <1>13. v.pc \in {"follow", "finish"} /\ (v.pc = "finish" => ~more)
    BY <1>11
  <1> HIDE DEF v, pc
  <1>14. \A m \in DOMAIN rows : rows[m].sup # 0 \/ m \in w.over => rows[m] = doc[m]
    BY <1>2, <1>5 DEF CallSees
  <1>15. DOMAIN rows \subseteq Corpus
    BY <1>2, <1>5, <1>8 DEF CallSees
  <1>16. CallSees(v)
    BY <1>2, <1>9, <1>10, <1>11, <1>13, <1>14, <1>15 DEF CallSees
  <1> QED BY <1>3, <1>12, <1>13, <1>16, CallGoesOn

(* The answer holds what was kept; an empty one may begin the search anew.  *)
LEMMA ReplySees ==
    ASSUME ChainsAreFollowed, SearchInv, NEW s \in Seekers, Reply(s)
    PROVE  SearchInv'
  <1>1. PICK w : w = seek[s]
    OBVIOUS
  <1>2. w.pc = "finish" /\ doc' = doc
    BY <1>1 DEF Reply
  <1>3. CallSees(w) /\ DOMAIN w = CallFields
    BY <1>1, <1>2, CallOpen
  <1>4. PICK page \in Pages(w) :
          \/ \E k \in 1..4 :
               seek' = [seek EXCEPT ![s] =
                          [w EXCEPT !.pc = "legs", !.req = FallbackStep(k, w.req), !.got = <<>>,
                                    !.step = k, !.rows = <<>>, !.missing = {}, !.full = FALSE]]
          \/ seek' = [seek EXCEPT ![s] =
                        [w EXCEPT !.pc = "done", !.hits = page, !.got = <<>>,
                                  !.rows = <<>>, !.missing = {}, !.step = 0,
                                  !.truncated = Cardinality(Kept(w)) > w.req.limit]]
    <2>1. NextSteps(w.step, w.req) # {} => Min(NextSteps(w.step, w.req)) \in 1..4
      <3>1. w.step \in 0..4
        BY <1>3 DEF CallSees
      <3>2. NextSteps(w.step, w.req) \subseteq 1..4
        BY <3>1 DEF NextSteps
      <3>3. NextSteps(w.step, w.req) # {} =>
              \E x \in NextSteps(w.step, w.req) : \A y \in NextSteps(w.step, w.req) : x <= y
        <4>1. 1..4 \subseteq Nat
          OBVIOUS
        <4> QED BY <3>2, <4>1, Smallest
      <3> QED BY <3>2, <3>3 DEF Min
    <2> QED BY <1>1, <2>1 DEF Reply
  <1>5. ASSUME NEW k \in 1..4, NEW v,
               v = [w EXCEPT !.pc = "legs", !.req = FallbackStep(k, w.req), !.got = <<>>,
                             !.step = k, !.rows = <<>>, !.missing = {}, !.full = FALSE],
               seek' = [seek EXCEPT ![s] = v]
        PROVE  SearchInv'
    <2>1. /\ DOMAIN v = CallFields /\ v.pc = "legs" /\ v.req = FallbackStep(k, w.req)
          /\ v.rows = <<>> /\ v.missing = {} /\ v.over = w.over /\ v.step = k
      BY <1>3, <1>5 DEF CallFields
    <2>2. DOMAIN v.rows = {}
      BY <2>1
    <2>3. DOMAIN v.req = RequestFields /\ v.req.retired = w.req.retired
      BY <1>3, <2>1, RequestsKeep DEF CallSees
    <2>4. CallSees(v)
      BY <1>3, <2>1, <2>2, <2>3 DEF CallSees
    <2> QED BY <1>2, <1>5, <2>1, <2>4, CallGoesOn
  <1>6. ASSUME NEW v, NEW cut,
               v = [w EXCEPT !.pc = "done", !.hits = page, !.got = <<>>, !.rows = <<>>,
                             !.missing = {}, !.step = 0, !.truncated = cut],
               seek' = [seek EXCEPT ![s] = v]
        PROVE  SearchInv'
    <2>1. /\ DOMAIN v = CallFields /\ v.pc = "done" /\ v.req = w.req /\ v.hits = page
          /\ v.rows = <<>> /\ v.missing = {} /\ v.over = w.over /\ v.step = 0
      BY <1>3, <1>6 DEF CallFields
    <2>2. DOMAIN v.rows = {}
      BY <2>1
    <2>3. page \subseteq Kept(w)
      BY DEF Pages, kSubset
    <2>4. w.req.follow => NoHitReplaced(v)
      BY <1>2, <1>3, <2>1, <2>3, KeptUnreplaced DEF NoHitReplaced, SearchInv
    <2>5. CallSees(v)
      BY <1>3, <2>1, <2>2, <2>4 DEF CallSees
    <2> QED BY <1>2, <1>6, <2>1, <2>5, CallGoesOn
  <1> QED BY <1>4, <1>5, <1>6

LEMMA SearchInvInit == SearchInit => SearchInv
  <1> SUFFICES ASSUME SearchInit PROVE SearchInv
    OBVIOUS
  <1>1. \A m \in Corpus :
           doc[m] = [status |-> IF m \in Unborn THEN "absent" ELSE "active", sup |-> 0]
    BY DEF SearchInit
  <1>2. DocSound
    BY <1>1 DEF SearchInit, DocSound
  <1> QED BY <1>2 DEF SearchInit, SearchInv

LEMMA SearchInvNext ==
    ASSUME ChainsAreFollowed, SearchInv, [SearchNext]_searchVars
    PROVE  SearchInv'
  <1>1. CASE UNCHANGED searchVars
    BY <1>1, SearchRests DEF searchVars
  <1>2. ASSUME DocSound', DocKeeps, NEW ms, Unsteady(ms) PROVE SearchInv'
    <2>1. /\ seek' = [s \in Seekers |-> seek'[s]]
          /\ \A s \in Seekers : seek'[s] = IF seek[s].pc = "idle" THEN seek[s]
                                          ELSE [seek[s] EXCEPT !.steady = @ \ ms]
      BY <1>2 DEF Unsteady
    <2>2. ASSUME NEW s \in Seekers, seek'[s] # Quiet
          PROVE  seek'[s].pc # "idle" /\ CallSees(seek[s])'
      <3>1. PICK w, v : w = seek[s] /\ v = seek'[s]
        OBVIOUS
      <3>2. w.pc # "idle" /\ v = [w EXCEPT !.steady = @ \ ms]
        BY <2>1, <2>2, <3>1 DEF SearchInv
      <3>3. CallSees(w) /\ DOMAIN w = CallFields
        BY <3>1, <3>2, CallOpen
      <3>4. /\ DOMAIN v = CallFields /\ v.req = w.req /\ v.rows = w.rows
            /\ v.missing = w.missing /\ v.over = w.over /\ v.step = w.step
            /\ v.pc = w.pc /\ v.failed = w.failed /\ v.hits = w.hits
        BY <3>2, <3>3 DEF CallFields
      <3>5. CallSees(v)
        BY <3>3, <3>4, SameSight
      <3>6. CallSees(v)'
        BY <1>2, <3>5, SightLasts
      <3> QED BY <3>1, <3>2, <3>4, <3>6 DEF CallSees, NoHitReplaced
    <2> QED BY <1>2, <2>1, <2>2 DEF SearchInv
  <1>3. ASSUME NEW m \in Corpus,
               \/ \E status \in {"stale", "archived", "retired"} : SetStatus(m, status)
               \/ \E n \in Corpus : n > m /\ Replace(m, n)
        PROVE  SearchInv'
    <2>1. DocSound' /\ DocKeeps
      BY <1>3, EditsKeep DEF SearchInv
    <2>2. PICK ms : Unsteady(ms)
      BY <1>3 DEF SetStatus, Replace
    <2> QED BY <1>2, <2>1, <2>2
  <1>4. ASSUME NEW m \in Corpus, Reproject(m) PROVE SearchInv'
    BY <1>4, SearchRests DEF Reproject
  <1>5. ASSUME NEW s \in Seekers, Hydrate(s) \/ FollowMore(s) PROVE SearchInv'
    BY <1>5, ReadSees DEF Hydrate, FollowMore
  <1> QED BY <1>1, <1>3, <1>4, <1>5, CallSets, LegsSee, ReplySees DEF SearchNext

(* A search that follows supersessions gives no memory that was replaced    *)
(* before it, whatever a leg or the index still says and whatever is        *)
(* replaced while it reads: it follows up to eight successors, so more      *)
(* replacements in a row, together with a caller who asks for superseded    *)
(* memories, are left out.                                                  *)
THEOREM SearchesFollow ==
    ChainsAreFollowed => (SearchSpec => []SearchFollowsReplacements)
  <1> SUFFICES ASSUME ChainsAreFollowed PROVE SearchSpec => []SearchFollowsReplacements
    OBVIOUS
  <1>1. SearchInit => SearchInv
    BY SearchInvInit
  <1>2. SearchInv /\ [SearchNext]_searchVars => SearchInv'
    BY SearchInvNext
  <1>3. SearchInv => SearchFollowsReplacements
    <2> SUFFICES ASSUME SearchInv, NEW s \in Seekers, seek[s].pc = "done", ~seek[s].failed,
                        seek[s].req.follow, NEW m \in seek[s].hits \cap seek[s].over
                 PROVE  seek[s].req.retired /\ CorpusEnv[doc[m].sup] \notin seek[s].req.envs
      BY DEF SearchFollowsReplacements, Answered
    <2>1. CallSees(seek[s])
      BY CallOpen
    <2> QED BY <2>1 DEF CallSees, NoHitReplaced
  <1> QED BY <1>1, <1>2, <1>3, PTL DEF SearchSpec

-----------------------------------------------------------------------------
(* Search: nothing that suits is left out                                   *)

\* A request the search can run.
Runs(q) == /\ DOMAIN q = RequestFields /\ q.mode \in {"lex", "sem", "graph", "hybrid", "id"}
           /\ q.limit \in Nat \ {0} /\ q.ids \in Seq(Nat)

\* What the first k widenings have made of a request.
Wide(q, k) == /\ k >= 1 => q.mode # "lex"
              /\ k >= 2 => q.kind = "any"
              /\ k >= 3 => q.stale /\ q.archived

\* The lexical leg, when it had room, has every match that keeps still.
LegHasAll(w) ==
    \A m \in w.steady :
       Contains(LexOrder, m) /\ CorpusEnv[m] \in w.req.envs /\ KindFits(w.req, m)
         /\ doc[m].status \in RetrievalStatuses(w.req) => m \in ToSet(w.got["lex"])

\* What a call has gathered of the memories that keep still since it began.
CallGathers(w) ==
    /\ DOMAIN w = CallFields /\ w.step \in 0..4
    /\ w.pc \in {"legs", "hydrate", "follow", "finish", "done"}
    /\ Runs(w.req) /\ Wide(w.req, w.step) /\ w.req.min = w.asked.min
    /\ w.asked.mode \in {"lex", "hybrid"} => w.req.mode \in {"lex", "hybrid"}
    /\ w.steady \subseteq Corpus /\ DOMAIN w.rows \subseteq Corpus
    /\ \A m \in w.steady \cap DOMAIN w.rows : w.rows[m] = doc[m]
    /\ w.pc # "done" /\ ~w.full /\ "lex" \in DOMAIN w.got => LegHasAll(w)
    /\ w.pc \in {"hydrate", "follow", "finish"} /\ w.req.mode \in {"lex", "hybrid"}
         => "lex" \in DOMAIN w.got
    /\ w.pc \in {"follow", "finish"} =>
          \A m \in w.steady \cap Fused(w) :
             doc[m].status # "absent" /\ CorpusEnv[m] \in w.req.envs => m \in DOMAIN w.rows
    /\ w.pc = "done" /\ ~w.failed => HasWhatSuits(w) /\ EmptyForAReason(w)

FindInv ==
    /\ DocSound
    /\ seek = [s \in Seekers |-> seek[s]]
    /\ \A s \in Seekers : seek[s] # Quiet => seek[s].pc # "idle" /\ CallGathers(seek[s])

(* A memory that keeps still and suits the request is kept, once it was     *)
(* read: no successor takes its place.                                      *)
LEMMA SuitsIsKept ==
    ASSUME NEW w, CallGathers(w), w.pc = "finish", ~w.full, NEW m \in w.steady,
           Suits(w, m), doc[m].sup = 0
    PROVE  m \in Kept(w)
  <1>1. /\ m \in Corpus /\ CorpusEnv[m] \in w.req.envs
        /\ doc[m].status \in FinalStatuses(w.req)
    BY DEF CallGathers, Suits
  <1>2. doc[m].status \in RetrievalStatuses(w.req) /\ doc[m].status # "absent"
    BY <1>1 DEF RetrievalStatuses, FinalStatuses
  <1>3. m \in Fused(w)
    <2>1. CASE w.req.mode = "id"
      <3>1. Contains(w.req.ids, m) /\ w.req.ids \in Seq(Nat)
        BY <2>1 DEF Suits, CallGathers, Runs
      <3>2. m \in ToSet(w.req.ids)
        BY <3>1 DEF Contains, ToSet
      <3> QED BY <2>1, <3>2 DEF Fused
    <2>2. CASE w.req.mode # "id"
      <3>1. /\ w.req.mode \in {"lex", "hybrid"} /\ Contains(LexOrder, m) /\ KindFits(w.req, m)
        BY <2>2 DEF Suits
      <3>2. "lex" \in DOMAIN w.got /\ LegHasAll(w)
        BY <3>1 DEF CallGathers
      <3>3. m \in ToSet(w.got["lex"])
        BY <1>1, <1>2, <3>1, <3>2 DEF LegHasAll
      <3> QED BY <2>2, <3>2, <3>3 DEF Fused
    <2> QED BY <2>1, <2>2
  <1>4. m \in DOMAIN w.rows /\ w.rows[m] = doc[m]
    BY <1>1, <1>2, <1>3 DEF CallGathers
  <1>5. Follow(w, m) = m
    <2>1. PICK way : /\ way = [k \in 0..8 |->
                                 IF k = 0 THEN m
                                 ELSE LET n == w.rows[way[k - 1]].sup
                                      IN  IF n \in DOMAIN w.rows THEN n ELSE way[k - 1]]
                     /\ Follow(w, m) = way[8]
      BY WalkUnfolds
    <2>2. w.rows[m].sup \notin DOMAIN w.rows
      BY <1>4, SearchAssumption DEF CallGathers
    <2> DEFINE T == {k \in 0..8 : way[k] = m}
    <2>3. \A k \in 0..8 : way[k] = IF k = 0 THEN m
                                   ELSE LET n == w.rows[way[k - 1]].sup
                                        IN  IF n \in DOMAIN w.rows THEN n ELSE way[k - 1]
      BY <2>1
    <2>4. 0 \in T /\ \A k \in 1..8 : k - 1 \in T => k \in T
      BY <2>2, <2>3
    <2> HIDE DEF T
    <2>5. \A k \in 0..8 : k \in T
      BY <2>4, ByRounds
    <2> QED BY <2>1, <2>5 DEF T
  <1>6. m \in HitsFor(w, m)
    BY <1>3, <1>4, <1>5 DEF HitsFor, Target
  <1>7. Passes(w, m)
    BY <1>1, <1>4 DEF Passes, Suits
  <1> QED BY <1>4, <1>6, <1>7 DEF Kept

(* A page that is not cut holds all that was kept, and an empty one means   *)
(* that nothing was.                                                        *)
LEMMA PagesHold ==
    ASSUME NEW w, CallGathers(w), NEW page \in Pages(w)
    PROVE  /\ page \subseteq Kept(w)
           /\ ~(Cardinality(Kept(w)) > w.req.limit) => page = Kept(w)
           /\ page = {} => Kept(w) = {}
  <1> DEFINE kept == Kept(w)
             size == IF Cardinality(kept) < w.req.limit THEN Cardinality(kept) ELSE w.req.limit
  <1>1. IsFiniteSet(kept)
    <2>1. kept \subseteq Corpus /\ IsFiniteSet(Corpus)
      BY SearchAssumption DEF Kept, CallGathers
    <2> QED BY <2>1, FS_Subset
  <1>2. page \subseteq kept /\ Cardinality(page) = size
    BY DEF Pages, kSubset
  <1>3. Cardinality(kept) \in Nat /\ w.req.limit \in Nat \ {0}
    BY <1>1, FS_CardinalityType DEF CallGathers, Runs
  <1> HIDE DEF kept
  <1>4. ASSUME ~(Cardinality(kept) > w.req.limit) PROVE page = kept
    <2>1. size = Cardinality(kept)
      BY <1>3, <1>4
    <2> QED BY <1>1, <1>2, <2>1, FS_Subset
  <1>5. ASSUME page = {} PROVE kept = {}
    <2>1. Cardinality(page) = 0
      BY <1>5, FS_EmptySet
    <2>2. Cardinality(kept) = 0
      BY <1>2, <1>3, <2>1
    <2> QED BY <1>1, <2>2, FS_EmptySet
  <1> QED BY <1>2, <1>4, <1>5 DEF kept

(* What a call gathered stays true while the rows it speaks of rest.        *)
LEMMA FindsLast ==
    ASSUME NEW w, CallGathers(w), \A m \in w.steady : doc'[m] = doc[m]
    PROVE  CallGathers(w)'
  <1>1. LegHasAll(w) => LegHasAll(w)'
    BY DEF LegHasAll
  <1>2. \A m \in w.steady : Suits(w, m)' <=> Suits(w, m)
    BY DEF Suits
  <1>3. HasWhatSuits(w) => HasWhatSuits(w)'
    BY <1>2 DEF HasWhatSuits
  <1>4. EmptyForAReason(w) => EmptyForAReason(w)'
    BY DEF EmptyForAReason
  <1> QED BY <1>1, <1>3, <1>4 DEF CallGathers

(* It also stays true of fewer memories.                                    *)
LEMMA FewerKeepStill ==
    ASSUME NEW w, CallGathers(w), NEW v, NEW ms, v = [w EXCEPT !.steady = @ \ ms]
    PROVE  CallGathers(v)
  <1>1. /\ DOMAIN v = CallFields /\ v.steady = w.steady \ ms
        /\ v.pc = w.pc /\ v.req = w.req /\ v.asked = w.asked /\ v.got = w.got
        /\ v.rows = w.rows /\ v.step = w.step /\ v.full = w.full /\ v.hits = w.hits
        /\ v.truncated = w.truncated /\ v.failed = w.failed
    BY DEF CallGathers, CallFields
  <1>2. LegHasAll(w) => LegHasAll(v)
    BY <1>1 DEF LegHasAll
  <1>3. \A m : Suits(v, m) <=> Suits(w, m)
    BY <1>1 DEF Suits
  <1>4. HasWhatSuits(w) => HasWhatSuits(v)
    BY <1>1, <1>3 DEF HasWhatSuits
  <1>5. EmptyForAReason(w) => EmptyForAReason(v)
    BY <1>1 DEF EmptyForAReason
  <1>6. Fused(v) = Fused(w)
    BY <1>1 DEF Fused
  <1> QED BY <1>1, <1>2, <1>4, <1>5, <1>6 DEF CallGathers

(* Where nothing is written nothing changes.                                *)
LEMMA FindingRests ==
    ASSUME FindInv, doc' = doc, seek' = seek
    PROVE  FindInv'
  <1>1. DocSound'
    BY DEF FindInv, DocSound
  <1>2. ASSUME NEW s \in Seekers, seek'[s] # Quiet
        PROVE  seek'[s].pc # "idle" /\ CallGathers(seek[s])'
    <2>1. PICK w : w = seek[s] /\ w = seek'[s]
      OBVIOUS
    <2>2. w.pc # "idle" /\ CallGathers(w)
      BY <1>2, <2>1 DEF FindInv
    <2>3. CallGathers(w)'
      BY <2>2, FindsLast
    <2> QED BY <2>1, <2>2, <2>3 DEF CallGathers, LegHasAll, HasWhatSuits, Suits, EmptyForAReason
  <1> QED BY <1>1, <1>2 DEF FindInv

(* One call goes on, the rows rest.                                         *)
LEMMA FindingGoesOn ==
    ASSUME FindInv, NEW s \in Seekers, doc' = doc, NEW v,
           seek' = [seek EXCEPT ![s] = v], CallGathers(v)
    PROVE  FindInv'
  <1>1. /\ seek' = [x \in Seekers |-> seek'[x]] /\ seek'[s] = v
        /\ \A x \in Seekers : x # s => seek'[x] = seek[x]
    BY DEF FindInv
  <1>2. DocSound'
    BY DEF FindInv, DocSound
  <1>3. v.pc # "idle"
    BY DEF CallGathers
  <1>4. ASSUME NEW x \in Seekers, seek'[x] # Quiet
        PROVE  seek'[x].pc # "idle" /\ CallGathers(seek[x])'
    <2>1. PICK w : w = seek'[x]
      OBVIOUS
    <2>2. w.pc # "idle" /\ CallGathers(w)
      BY <1>1, <1>3, <1>4, <2>1 DEF FindInv
    <2>3. CallGathers(w)'
      BY <2>2, FindsLast
    <2> QED BY <2>1, <2>2, <2>3 DEF CallGathers, LegHasAll, HasWhatSuits, Suits, EmptyForAReason
  <1> QED BY <1>1, <1>2, <1>4 DEF FindInv

(* What a call is before it goes on.                                        *)
LEMMA FindingOpen ==
    ASSUME FindInv, NEW s \in Seekers, seek[s].pc # "idle"
    PROVE  CallGathers(seek[s]) /\ DOMAIN seek[s] = CallFields
  BY DEF FindInv, Quiet, CallGathers

(* An expansion or a wider request can be run, and asks for what it did.    *)
LEMMA RequestsRun ==
    /\ \A q \in Queries : Runs(Expanded(q))
    /\ \A q : Runs(q) =>
          \A k \in 1..4 :
             /\ Runs(FallbackStep(k, q))
             /\ FallbackStep(k, q).min = q.min /\ FallbackStep(k, q).envs = q.envs
             /\ q.mode \in {"lex", "hybrid"} => FallbackStep(k, q).mode \in {"lex", "hybrid"}
  <1>1. ASSUME NEW q \in Queries PROVE Runs(Expanded(q))
    <2>1. Runs(q)
      <3>1. \A n \in 1..200 : n \in Nat \ {0}
        OBVIOUS
      <3>2. /\ DOMAIN q = RequestFields /\ q.mode \in {"lex", "sem", "graph", "hybrid", "id"}
            /\ q.limit \in 1..200 /\ q.ids \in Seq(Nat)
        BY SearchAssumption, Zenon
      <3> QED BY <3>1, <3>2 DEF Runs
    <2>2. /\ DOMAIN Expanded(q) = DOMAIN q /\ Expanded(q).mode = q.mode
          /\ Expanded(q).limit = q.limit /\ Expanded(q).ids = q.ids
      BY <2>1 DEF Expanded, Runs, RequestFields
    <2> QED BY <2>1, <2>2 DEF Runs
  <1>2. ASSUME NEW q, Runs(q), NEW k \in 1..4
        PROVE  LET r == FallbackStep(k, q)
               IN  /\ Runs(r) /\ r.min = q.min /\ r.envs = q.envs
                   /\ q.mode \in {"lex", "hybrid"} => r.mode \in {"lex", "hybrid"}
    <2> DEFINE Fits(r) == /\ Runs(r) /\ r.min = q.min /\ r.envs = q.envs
                          /\ q.mode \in {"lex", "hybrid"} => r.mode \in {"lex", "hybrid"}
    <2>1. Fits(WidenMode(q))
      BY <1>2 DEF WidenMode, Runs, RequestFields
    <2>2. Fits(DropFilters(q))
      BY <1>2 DEF DropFilters, Runs, RequestFields
    <2>3. Fits(WidenLifecycle(q))
      BY <1>2 DEF WidenLifecycle, Runs, RequestFields
    <2>4. Fits(BoostLimit(q))
      <3>1. (IF 5 * q.limit < 100 THEN 5 * q.limit ELSE 100) \in Nat \ {0}
        BY <1>2 DEF Runs
      <3> QED BY <1>2, <3>1 DEF BoostLimit, Runs, RequestFields
    <2>5. k = 1 \/ k = 2 \/ k = 3 \/ k = 4
      OBVIOUS
    <2> HIDE DEF Fits
    <2>6. Fits(FallbackStep(k, q))
      BY <2>1, <2>2, <2>3, <2>4, <2>5 DEF FallbackStep
    <2> QED BY <2>6 DEF Fits
  <1> QED BY <1>1, <1>2

(* A step of the fallback that would change nothing has nothing to widen;   *)
(* one that is taken has widened after it.                                  *)
LEMMA StepsWiden ==
    ASSUME NEW q, Runs(q)
    PROVE  /\ FallbackStep(1, q) = q => q.mode # "lex"
           /\ FallbackStep(2, q) = q => q.kind = "any"
           /\ FallbackStep(3, q) = q => q.stale /\ q.archived
           /\ FallbackStep(1, q).mode # "lex" /\ FallbackStep(2, q).kind = "any"
           /\ FallbackStep(3, q).stale /\ FallbackStep(3, q).archived
           /\ \A k \in 2..4 : q.mode # "lex" => FallbackStep(k, q).mode # "lex"
           /\ \A k \in 3..4 : q.kind = "any" => FallbackStep(k, q).kind = "any"
           /\ q.stale /\ q.archived => FallbackStep(4, q).stale /\ FallbackStep(4, q).archived
  <1>1. FallbackStep(1, q) = WidenMode(q)
    BY DEF FallbackStep
  <1>2. FallbackStep(2, q) = DropFilters(q)
    BY DEF FallbackStep
  <1>3. FallbackStep(3, q) = WidenLifecycle(q)
    BY DEF FallbackStep
  <1>4. FallbackStep(4, q) = BoostLimit(q)
    BY DEF FallbackStep
  <1>5. WidenMode(q).mode # "lex" /\ (WidenMode(q) = q => q.mode # "lex")
    BY DEF WidenMode, Runs, RequestFields
  <1>6. /\ DropFilters(q).kind = "any" /\ (DropFilters(q) = q => q.kind = "any")
        /\ DropFilters(q).mode = q.mode
    BY DEF DropFilters, Runs, RequestFields
  <1>7. /\ WidenLifecycle(q).stale = TRUE /\ WidenLifecycle(q).archived = TRUE
        /\ WidenLifecycle(q).mode = q.mode /\ WidenLifecycle(q).kind = q.kind
    BY DEF WidenLifecycle, Runs, RequestFields
  <1>8. WidenLifecycle(q) = q => q.stale /\ q.archived
    BY <1>7
  <1>9. /\ BoostLimit(q).mode = q.mode /\ BoostLimit(q).kind = q.kind
        /\ BoostLimit(q).stale = q.stale /\ BoostLimit(q).archived = q.archived
    BY DEF BoostLimit, Runs, RequestFields
  <1>10. /\ \A k \in 2..4 : k = 2 \/ k = 3 \/ k = 4
         /\ \A k \in 3..4 : k = 3 \/ k = 4
    OBVIOUS
  <1> QED BY <1>1, <1>2, <1>3, <1>4, <1>5, <1>6, <1>7, <1>8, <1>9, <1>10

(* After the first step that still changes the request, it is as wide as    *)
(* its number says; without one it is as wide as can be.                    *)
LEMMA WideAfter ==
    ASSUME NEW q, Runs(q), NEW i \in 0..4, Wide(q, i)
    PROVE  /\ NextSteps(i, q) = {} => Wide(q, 3)
           /\ \A k \in NextSteps(i, q) :
                 (\A j \in NextSteps(i, q) : k <= j) => Wide(FallbackStep(k, q), k)
  <1>1. \A j \in 1..4 : j > i /\ j \notin NextSteps(i, q) => FallbackStep(j, q) = q
    <2> SUFFICES ASSUME NEW j \in 1..4, j > i, j \notin NextSteps(i, q)
                 PROVE  FallbackStep(j, q) = q
      OBVIOUS
    <2>1. j \in i + 1 .. 4
      OBVIOUS
    <2> QED BY <2>1 DEF NextSteps
  <1>2. ASSUME NEW n \in 1..4, \A j \in 1..4 : j < n => j \notin NextSteps(i, q)
        PROVE  Wide(q, n - 1)
    <2>1. n - 1 >= 1 => q.mode # "lex"
      <3>1. 1 > i \/ i >= 1
        OBVIOUS
      <3> QED BY <1>1, <1>2, <3>1, StepsWiden DEF Wide
    <2>2. n - 1 >= 2 => q.kind = "any"
      <3>1. 2 > i \/ i >= 2
        OBVIOUS
      <3> QED BY <1>1, <1>2, <3>1, StepsWiden DEF Wide
    <2>3. n - 1 >= 3 => q.stale /\ q.archived
      <3>1. 3 > i \/ i >= 3
        OBVIOUS
      <3> QED BY <1>1, <1>2, <3>1, StepsWiden DEF Wide
    <2> QED BY <2>1, <2>2, <2>3 DEF Wide
  <1>3. ASSUME NextSteps(i, q) = {} PROVE Wide(q, 3)
    <2>1. Wide(q, 4 - 1)
      BY <1>2, <1>3
    <2> QED BY <2>1
  <1>4. ASSUME NEW k \in NextSteps(i, q), \A j \in NextSteps(i, q) : k <= j
        PROVE  Wide(FallbackStep(k, q), k)
    <2>1. k \in 1..4
      BY DEF NextSteps
    <2>2. \A j \in 1..4 : j < k => j \notin NextSteps(i, q)
      BY <1>4, <2>1
    <2>3. Wide(q, k - 1)
      BY <1>2, <2>1, <2>2
    <2>4. k = 1 \/ k = 2 \/ k = 3 \/ k = 4
      BY <2>1
    <2>5. k >= 1 => FallbackStep(k, q).mode # "lex"
      BY <2>3, <2>4, StepsWiden DEF Wide
    <2>6. k >= 2 => FallbackStep(k, q).kind = "any"
      BY <2>3, <2>4, StepsWiden DEF Wide
    <2>7. k >= 3 => FallbackStep(k, q).stale /\ FallbackStep(k, q).archived
      BY <2>3, <2>4, StepsWiden DEF Wide
    <2> QED BY <2>5, <2>6, <2>7 DEF Wide
  <1> QED BY <1>3, <1>4

(* A call begins with nothing gathered.                                     *)
LEMMA FindingBegins ==
    ASSUME FindInv, NEW s \in Seekers, Search(s)
    PROVE  FindInv'
  <1>1. PICK q \in Queries :
           seek' = [seek EXCEPT ![s] =
             [pc |-> IF q.mode = "id" THEN "hydrate" ELSE "legs",
              req |-> Expanded(q), asked |-> Expanded(q),
              got |-> <<>>, rows |-> <<>>, missing |-> {}, step |-> 0,
              hits |-> {}, truncated |-> FALSE, full |-> FALSE, failed |-> FALSE,
              steady |-> Corpus, over |-> {m \in Corpus : doc[m].status = "superseded"}]]
    BY DEF Search
  <1>2. PICK v : v = [pc |-> IF q.mode = "id" THEN "hydrate" ELSE "legs",
                      req |-> Expanded(q), asked |-> Expanded(q),
                      got |-> <<>>, rows |-> <<>>, missing |-> {}, step |-> 0,
                      hits |-> {}, truncated |-> FALSE, full |-> FALSE, failed |-> FALSE,
                      steady |-> Corpus, over |-> {m \in Corpus : doc[m].status = "superseded"}]
    OBVIOUS
  <1>3. /\ DOMAIN v = CallFields /\ v.pc = IF q.mode = "id" THEN "hydrate" ELSE "legs"
        /\ v.req = Expanded(q) /\ v.asked = Expanded(q)
        /\ v.rows = <<>> /\ v.got = <<>> /\ v.step = 0 /\ v.steady = Corpus
    BY <1>2 DEF CallFields
  <1>4. DOMAIN v.rows = {} /\ DOMAIN v.got = {}
    BY <1>3
  <1>5. Runs(v.req) /\ Wide(v.req, v.step)
    BY <1>3, RequestsRun DEF Wide
  <1>6. v.pc = "hydrate" => v.req.mode = "id"
    <2>1. Expanded(q).mode = q.mode
      BY SearchAssumption DEF Expanded, RequestFields
    <2> QED BY <1>3, <2>1
  <1>7. v.pc \in {"legs", "hydrate"}
    BY <1>3
  <1>8. CallGathers(v)
    BY <1>3, <1>4, <1>5, <1>6, <1>7 DEF CallGathers
  <1> QED BY <1>1, <1>2, <1>8, FindingGoesOn DEF Search

(* The lexical leg brings every match, unless it is full.                   *)
LEMMA LexLegFinds ==
    ASSUME NEW q, Runs(q), Len(LexLeg(q)) # LegLimit(q), NEW m \in Corpus,
           Contains(LexOrder, m), CorpusEnv[m] \in q.envs, KindFits(q, m),
           doc[m].status \in RetrievalStatuses(q)
    PROVE  m \in ToSet(LexLeg(q))
  <1> DEFINE matches == {x \in Fitting(q) : doc[x].status \in RetrievalStatuses(q)}
             all == Among(matches, LexOrder)
  <1>1. LexOrder \in Seq(Corpus)
    BY SearchAssumption, Zenon
  <1>2. m \in matches
    BY DEF Fitting
  <1>3. LegLimit(q) \in Nat
    BY SearchAssumption DEF LegLimit, Runs
  <1>4. LexLeg(q) = First(LegLimit(q), all)
    BY DEF LexLeg
  <1> HIDE DEF matches
  <1>5. all \in Seq(matches \cap Corpus) /\ Contains(all, m)
    BY <1>1, <1>2, AmongOnly, AmongAll
  <1> HIDE DEF all
  <1>6. LexLeg(q) = all
    BY <1>3, <1>4, <1>5, FirstIsAll
  <1> QED BY <1>5, <1>6 DEF Contains, ToSet

(* The legs bring what there is.                                            *)
LEMMA LegsFind ==
    ASSUME FindInv, NEW s \in Seekers,
           GraphFails(s) \/ \E l \in {"lex", "sem", "graph"} : RunLeg(s, l)
    PROVE  FindInv'
  <1>1. PICK w : w = seek[s]
    OBVIOUS
  <1>2. w.pc = "legs" /\ doc' = doc
    BY <1>1 DEF GraphFails, RunLeg
  <1>3. CallGathers(w) /\ DOMAIN w = CallFields
    BY <1>1, <1>2, FindingOpen
  <1>4. seek = [x \in Seekers |-> seek[x]]
    BY DEF FindInv
  <1>5. ASSUME NEW got, NEW full, NEW l, l \in Legs(w.req) \ DOMAIN w.got,
               DOMAIN got = DOMAIN w.got \cup {l}, \A k \in DOMAIN w.got : got[k] = w.got[k],
               full \in BOOLEAN, ~full => ~w.full,
               l = "lex" /\ ~full => got[l] = LexLeg(w.req) /\ Len(LexLeg(w.req)) # LegLimit(w.req),
               NEW pc, pc = IF DOMAIN got = Legs(w.req) THEN "hydrate" ELSE "legs",
               NEW v, v = [[[w EXCEPT !.got = got] EXCEPT !.full = full] EXCEPT !.pc = pc]
        PROVE  CallGathers(v)
    <2>1. /\ DOMAIN v = CallFields /\ v.pc = pc /\ v.got = got /\ v.full = full
          /\ v.req = w.req /\ v.asked = w.asked /\ v.rows = w.rows /\ v.step = w.step
          /\ v.steady = w.steady
      BY <1>3, <1>5 DEF CallFields
    <2>2. ASSUME ~v.full, "lex" \in DOMAIN v.got PROVE LegHasAll(v)
      <3>1. CASE l = "lex"
        <4>1. v.got["lex"] = LexLeg(w.req) /\ Len(LexLeg(w.req)) # LegLimit(w.req)
          BY <1>5, <2>1, <2>2, <3>1
        <4>2. w.steady \subseteq Corpus /\ Runs(w.req)
          BY <1>3 DEF CallGathers
        <4> QED BY <2>1, <4>1, <4>2, LexLegFinds DEF LegHasAll
      <3>2. CASE l # "lex"
        <4>1. "lex" \in DOMAIN w.got /\ ~w.full /\ v.got["lex"] = w.got["lex"]
          BY <1>5, <2>1, <2>2, <3>2
        <4>2. LegHasAll(w)
          BY <1>2, <1>3, <4>1 DEF CallGathers
        <4> QED BY <2>1, <4>1, <4>2 DEF LegHasAll
      <3> QED BY <3>1, <3>2
    <2>3. v.pc \in {"legs", "hydrate"}
      BY <1>5, <2>1
    <2>4. ASSUME v.pc = "hydrate", v.req.mode \in {"lex", "hybrid"} PROVE "lex" \in DOMAIN v.got
      <3>1. DOMAIN v.got = Legs(w.req)
        BY <1>5, <2>1, <2>4
      <3> QED BY <2>1, <2>4, <3>1 DEF Legs
    <2> QED BY <1>3, <2>1, <2>2, <2>3, <2>4 DEF CallGathers
  <1>6. ASSUME NEW l \in {"lex", "sem", "graph"}, RunLeg(s, l) PROVE FindInv'
    <2> DEFINE got == [k \in DOMAIN w.got \cup {l} |-> IF k = l THEN Leg(l, w.req) ELSE w.got[k]]
               full == (w.full \/ Len(got[l]) = LegLimit(w.req)) = TRUE
               pc == IF DOMAIN got = Legs(w.req) THEN "hydrate" ELSE "legs"
    <2>1. /\ seek' = [seek EXCEPT ![s].got = got,
                        ![s].full = w.full \/ Len(got[l]) = LegLimit(w.req), ![s].pc = pc]
          /\ l \in Legs(w.req) \ DOMAIN w.got
      BY <1>1, <1>6 DEF RunLeg
    <2>2. full = (w.full \/ Len(got[l]) = LegLimit(w.req)) /\ full \in BOOLEAN
      OBVIOUS
    <2>3. /\ DOMAIN got = DOMAIN w.got \cup {l} /\ got[l] = Leg(l, w.req)
          /\ \A k \in DOMAIN w.got : got[k] = w.got[k]
      BY <2>1
    <2>4. Leg("lex", w.req) = LexLeg(w.req)
      BY DEF Leg
    <2>5. ~full => ~w.full /\ Len(got[l]) # LegLimit(w.req)
      OBVIOUS
    <2>6. PICK v : v = [[[w EXCEPT !.got = got] EXCEPT !.full = full] EXCEPT !.pc = pc]
      OBVIOUS
    <2>7. pc = IF DOMAIN got = Legs(w.req) THEN "hydrate" ELSE "legs"
      OBVIOUS
    <2> HIDE DEF got, full, pc
    <2>8. CallGathers(v)
      BY <1>5, <2>1, <2>2, <2>3, <2>4, <2>5, <2>6, <2>7
    <2>9. seek' = [seek EXCEPT ![s] = v]
      BY <1>1, <1>4, <2>1, <2>2, <2>6
    <2> QED BY <1>2, <2>8, <2>9, FindingGoesOn
  <1>7. CASE GraphFails(s)
    <2>1. CASE w.req.mode = "graph"
      <3>1. PICK v : v = [[w EXCEPT !.pc = "done"] EXCEPT !.failed = TRUE]
        OBVIOUS
      <3>2. /\ DOMAIN v = CallFields /\ v.req = w.req /\ v.rows = w.rows /\ v.asked = w.asked
            /\ v.step = w.step /\ v.steady = w.steady /\ v.pc = "done" /\ v.failed
        BY <1>3, <3>1 DEF CallFields
      <3>3. seek' = [seek EXCEPT ![s] = v]
        BY <1>1, <1>4, <1>7, <2>1, <3>1 DEF GraphFails
      <3>4. CallGathers(v)
        BY <1>3, <3>2 DEF CallGathers
      <3> QED BY <1>2, <3>3, <3>4, FindingGoesOn
    <2>2. CASE w.req.mode # "graph"
      <3> DEFINE got == [k \in DOMAIN w.got \cup {"graph"} |->
                           IF k = "graph" THEN <<>> ELSE w.got[k]]
                 pc == IF DOMAIN got = Legs(w.req) THEN "hydrate" ELSE "legs"
      <3>1. /\ seek' = [seek EXCEPT ![s].got = got, ![s].pc = pc]
            /\ "graph" \in Legs(w.req) \ DOMAIN w.got
        BY <1>1, <1>7, <2>2 DEF GraphFails
      <3>2. /\ DOMAIN got = DOMAIN w.got \cup {"graph"}
            /\ \A k \in DOMAIN w.got : got[k] = w.got[k]
        BY <3>1
      <3>3. PICK v : v = [[w EXCEPT !.got = got] EXCEPT !.pc = pc]
        OBVIOUS
      <3>4. pc = IF DOMAIN got = Legs(w.req) THEN "hydrate" ELSE "legs"
        OBVIOUS
      <3> HIDE DEF got, pc
      <3>5. /\ DOMAIN v = CallFields /\ v.pc = pc /\ v.got = got /\ v.full = w.full
            /\ v.req = w.req /\ v.asked = w.asked /\ v.rows = w.rows /\ v.step = w.step
            /\ v.steady = w.steady
        BY <1>3, <3>3 DEF CallFields
      <3>6. ASSUME ~v.full, "lex" \in DOMAIN v.got PROVE LegHasAll(v)
        <4>1. "lex" \in DOMAIN w.got /\ ~w.full /\ v.got["lex"] = w.got["lex"]
          BY <3>2, <3>5, <3>6
        <4>2. LegHasAll(w)
          BY <1>2, <1>3, <4>1 DEF CallGathers
        <4> QED BY <3>5, <4>1, <4>2 DEF LegHasAll
      <3>7. v.pc \in {"legs", "hydrate"}
        BY <3>4, <3>5
      <3>8. ASSUME v.pc = "hydrate", v.req.mode \in {"lex", "hybrid"} PROVE "lex" \in DOMAIN v.got
        <4>1. DOMAIN v.got = Legs(w.req)
          BY <3>4, <3>5, <3>8
        <4> QED BY <3>5, <3>8, <4>1 DEF Legs
      <3>9. CallGathers(v)
        BY <1>3, <3>5, <3>6, <3>7, <3>8 DEF CallGathers
      <3>10. seek' = [seek EXCEPT ![s] = v]
        BY <1>1, <1>4, <3>1, <3>3
      <3> QED BY <1>2, <3>9, <3>10, FindingGoesOn
    <2> QED BY <2>1, <2>2
  <1> QED BY <1>6, <1>7

(* One statement reads all it is asked for that is there to be seen.        *)
LEMMA ReadFinds ==
    ASSUME FindInv, NEW s \in Seekers, NEW ms, Read(s, ms),
           \/ seek[s].pc = "hydrate" /\ ms = Fused(seek[s])
           \/ seek[s].pc = "follow"
    PROVE  FindInv'
  <1> DEFINE w == seek[s]
  <1>1. w = seek[s]
    OBVIOUS
  <1>2. CallGathers(w) /\ DOMAIN w = CallFields /\ w.pc \in {"hydrate", "follow"}
    BY <1>1, FindingOpen
  <1> DEFINE found == {m \in Corpus : /\ m \in ms /\ doc[m].status # "absent"
                                      /\ CorpusEnv[m] \in w.req.envs}
             rows == [m \in DOMAIN w.rows \cup found |->
                        IF m \in found THEN doc[m] ELSE w.rows[m]]
             missing == w.missing \cup (ms \ found)
             more == w.req.follow /\ ToFollow([w EXCEPT !.rows = rows, !.missing = missing]) # {}
             pc == IF more THEN "follow" ELSE "finish"
  <1>3. doc' = doc
    BY DEF Read
  <1>4. seek' = [seek EXCEPT ![s].rows = rows, ![s].missing = missing, ![s].pc = pc]
    BY DEF Read
  <1> HIDE DEF w
  <1>5. PICK v : v = [[[w EXCEPT !.rows = rows] EXCEPT !.missing = missing] EXCEPT !.pc = pc]
    OBVIOUS
  <1>6. /\ DOMAIN rows = DOMAIN w.rows \cup found /\ found \subseteq Corpus
        /\ \A m \in DOMAIN rows : rows[m] = IF m \in found THEN doc[m] ELSE w.rows[m]
    OBVIOUS
  <1>7. pc \in {"follow", "finish"}
    OBVIOUS
  <1> HIDE DEF rows, missing, more, pc
  <1>8. /\ DOMAIN v = CallFields /\ v.pc = pc /\ v.req = w.req /\ v.rows = rows
        /\ v.asked = w.asked /\ v.got = w.got /\ v.step = w.step /\ v.full = w.full
        /\ v.steady = w.steady
    BY <1>2, <1>5 DEF CallFields
  <1>9. seek' = [seek EXCEPT ![s] = v]
    BY <1>1, <1>4, <1>5 DEF FindInv
  <1>10. Fused(v) = Fused(w)
    BY <1>8 DEF Fused
  <1>11. ASSUME NEW m \in v.steady \cap Fused(v), doc[m].status # "absent",
                CorpusEnv[m] \in v.req.envs
         PROVE  m \in DOMAIN v.rows
    <2>1. m \in Corpus /\ m \in w.steady \cap Fused(w) /\ CorpusEnv[m] \in w.req.envs
      BY <1>2, <1>8, <1>10, <1>11 DEF CallGathers
    <2>2. CASE w.pc = "hydrate"
      <3>1. m \in found
        BY <1>1, <1>11, <2>1, <2>2
      <3> QED BY <1>6, <1>8, <3>1
    <2>3. CASE w.pc = "follow"
      <3>1. m \in DOMAIN w.rows
        BY <1>2, <1>11, <2>1, <2>3 DEF CallGathers
      <3> QED BY <1>6, <1>8, <3>1
    <2> QED BY <1>2, <2>2, <2>3
  <1> HIDE DEF found
  <1>12. /\ DOMAIN v.rows \subseteq Corpus
         /\ \A m \in v.steady \cap DOMAIN v.rows : v.rows[m] = doc[m]
    BY <1>2, <1>6, <1>8 DEF CallGathers
  <1>13. LegHasAll(w) => LegHasAll(v)
    BY <1>8 DEF LegHasAll
  <1>14. w.pc # "done" /\ v.pc # "done" /\ v.pc # "hydrate"
    BY <1>2, <1>7, <1>8
  <1>15. CallGathers(v)
    BY <1>2, <1>7, <1>8, <1>11, <1>12, <1>13, <1>14 DEF CallGathers
  <1> QED BY <1>3, <1>9, <1>15, FindingGoesOn

(* The answer is complete, or the search begins anew and wider.             *)
LEMMA ReplyFinds ==
    ASSUME FindInv, NEW s \in Seekers, Reply(s)
    PROVE  FindInv'
  <1>1. PICK w : w = seek[s]
    OBVIOUS
  <1>2. w.pc = "finish" /\ doc' = doc
    BY <1>1 DEF Reply
  <1>3. CallGathers(w) /\ DOMAIN w = CallFields
    BY <1>1, <1>2, FindingOpen
  <1> DEFINE steps == NextSteps(w.step, w.req)
             anew(page) == /\ page = {} /\ w.asked.fallback /\ w.asked.mode # "id"
                           /\ steps # {}
  <1>4. PICK page \in Pages(w) :
          \/ anew(page) /\ seek' = [seek EXCEPT ![s] =
                     [w EXCEPT !.pc = "legs", !.req = FallbackStep(Min(steps), w.req),
                               !.got = <<>>, !.step = Min(steps), !.rows = <<>>,
                               !.missing = {}, !.full = FALSE]]
          \/ ~anew(page) /\ seek' = [seek EXCEPT ![s] =
                     [w EXCEPT !.pc = "done", !.hits = page, !.got = <<>>,
                               !.rows = <<>>, !.missing = {}, !.step = 0,
                               !.truncated = Cardinality(Kept(w)) > w.req.limit]]
    BY <1>1 DEF Reply
  <1>5. CASE /\ anew(page)
             /\ seek' = [seek EXCEPT ![s] =
                     [w EXCEPT !.pc = "legs", !.req = FallbackStep(Min(steps), w.req),
                               !.got = <<>>, !.step = Min(steps), !.rows = <<>>,
                               !.missing = {}, !.full = FALSE]]
    <2>1. PICK k : k = Min(steps) /\ k \in steps /\ \A j \in steps : k <= j
      <3>1. w.step \in 0..4
        BY <1>3 DEF CallGathers
      <3>2. steps \subseteq 1..4 /\ steps # {}
        BY <1>5, <3>1 DEF NextSteps
      <3>3. 1..4 \subseteq Nat
        OBVIOUS
      <3> HIDE DEF steps
      <3>4. \E x \in steps : \A y \in steps : x <= y
        BY <3>2, <3>3, Smallest
      <3> QED BY <3>4 DEF Min
    <2>2. k \in 1..4 /\ k \in 0..4
      BY <1>3, <2>1 DEF CallGathers, NextSteps
    <2>3. PICK v : v = [w EXCEPT !.pc = "legs", !.req = FallbackStep(k, w.req), !.got = <<>>,
                             !.step = k, !.rows = <<>>, !.missing = {}, !.full = FALSE]
      OBVIOUS
    <2>4. /\ DOMAIN v = CallFields /\ v.pc = "legs" /\ v.req = FallbackStep(k, w.req)
          /\ v.asked = w.asked /\ v.rows = <<>> /\ v.got = <<>> /\ v.step = k
          /\ v.steady = w.steady
      BY <1>3, <2>3 DEF CallFields
    <2>5. DOMAIN v.rows = {} /\ DOMAIN v.got = {}
      BY <2>4
    <2>6. Runs(w.req) /\ Wide(w.req, w.step) /\ w.step \in 0..4 /\ w.req.min = w.asked.min
      BY <1>3 DEF CallGathers
    <2>7. Runs(v.req) /\ v.req.min = v.asked.min
      BY <2>2, <2>4, <2>6, RequestsRun
    <2>8. Wide(v.req, v.step)
      BY <2>1, <2>4, <2>6, WideAfter
    <2>9. w.asked.mode \in {"lex", "hybrid"} => v.req.mode \in {"lex", "hybrid"}
      BY <1>3, <2>2, <2>4, <2>6, RequestsRun DEF CallGathers
    <2>10. CallGathers(v)
      BY <1>3, <2>2, <2>4, <2>5, <2>7, <2>8, <2>9 DEF CallGathers
    <2> QED BY <1>2, <1>5, <2>1, <2>3, <2>10, FindingGoesOn
  <1>6. CASE /\ ~anew(page)
             /\ seek' = [seek EXCEPT ![s] =
                     [w EXCEPT !.pc = "done", !.hits = page, !.got = <<>>,
                               !.rows = <<>>, !.missing = {}, !.step = 0,
                               !.truncated = Cardinality(Kept(w)) > w.req.limit]]
    <2>1. PICK cut : cut = (Cardinality(Kept(w)) > w.req.limit)
      OBVIOUS
    <2>2. PICK v : v = [w EXCEPT !.pc = "done", !.hits = page, !.got = <<>>, !.rows = <<>>,
                                 !.missing = {}, !.step = 0, !.truncated = cut]
      OBVIOUS
    <2>3. /\ DOMAIN v = CallFields /\ v.pc = "done" /\ v.req = w.req /\ v.hits = page
          /\ v.asked = w.asked /\ v.rows = <<>> /\ v.step = 0 /\ v.full = w.full
          /\ v.truncated = cut /\ v.steady = w.steady
      BY <1>3, <2>2 DEF CallFields
    <2>4. DOMAIN v.rows = {}
      BY <2>3
    <2>5. \A m : Suits(v, m) <=> Suits(w, m)
      BY <2>3 DEF Suits
    <2>6. HasWhatSuits(v)
      <3> SUFFICES ASSUME ~v.truncated, ~v.full, NEW m \in v.steady, Suits(v, m), doc[m].sup = 0
                   PROVE  m \in v.hits
        BY DEF HasWhatSuits
      <3>1. m \in Kept(w)
        BY <1>2, <1>3, <2>3, <2>5, SuitsIsKept
      <3>2. page = Kept(w)
        BY <1>3, <2>1, <2>3, PagesHold
      <3> QED BY <2>3, <3>1, <3>2
    <2>7. EmptyForAReason(v)
      <3> SUFFICES ASSUME v.hits = {}, ~v.full, v.asked.fallback,
                          v.asked.mode \in {"lex", "hybrid"}, v.asked.min = 0,
                          NEW m \in v.steady, CorpusEnv[m] \in v.req.envs,
                          Contains(LexOrder, m), doc[m].status \in {"active", "stale", "archived"}
                   PROVE  FALSE
        BY DEF EmptyForAReason
      <3>1. page = {} /\ steps = {}
        BY <1>6, <2>3
      <3>2. Wide(w.req, 3)
        BY <1>3, <3>1, WideAfter DEF CallGathers
      <3>3. w.req.mode \in {"lex", "hybrid"} /\ w.req.min = 0
        BY <1>3, <2>3 DEF CallGathers
      <3>4. doc[m].status \in FinalStatuses(w.req) /\ KindFits(w.req, m)
        BY <3>2 DEF Wide, FinalStatuses, KindFits
      <3>5. Suits(w, m)
        BY <2>3, <3>3, <3>4 DEF Suits
      <3>6. doc[m].sup = 0
        BY <1>3, <2>3 DEF CallGathers, FindInv, DocSound
      <3>7. m \in Kept(w)
        BY <1>2, <1>3, <2>3, <3>5, <3>6, SuitsIsKept
      <3> QED BY <1>3, <3>1, <3>7, PagesHold
    <2>8. Wide(v.req, 0)
      BY DEF Wide
    <2>9. CallGathers(v)
      BY <1>3, <2>3, <2>4, <2>6, <2>7, <2>8 DEF CallGathers
    <2> QED BY <1>2, <1>6, <2>1, <2>2, <2>9, FindingGoesOn
  <1> QED BY <1>4, <1>5, <1>6

(* The writers move no memory that keeps still.                             *)
LEMMA EditsLeaveStill ==
    ASSUME FindInv, NEW m \in Corpus,
           \/ \E status \in {"stale", "archived", "retired"} : SetStatus(m, status)
           \/ \E n \in Corpus : n > m /\ Replace(m, n)
    PROVE  FindInv'
  <1>1. DocSound'
    BY EditsKeep DEF FindInv
  <1>2. PICK ms : Unsteady(ms) /\ \A x \in Corpus \ ms : doc'[x] = doc[x]
    <2>1. ASSUME NEW status, SetStatus(m, status)
          PROVE  Unsteady({m}) /\ \A x \in Corpus \ {m} : doc'[x] = doc[x]
      BY <2>1 DEF SetStatus, FindInv, DocSound
    <2>2. ASSUME NEW n \in Corpus, Replace(m, n)
          PROVE  Unsteady({m, n}) /\ \A x \in Corpus \ {m, n} : doc'[x] = doc[x]
      BY <2>2 DEF Replace, FindInv, DocSound
    <2> QED BY <2>1, <2>2
  <1>3. /\ seek' = [s \in Seekers |-> seek'[s]]
        /\ \A s \in Seekers : seek'[s] = IF seek[s].pc = "idle" THEN seek[s]
                                        ELSE [seek[s] EXCEPT !.steady = @ \ ms]
    BY <1>2 DEF Unsteady
  <1>4. ASSUME NEW s \in Seekers, seek'[s] # Quiet
        PROVE  seek'[s].pc # "idle" /\ CallGathers(seek[s])'
    <2>1. PICK w, v : w = seek[s] /\ v = seek'[s]
      OBVIOUS
    <2>2. w.pc # "idle" /\ v = [w EXCEPT !.steady = @ \ ms]
      BY <1>3, <1>4, <2>1 DEF FindInv
    <2>3. CallGathers(w)
      BY <2>1, <2>2, FindingOpen
    <2>4. CallGathers(v) /\ v.steady \subseteq Corpus \ ms /\ v.pc # "idle"
      <3>1. CallGathers(v)
        BY <2>2, <2>3, FewerKeepStill
      <3>2. v.steady = w.steady \ ms /\ v.pc = w.pc
        BY <2>2, <2>3 DEF CallGathers, CallFields
      <3> QED BY <2>2, <2>3, <3>1, <3>2 DEF CallGathers
    <2>5. CallGathers(v)'
      BY <1>2, <2>4, FindsLast
    <2> QED BY <2>1, <2>4, <2>5 DEF CallGathers, LegHasAll, HasWhatSuits, Suits, EmptyForAReason
  <1> QED BY <1>1, <1>3, <1>4 DEF FindInv

LEMMA FindInvInit == SearchInit => FindInv
  <1> SUFFICES ASSUME SearchInit PROVE FindInv
    OBVIOUS
  <1>1. \A m \in Corpus :
           doc[m] = [status |-> IF m \in Unborn THEN "absent" ELSE "active", sup |-> 0]
    BY DEF SearchInit
  <1>2. DocSound
    BY <1>1 DEF SearchInit, DocSound
  <1> QED BY <1>2 DEF SearchInit, FindInv

LEMMA FindInvNext == FindInv /\ [SearchNext]_searchVars => FindInv'
  <1> SUFFICES ASSUME FindInv, [SearchNext]_searchVars PROVE FindInv'
    OBVIOUS
  <1>1. CASE UNCHANGED searchVars
    BY <1>1, FindingRests DEF searchVars
  <1>2. ASSUME NEW m \in Corpus, Reproject(m) PROVE FindInv'
    BY <1>2, FindingRests DEF Reproject
  <1>3. ASSUME NEW s \in Seekers, Hydrate(s) PROVE FindInv'
    BY <1>3, ReadFinds DEF Hydrate
  <1>4. ASSUME NEW s \in Seekers, FollowMore(s) PROVE FindInv'
    BY <1>4, ReadFinds DEF FollowMore
  <1> QED BY <1>1, <1>2, <1>3, <1>4, EditsLeaveStill, FindingBegins, LegsFind, ReplyFinds
          DEF SearchNext

(* A search whose legs had room and whose answer was not cut gives every    *)
(* memory that suited the request from the call to the answer, through      *)
(* legs, fusion, supersessions and the filters; and it comes back empty     *)
(* from its fallback only where there was nothing.                          *)
THEOREM SearchesAreComplete ==
    SearchSpec => [](UntruncatedIsComplete /\ EmptyMeansNothing)
  <1>1. FindInv => UntruncatedIsComplete /\ EmptyMeansNothing
    <2> SUFFICES ASSUME FindInv, NEW s \in Seekers, seek[s].pc = "done", ~seek[s].failed
                 PROVE  HasWhatSuits(seek[s]) /\ EmptyForAReason(seek[s])
      BY DEF UntruncatedIsComplete, EmptyMeansNothing, Answered
    <2>1. CallGathers(seek[s])
      BY FindingOpen
    <2> QED BY <2>1 DEF CallGathers
  <1> QED BY <1>1, FindInvInit, FindInvNext, PTL DEF SearchSpec

(* An answer that does not say it was cut is complete: of a search, of a    *)
(* report and of memory_related, whoever calls them side by side.           *)
THEOREM AnswersComplete == AnswersSpec => []AnswersAreComplete
  <1>1. UntruncatedIsComplete /\ EmptyMeansNothing /\ UntruncatedReportsAreComplete
           /\ NeighboursAreNearest => AnswersAreComplete
    BY DEF AnswersAreComplete
  <1> QED BY <1>1, SearchesAreComplete, ReportsAreComplete, RelatedGivesNearest, PTL
          DEF AnswersSpec
=============================================================================
