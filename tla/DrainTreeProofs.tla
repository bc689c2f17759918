--------------------------- MODULE DrainTreeProofs ---------------------------
(***************************************************************************)
(* Proofs about DrainTree, for every set of log lines and every            *)
(* configuration that satisfies the assumptions of that module.            *)
(***************************************************************************)
EXTENDS DrainTree, TLAPS, FiniteSetTheorems, SequenceTheorems, WellFoundedInduction

----------------------------------------------------------------------------
(* Arithmetic and finite sets.                                             *)

\* A non-empty set of naturals has a least element.
LEMMA NatLeast ==
  ASSUME NEW T \in SUBSET Nat, T # {}
  PROVE  \E x \in T : \A y \in T : x <= y
<1>1. PICK x \in T : \A y \in T : <<y, x>> \notin OpToRel(<, Nat)
  BY WFMin, NatLessThanWellFounded
<1>2. \A y \in T : ~(y < x)
  BY <1>1 DEF OpToRel
<1>. QED  BY <1>2

\* Counting by classes: if f is, of each class, the number of its members, the sum
\* of f is the number of all of them.
LEMMA SumOfCounts ==
  ASSUME NEW D, IsFiniteSet(D), NEW T, IsFiniteSet(T), NEW g \in [T -> D], NEW f \in [D -> Nat],
         \A d \in D : f[d] = Cardinality({t \in T : g[t] = d})
  PROVE  SumFunction(f) = Cardinality(T)
<1>. DEFINE Part(s) == {t \in T : g[t] \in s}
            First(s) == CHOOSE x \in s : TRUE
            Step(h) == [s \in SUBSET D |-> IF s = {} THEN 0 ELSE f[First(s)] + h[s \ {First(s)}]]
            iter == CHOOSE h : h = Step(h)
            G == [s \in SUBSET D |-> Cardinality(Part(s))]
<1>1. SumFunction(f) = iter[D]
  <2>1. DOMAIN f = D
    OBVIOUS
  <2>. QED  BY <2>1 DEF SumFunction, SumFunctionOnSet, FoldFunctionOnSet, MapThenFoldSet
<1>2. \A s \in SUBSET D : IsFiniteSet(Part(s)) /\ Cardinality(Part(s)) \in Nat
  BY FS_Subset, FS_CardinalityType
<1>3. ASSUME NEW s \in SUBSET D, s # {}
      PROVE  First(s) \in s /\ G[s] = f[First(s)] + G[s \ {First(s)}]
  <2>. DEFINE x == First(s)
  <2>1. x \in s
    BY <1>3
  <2>2. Part(s) = Part(s \ {x}) \cup Part({x}) /\ Part(s \ {x}) \cap Part({x}) = {}
    BY <2>1
  <2>3. Cardinality(Part(s)) = Cardinality(Part(s \ {x})) + Cardinality(Part({x}))
    <3>. DEFINE A == Part(s \ {x})
                B == Part({x})
    <3>1. IsFiniteSet(A) /\ IsFiniteSet(B)
      BY <1>2, <2>1
    <3>2. Part(s) = A \cup B /\ A \cap B = {}
      BY <2>2
    <3>. HIDE DEF A, B
    <3>3. /\ Cardinality(A \cup B) = Cardinality(A) + Cardinality(B) - Cardinality(A \cap B)
          /\ Cardinality(A) \in Nat /\ Cardinality(B) \in Nat
      BY <3>1, FS_Union, FS_CardinalityType
    <3>4. Cardinality(A \cap B) = 0
      BY <3>2, FS_EmptySet
    <3>5. Cardinality(A \cup B) = Cardinality(A) + Cardinality(B)
      BY <3>3, <3>4
    <3>. QED  BY <3>2, <3>5 DEF A, B
  <2>4. Part({x}) = {t \in T : g[t] = x}
    OBVIOUS
  <2>5. f[x] = Cardinality(Part({x}))
    BY <2>1, <2>4
  <2>6. Cardinality(Part(s \ {x})) \in Nat /\ Cardinality(Part({x})) \in Nat
    BY <1>2, <2>1
  <2>. HIDE DEF Part, x
  <2>7. G[s] = f[x] + G[s \ {x}]
    BY <2>1, <2>3, <2>5, <2>6
  <2>. QED  BY <2>1, <2>7 DEF x
<1>4. G[{}] = 0
  <2>1. Part({}) = {}
    OBVIOUS
  <2>. QED  BY <2>1, FS_EmptySet
<1>5. G = Step(G)
  <2>. HIDE DEF First, Part
  <2>1. \A s \in SUBSET D : G[s] = IF s = {} THEN 0 ELSE f[First(s)] + G[s \ {First(s)}]
    <3>. HIDE DEF G
    <3>. QED  BY <1>3, <1>4
  <2>. QED  BY <2>1
<1>6. iter = Step(iter)
  <2>. HIDE DEF Step, G
  <2>. QED  BY <1>5
<1>. HIDE DEF iter, G, Part
<1>7. iter[{}] = 0 /\ \A s \in SUBSET D : s # {} => iter[s] = f[First(s)] + iter[s \ {First(s)}]
  <2>. HIDE DEF First
  <2>. QED  BY <1>6
<1>8. \A s \in SUBSET D : iter[s] = G[s]
  <2>. DEFINE Bad == {s \in SUBSET D : iter[s] # G[s]}
              Sizes == {Cardinality(s) : s \in Bad}
  <2>. SUFFICES ASSUME Bad # {} PROVE FALSE
    OBVIOUS
  <2>1. Sizes \in SUBSET Nat /\ Sizes # {}
    BY FS_Subset, FS_CardinalityType
  <2>2. PICK s \in Bad : \A q \in Bad : Cardinality(s) <= Cardinality(q)
    <3>1. PICK n \in Sizes : \A m \in Sizes : n <= m
      BY <2>1, NatLeast
    <3>. QED  BY <3>1
  <2>3. s # {}
    BY <1>4, <1>7
  <2>4. First(s) \in s
    BY <1>3, <2>3
  <2>5. Cardinality(s \ {First(s)}) < Cardinality(s)
    <3>. HIDE DEF First
    <3>1. IsFiniteSet(s)
      BY FS_Subset
    <3>2. Cardinality(s \ {First(s)}) = Cardinality(s) - 1 /\ Cardinality(s) \in Nat
      BY <2>4, <3>1, FS_RemoveElement, FS_CardinalityType
    <3>. QED  BY <3>2
  <2>6. s \ {First(s)} \notin Bad
    <3>1. IsFiniteSet(s) /\ IsFiniteSet(s \ {First(s)})
      BY FS_Subset
    <3>2. Cardinality(s) \in Nat /\ Cardinality(s \ {First(s)}) \in Nat
      BY <3>1, FS_CardinalityType
    <3>. HIDE DEF First
    <3>. QED  BY <2>2, <2>5, <3>2
  <2>7. iter[s] = G[s]
    <3>. HIDE DEF First
    <3>. QED  BY <1>3, <1>7, <2>3, <2>6
  <2>. QED  BY <2>7
<1>9. G[D] = Cardinality(T)
  <2>1. Part(D) = T
    BY DEF Part
  <2>. QED  BY <2>1 DEF G
<1>. QED  BY <1>1, <1>8, <1>9

\* A non-empty set of naturals below a bound has a greatest element.
LEMMA NatGreatest ==
  ASSUME NEW T \in SUBSET Nat, T # {}, NEW bound \in Nat, \A x \in T : x <= bound
  PROVE  \E x \in T : \A y \in T : y <= x
<1>. DEFINE U == {bound - x : x \in T}
<1>1. U \in SUBSET Nat /\ U # {}
  <2>1. \A x \in T : x \in Nat /\ bound - x \in Nat
    OBVIOUS
  <2>2. PICK x \in T : TRUE
    OBVIOUS
  <2>3. bound - x \in U
    OBVIOUS
  <2>. QED  BY <2>1, <2>3
<1>2. PICK u \in U : \A y \in U : u <= y
  BY <1>1, NatLeast
<1>3. PICK x \in T : u = bound - x
  BY <1>2
<1>4. \A y \in T : bound - x <= bound - y
  BY <1>2, <1>3
<1>. QED  BY <1>4

\* Multiplication by a natural is monotonic.
LEMMA TimesMonotonic ==
  ASSUME NEW x \in Nat, NEW y \in Nat, x <= y, NEW n \in Nat
  PROVE  y * n >= x * n
<1>1. PICK z \in Nat : y = x + z
  BY y - x \in Nat
<1>2. y * n = x * n + z * n /\ z * n \in Nat /\ x * n \in Nat
  BY <1>1
<1>. QED  BY <1>2

----------------------------------------------------------------------------
(* Tokens and paths.                                                       *)

\* Preprocessing keeps the length and yields tokens.
LEMMA PreprocessType ==
  ASSUME NEW l \in Logs
  PROVE  /\ Preprocess(l) \in Seq(Token)
         /\ Len(Preprocess(l)) = Len(l)
         /\ Len(l) \in Nat
<1>1. l \in Seq(RawToken)
  BY TokenAssumption
<1>2. DOMAIN l = 1..Len(l) /\ Len(l) \in Nat
  BY <1>1
<1>3. \A i \in 1..Len(l) : l[i] \in RawToken
  BY <1>1
<1>4. Preprocess(l) \in [1..Len(l) -> Token]
  BY <1>2, <1>3 DEF Preprocess, RawToken, Token
<1>. QED  BY <1>2, <1>4

\* The path addToTree builds, position by position.
LEMMA LeafPathType ==
  ASSUME NEW tokens \in Seq(Token)
  PROVE  /\ LeafDepth(tokens) \in Nat
         /\ LeafDepth(tokens) <= Len(tokens)
         /\ LeafPath(tokens) \in Seq(Key)
         /\ Len(LeafPath(tokens)) = LeafDepth(tokens)
         /\ \A d \in 1..LeafDepth(tokens) :
              LeafPath(tokens)[d] = IF d = 1 THEN Len(tokens) ELSE tokens[d - 1]
<1>1. LeafDepth(tokens) \in Nat /\ LeafDepth(tokens) <= Len(tokens) /\ Len(tokens) \in Nat
  BY ConfigAssumption DEF LeafDepth
<1>2. \A d \in 1..LeafDepth(tokens) :
        (IF d = 1 THEN Len(tokens) ELSE tokens[d - 1]) \in Key
  <2>. TAKE d \in 1..LeafDepth(tokens)
  <2>1. CASE d = 1
    BY <2>1, <1>1 DEF Key
  <2>2. CASE d # 1
    <3>1. d - 1 \in 1..Len(tokens)
      BY <2>2, <1>1
    <3>. QED  BY <2>2, <3>1 DEF Key
  <2>. QED  BY <2>1, <2>2
<1>3. LeafPath(tokens) \in [1..LeafDepth(tokens) -> Key]
  BY <1>2 DEF LeafPath
<1>. QED  BY <1>1, <1>3 DEF LeafPath

\* The prefixes of a path, position by position.
LEMMA PathPrefixesType ==
  ASSUME NEW path \in Seq(Key)
  PROVE  /\ PathPrefixes(path) \subseteq Seq(Key)
         /\ path \in PathPrefixes(path)
         /\ << >> \in PathPrefixes(path)
         /\ \A d \in 0..Len(path) :
              /\ SubSeq(path, 1, d) \in PathPrefixes(path)
              /\ Len(SubSeq(path, 1, d)) = d
              /\ \A i \in 1..d : SubSeq(path, 1, d)[i] = path[i]
<1>1. Len(path) \in Nat /\ \A i \in 1..Len(path) : path[i] \in Key
  OBVIOUS
<1>2. ASSUME NEW d \in 0..Len(path)
      PROVE  /\ SubSeq(path, 1, d) \in Seq(Key)
             /\ Len(SubSeq(path, 1, d)) = d
             /\ \A i \in 1..d : SubSeq(path, 1, d)[i] = path[i]
  <2>1. \A i \in 1..d : path[i] \in Key
    BY <1>1
  <2>. QED  BY <2>1, <1>1, SubSeqProperties
<1>3. SubSeq(path, 1, Len(path)) = path
  BY SubSeqFull
<1>4. SubSeq(path, 1, 0) = << >>
  BY SubSeqEmpty
<1>5. path \in PathPrefixes(path) /\ << >> \in PathPrefixes(path)
  <2>1. 0 \in 0..Len(path) /\ Len(path) \in 0..Len(path)
    BY <1>1
  <2>2. SubSeq(path, 1, 0) \in PathPrefixes(path) /\ SubSeq(path, 1, Len(path)) \in PathPrefixes(path)
    BY ONLY <2>1 DEF PathPrefixes
  <2>. QED  BY <2>2, <1>3, <1>4
<1>. QED  BY <1>2, <1>5 DEF PathPrefixes

\* A prefix of a prefix is a prefix.
LEMMA PathPrefixesClosed ==
  ASSUME NEW path \in Seq(Key), NEW p \in PathPrefixes(path)
  PROVE  PathPrefixes(p) \subseteq PathPrefixes(path)
<1>1. PICK d \in 0..Len(path) : p = SubSeq(path, 1, d)
  BY DEF PathPrefixes
<1>2. p \in Seq(Key) /\ Len(p) = d /\ \A i \in 1..d : p[i] = path[i]
  BY <1>1, PathPrefixesType
<1>3. ASSUME NEW e \in 0..Len(p)
      PROVE  SubSeq(p, 1, e) = SubSeq(path, 1, e)
  <2>1. e \in 0..Len(path) /\ e <= d
    BY <1>2
  <2>2. SubSeq(p, 1, e) \in Seq(Key) /\ SubSeq(path, 1, e) \in Seq(Key)
    BY <1>2, <2>1, PathPrefixesType
  <2>3. Len(SubSeq(p, 1, e)) = e /\ Len(SubSeq(path, 1, e)) = e
    BY <1>2, <2>1, PathPrefixesType
  <2>4. \A i \in 1..e : SubSeq(p, 1, e)[i] = p[i] /\ SubSeq(path, 1, e)[i] = path[i]
    BY <1>2, <2>1, PathPrefixesType
  <2>5. \A i \in 1..e : SubSeq(p, 1, e)[i] = SubSeq(path, 1, e)[i]
    BY <1>2, <2>1, <2>4
  <2>. QED  BY <2>2, <2>3, <2>5, SeqEqual
<1>. QED  BY <1>2, <1>3 DEF PathPrefixes

\* What TypeOK says of one cluster.
LEMMA HeapType ==
  ASSUME TypeOK, NEW c \in 1..Len(heap)
  PROVE  /\ heap[c] \in ClusterType
         /\ heap[c].Tokens \in Seq(Token)
         /\ heap[c].ID \in TemplateIDs
         /\ heap[c].Size \in Nat
<1>1. heap[c] \in ClusterType
  BY DEF TypeOK
<1>. QED  BY <1>1 DEF ClusterType

----------------------------------------------------------------------------
(* The walk of treeSearch.                                                 *)

\* The walk ends: one of the visited nodes is the deepest.
LEMMA LastVisitedIsDeepest ==
  ASSUME TypeOK, << >> \in DOMAIN tree, NEW tokens \in Seq(Token)
  PROVE  /\ LastVisited(tokens) \in Visited(tokens)
         /\ \A m \in Visited(tokens) : Len(m) <= Len(LastVisited(tokens))
<1>. DEFINE Depths == {Len(m) : m \in Visited(tokens)}
<1>1. \A m \in Visited(tokens) : m \in Seq(Key) /\ Len(m) \in Nat /\ Len(m) <= LeafDepth(tokens)
  BY DEF Visited, TypeOK
<1>2. << >> \in Visited(tokens)
  BY LeafPathType DEF Visited
<1>3. Depths \in SUBSET Nat /\ Depths # {} /\ \A x \in Depths : x <= LeafDepth(tokens)
  BY <1>1, <1>2
<1>4. PICK x \in Depths : \A y \in Depths : y <= x
  BY <1>3, LeafPathType, NatGreatest
<1>5. PICK node \in Visited(tokens) : x = Len(node)
  BY <1>4
<1>6. \A m \in Visited(tokens) : Len(m) <= Len(node)
  BY <1>4, <1>5
<1>. QED  BY <1>5, <1>6 DEF LastVisited

\* Each key of a visited node is the length, the token or the wildcard.
LEMMA VisitedKeys ==
  ASSUME TypeOK, NEW tokens \in Seq(Token), NEW node \in Visited(tokens),
         NEW d \in 1..Len(node)
  PROVE  node[d] = IF d = 1 THEN Len(tokens)
                   ELSE IF Append(SubSeq(node, 1, d - 1), tokens[d - 1]) \in DOMAIN tree
                        THEN tokens[d - 1]
                        ELSE Wild
<1>. DEFINE prefix == SubSeq(node, 1, d - 1)
<1>1. node \in Seq(Key) /\ node[d] = NextKey(prefix, tokens)
  BY DEF Visited, TypeOK
<1>2. Len(prefix) = d - 1 /\ prefix \in Seq(Key)
  BY <1>1, PathPrefixesType
<1>3. (prefix = << >>) <=> (d = 1)
  BY <1>2
<1>. QED  BY <1>1, <1>2, <1>3 DEF NextKey

\* If the leaf of the tokens exists, exact keys lead to it: the walk ends there.
LEMMA ExistingLeafIsReached ==
  ASSUME TypeOK, TreeIsPrefixClosed, NEW tokens \in Seq(Token),
         LeafPath(tokens) \in DOMAIN tree
  PROVE  LastVisited(tokens) = LeafPath(tokens)
<1>. DEFINE leaf == LeafPath(tokens)
            last == LastVisited(tokens)
            depth == LeafDepth(tokens)
<1>1. /\ leaf \in Seq(Key) /\ Len(leaf) = depth /\ depth \in Nat
      /\ \A d \in 1..depth : leaf[d] = IF d = 1 THEN Len(tokens) ELSE tokens[d - 1]
      /\ depth <= Len(tokens)
  BY LeafPathType
<1>2. ASSUME NEW d \in 1..depth
      PROVE  leaf[d] = NextKey(SubSeq(leaf, 1, d - 1), tokens)
  <2>. DEFINE prefix == SubSeq(leaf, 1, d - 1)
  <2>1. /\ d - 1 \in 0..Len(leaf) /\ d \in 0..Len(leaf)
        /\ prefix \in Seq(Key) /\ Len(prefix) = d - 1
        /\ \A i \in 1..(d - 1) : prefix[i] = leaf[i]
    BY <1>1, PathPrefixesType
  <2>2. CASE d = 1
    BY <2>1, <2>2, <1>1 DEF NextKey
  <2>3. CASE d # 1
    <3>1. tokens[d - 1] = leaf[d] /\ leaf[d] \in Key /\ prefix # << >>
      <4>1. leaf[d] \in Key
        BY <1>1
      <4>2. prefix # << >>
        BY <2>1, <2>3
      <4>3. tokens[d - 1] = leaf[d]
        BY <2>3, <1>1
      <4>. QED  BY <4>1, <4>2, <4>3
    <3>2. Append(prefix, leaf[d]) = SubSeq(leaf, 1, d)
      <4>1. /\ SubSeq(leaf, 1, d) \in Seq(Key) /\ Len(SubSeq(leaf, 1, d)) = d
            /\ \A i \in 1..d : SubSeq(leaf, 1, d)[i] = leaf[i]
        BY <2>1, <1>1, PathPrefixesType
      <4>2. /\ Append(prefix, leaf[d]) \in Seq(Key) /\ Len(Append(prefix, leaf[d])) = d
            /\ \A i \in 1..d : Append(prefix, leaf[d])[i] = leaf[i]
        BY <2>1, <3>1, AppendProperties
      <4>3. \A i \in 1..d : Append(prefix, leaf[d])[i] = SubSeq(leaf, 1, d)[i]
        BY <4>1, <4>2
      <4>. QED  BY <4>1, <4>2, <4>3, SeqEqual
    <3>3. SubSeq(leaf, 1, d) \in DOMAIN tree
      BY <2>1, <1>1, PathPrefixesType DEF TreeIsPrefixClosed
    <3>. QED  BY <2>1, <3>1, <3>2, <3>3 DEF NextKey
  <2>. QED  BY <2>2, <2>3
<1>3. leaf \in Visited(tokens)
  BY <1>1, <1>2 DEF Visited
<1>4. /\ last \in Visited(tokens) /\ last \in Seq(Key)
      /\ Len(last) = depth
      /\ \A d \in 1..depth : last[d] = NextKey(SubSeq(last, 1, d - 1), tokens)
  <2>1. last \in Visited(tokens) /\ Len(leaf) <= Len(last)
    BY <1>3, LastVisitedIsDeepest DEF TreeIsPrefixClosed
  <2>2. last \in Seq(Key)
    BY <2>1 DEF Visited, TypeOK
  <2>3. Len(last) = depth
    BY <2>1, <2>2, <1>1 DEF Visited
  <2>. QED  BY <2>1, <2>2, <2>3 DEF Visited
<1>5. \A d \in 1..depth : last[d] = leaf[d]
  <2>. DEFINE Differ == {d \in 1..depth : last[d] # leaf[d]}
  <2>. SUFFICES ASSUME Differ # {} PROVE FALSE
    OBVIOUS
  <2>1. PICK d \in Differ : \A e \in Differ : d <= e
    <3>1. Differ \in SUBSET Nat
      BY <1>1
    <3>. QED  BY <3>1, NatLeast
  <2>2. d \in 1..depth /\ \A i \in 1..(d - 1) : last[i] = leaf[i]
    BY <2>1, <1>1
  <2>3. /\ SubSeq(last, 1, d - 1) \in Seq(Key) /\ SubSeq(leaf, 1, d - 1) \in Seq(Key)
        /\ Len(SubSeq(last, 1, d - 1)) = d - 1 /\ Len(SubSeq(leaf, 1, d - 1)) = d - 1
        /\ \A i \in 1..(d - 1) : SubSeq(last, 1, d - 1)[i] = SubSeq(leaf, 1, d - 1)[i]
    <3>1. d - 1 \in 0..Len(leaf) /\ d - 1 \in 0..Len(last)
      BY <2>2, <1>1, <1>4
    <3>2. /\ SubSeq(last, 1, d - 1) \in Seq(Key) /\ Len(SubSeq(last, 1, d - 1)) = d - 1
          /\ \A i \in 1..(d - 1) : SubSeq(last, 1, d - 1)[i] = last[i]
      BY <3>1, <1>4, PathPrefixesType
    <3>3. /\ SubSeq(leaf, 1, d - 1) \in Seq(Key) /\ Len(SubSeq(leaf, 1, d - 1)) = d - 1
          /\ \A i \in 1..(d - 1) : SubSeq(leaf, 1, d - 1)[i] = leaf[i]
      BY <3>1, <1>1, PathPrefixesType
    <3>. QED  BY <3>2, <3>3, <2>2
  <2>4. SubSeq(last, 1, d - 1) = SubSeq(leaf, 1, d - 1)
    BY <2>3, SeqEqual
  <2>. QED  BY <2>1, <2>2, <2>4, <1>2, <1>4
<1>. QED  BY <1>1, <1>4, <1>5, SeqEqual

\* What findBestMatch is given is the list of a node of the tree, or empty.
LEMMA ReachedType ==
  ASSUME TypeOK, << >> \in DOMAIN tree, NEW tokens \in Seq(Token)
  PROVE  /\ Reached(tokens) \in Seq(1..Len(heap))
         /\ \A k \in DOMAIN Reached(tokens) :
              /\ Reached(tokens) = tree[LastVisited(tokens)]
              /\ Reached(tokens)[k] \in DOMAIN heap
<1>1. LastVisited(tokens) \in DOMAIN tree
  BY LastVisitedIsDeepest DEF Visited
<1>2. tree[LastVisited(tokens)] \in Seq(1..Len(heap)) /\ DOMAIN heap = 1..Len(heap)
  BY <1>1 DEF TypeOK
<1>3. CASE LastVisited(tokens) = << >> /\ LeafDepth(tokens) > 0
  BY <1>2, <1>3 DEF Reached
<1>4. CASE ~(LastVisited(tokens) = << >> /\ LeafDepth(tokens) > 0)
  BY <1>2, <1>4 DEF Reached
<1>. QED  BY <1>3, <1>4

\* With an existing leaf, findBestMatch is given the list of that leaf.
LEMMA ExistingLeafIsSearched ==
  ASSUME TypeOK, TreeIsPrefixClosed, NEW tokens \in Seq(Token),
         LeafPath(tokens) \in DOMAIN tree
  PROVE  Reached(tokens) = tree[LeafPath(tokens)]
<1>1. LastVisited(tokens) = LeafPath(tokens)
  BY ExistingLeafIsReached
<1>2. ~(LeafPath(tokens) = << >> /\ LeafDepth(tokens) > 0)
  BY LeafPathType
<1>. QED  BY <1>1, <1>2 DEF Reached

----------------------------------------------------------------------------
(* Similarity and generalization.                                          *)

\* The number of matches is at most the length, and reaches it by covering.
LEMMA MatchesType ==
  ASSUME NEW t \in Seq(Token), NEW s \in Seq(Token), Len(t) = Len(s)
  PROVE  /\ Matches(t, s) \in Nat
         /\ Matches(t, s) <= Len(s)
         /\ Covers(t, s) <=> Matches(t, s) = Len(s)
<1>1. DOMAIN t = 1..Len(s) /\ Len(s) \in Nat
  OBVIOUS
<1>2. IsFiniteSet(1..Len(s)) /\ Cardinality(1..Len(s)) = Len(s)
  <2>1. \A n \in Nat : IsFiniteSet(1..n) /\ Cardinality(1..n) = n
    BY FS_Interval
  <2>. QED  BY <2>1, <1>1
<1>3. Matching(t, s) \in SUBSET (1..Len(s))
  BY <1>1 DEF Matching
<1>4. /\ IsFiniteSet(Matching(t, s))
      /\ Cardinality(Matching(t, s)) <= Len(s)
      /\ Cardinality(Matching(t, s)) = Len(s) => Matching(t, s) = 1..Len(s)
  BY <1>2, <1>3, FS_Subset
<1>5. Matches(t, s) \in Nat
  BY <1>4, FS_CardinalityType DEF Matches
<1>. QED  BY <1>1, <1>2, <1>4, <1>5 DEF Matches, Covers

\* Covering, position by position.
LEMMA CoversPointwise ==
  ASSUME NEW t \in Seq(Token), NEW s \in Seq(Token)
  PROVE  Covers(t, s) <=> /\ Len(t) = Len(s)
                          /\ \A i \in 1..Len(s) : t[i] = s[i] \/ t[i] = Wild
<1>1. DOMAIN t = 1..Len(t)
  OBVIOUS
<1>. QED  BY <1>1 DEF Covers, Matching

\* A cluster of the searched list whose template covers the tokens is a candidate,
\* whatever the threshold.
LEMMA CoveringIsCandidate ==
  ASSUME TypeOK, NEW tokens \in Seq(Token), tokens # << >>,
         NEW list \in Seq(1..Len(heap)), NEW k \in DOMAIN list,
         Covers(heap[list[k]].Tokens, tokens)
  PROVE  k \in Candidates(list, tokens)
<1>. DEFINE template == heap[list[k]].Tokens
<1>1. list[k] \in 1..Len(heap)
  OBVIOUS
<1>2. template \in Seq(Token)
  BY <1>1, HeapType
<1>3. Len(template) = Len(tokens) /\ Matches(template, tokens) = Len(tokens)
  BY <1>2, MatchesType DEF Covers
<1>4. Len(tokens) \in Nat /\ Len(tokens) > 0
  OBVIOUS
<1>5. SimDen * Len(tokens) >= SimNum * Len(tokens)
  BY <1>4, ConfigAssumption, TimesMonotonic
<1>. QED  BY <1>3, <1>4, <1>5 DEF Candidates

\* The generalized template covers the new line and all that the old one covered.
LEMMA GeneralizeCovers ==
  ASSUME NEW t \in Seq(Token), NEW s \in Seq(Token), Len(t) = Len(s)
  PROVE  /\ Generalize(t, s) \in Seq(Token)
         /\ Len(Generalize(t, s)) = Len(t)
         /\ Covers(Generalize(t, s), s)
         /\ \A u \in Seq(Token) : Covers(t, u) => Covers(Generalize(t, s), u)
<1>1. DOMAIN t = 1..Len(t) /\ Len(t) \in Nat
  OBVIOUS
<1>2. Generalize(t, s) \in [1..Len(t) -> Token]
  BY <1>1 DEF Generalize, Token
<1>3. Generalize(t, s) \in Seq(Token) /\ Len(Generalize(t, s)) = Len(t)
  BY <1>1, <1>2
<1>4. \A i \in 1..Len(t) : Generalize(t, s)[i] = IF t[i] = s[i] THEN t[i] ELSE Wild
  BY <1>1 DEF Generalize
<1>5. Covers(Generalize(t, s), s)
  BY <1>3, <1>4, CoversPointwise
<1>6. ASSUME NEW u \in Seq(Token), Covers(t, u)
      PROVE  Covers(Generalize(t, s), u)
  BY <1>3, <1>4, <1>6, CoversPointwise
<1>. QED  BY <1>3, <1>5, <1>6

\* Merging a line that is already covered changes nothing.
LEMMA GeneralizeCoveredIsIdentity ==
  ASSUME NEW t \in Seq(Token), NEW s \in Seq(Token), Covers(t, s)
  PROVE  Generalize(t, s) = t
<1>1. Len(t) = Len(s) /\ \A i \in 1..Len(s) : t[i] = s[i] \/ t[i] = Wild
  BY CoversPointwise
<1>2. DOMAIN t = 1..Len(t)
  OBVIOUS
<1>3. \A i \in 1..Len(t) : Generalize(t, s)[i] = t[i]
  BY <1>1, <1>2 DEF Generalize
<1>4. Generalize(t, s) \in Seq(Token) /\ Len(Generalize(t, s)) = Len(t)
  BY <1>1, GeneralizeCovers
<1>. QED  BY <1>3, <1>4, SeqEqual

\* The update of a cluster found by the walk leaves the cluster in its leaf: on
\* the exact edges of the walk the line agrees with the template, on the wildcard
\* edges the template has the wildcard already.
LEMMA GeneralizeKeepsLeaf ==
  ASSUME TypeOK, NEW tokens \in Seq(Token), NEW t \in Seq(Token), Len(t) = Len(tokens),
         LeafPath(t) \in Visited(tokens)
  PROVE  LeafPath(Generalize(t, tokens)) = LeafPath(t)
<1>. DEFINE g == Generalize(t, tokens)
            depth == LeafDepth(t)
<1>1. g \in Seq(Token) /\ Len(g) = Len(t)
  BY GeneralizeCovers
<1>2. LeafDepth(g) = depth
  BY <1>1 DEF LeafDepth
<1>3. /\ depth \in Nat /\ depth <= Len(t) /\ Len(LeafPath(t)) = depth /\ LeafPath(t) \in Seq(Key)
      /\ \A d \in 1..depth : LeafPath(t)[d] = IF d = 1 THEN Len(t) ELSE t[d - 1]
  BY LeafPathType
<1>4. /\ Len(LeafPath(g)) = depth /\ LeafPath(g) \in Seq(Key)
      /\ \A d \in 1..depth : LeafPath(g)[d] = IF d = 1 THEN Len(g) ELSE g[d - 1]
  BY <1>1, <1>2, LeafPathType
<1>5. ASSUME NEW d \in 1..depth, d # 1
      PROVE  g[d - 1] = t[d - 1]
  <2>1. LeafPath(t)[d] = tokens[d - 1] \/ LeafPath(t)[d] = Wild
    BY <1>3, <1>5, VisitedKeys
  <2>2. t[d - 1] = tokens[d - 1] \/ t[d - 1] = Wild
    BY <2>1, <1>3, <1>5
  <2>3. d - 1 \in DOMAIN t
    BY <1>3, <1>5
  <2>. QED  BY <2>2, <2>3 DEF Generalize
<1>6. \A d \in 1..depth : LeafPath(g)[d] = LeafPath(t)[d]
  BY <1>1, <1>3, <1>4, <1>5
<1>. QED  BY <1>3, <1>4, <1>6, SeqEqual

----------------------------------------------------------------------------
(* The parsed Parse returns.                                              *)

\* The number of a variable is a natural.
LEMMA VarNumberType ==
  ASSUME NEW t \in Seq(Token), NEW i \in 1..Len(t)
  PROVE  VarNumber(t, i) \in Nat
<1>. DEFINE before == {j \in Wildcards(t) : j < i}
<1>1. before \in SUBSET (1..Len(t)) /\ Len(t) \in Nat
  BY DEF Wildcards
<1>2. \A n \in Nat : IsFiniteSet(1..n)
  BY FS_Interval
<1>3. IsFiniteSet(before)
  BY <1>1, <1>2, FS_Subset
<1>. QED  BY <1>3, FS_CardinalityType DEF VarNumber

\* A result for a line that fits the template is well typed.
LEMMA ParseResultType ==
  ASSUME NEW l \in Logs, NEW cluster \in ClusterType, Len(cluster.Tokens) = Len(l),
         NEW isNew \in BOOLEAN
  PROVE  ParseResult(l, cluster, isNew) \in ResultType
<1>. DEFINE template == cluster.Tokens
<1>1. template \in Seq(Token) /\ cluster.ID \in TemplateIDs
  BY DEF ClusterType
<1>2. l \in Seq(RawToken)
  BY TokenAssumption
<1>3. \A i \in Wildcards(template) : i \in 1..Len(template) /\ l[i] \in RawToken
  BY <1>1, <1>2 DEF Wildcards
<1>4. \A i \in Wildcards(template) : VarNumber(template, i) \in Nat
  BY <1>1, <1>3, VarNumberType
<1>5. ExtractVariables(template, l) \in SUBSET (Nat \X RawToken)
  BY <1>3, <1>4 DEF ExtractVariables
<1>. QED  BY <1>1, <1>5 DEF ParseResult, ResultType

----------------------------------------------------------------------------
(* The inductive invariant.                                                *)

LEMMA InitIndInv == Init => IndInv
<1>. SUFFICES ASSUME Init PROVE IndInv
  OBVIOUS
<1>1. heap = << >> /\ clusters = << >> /\ parsed = << >> /\ DOMAIN tree = {<< >>}
      /\ tree[<< >>] = << >>
  BY DEF Init
<1>2. DOMAIN heap = {} /\ DOMAIN clusters = {} /\ Len(heap) = 0
  BY <1>1
<1>3. TypeOK
  <2>1. heap \in Seq(ClusterType) /\ parsed \in Seq(ResultType)
    BY <1>1
  <2>2. DOMAIN tree \subseteq Seq(Key) /\ \A node \in DOMAIN tree : tree[node] \in Seq(1..Len(heap))
    <3>1. << >> \in Seq(Key) /\ << >> \in Seq(1..Len(heap))
      BY EmptySeq
    <3>. QED  BY <1>1, <3>1
  <2>. QED  BY <1>2, <2>1, <2>2 DEF TypeOK
<1>4. PathPrefixes(<< >>) = {<< >>}
  <2>1. PathPrefixes(<< >>) = {SubSeq(<< >>, 1, d) : d \in {0}}
    BY Len(<< >>) = 0, 0..0 = {0} DEF PathPrefixes
  <2>2. SubSeq(<< >>, 1, 0) = << >>
    BY SubSeqEmpty
  <2>3. PathPrefixes(<< >>) = {SubSeq(<< >>, 1, 0)}
    BY <2>1, Zenon
  <2>. QED  BY <2>2, <2>3
<1>. QED  BY <1>1, <1>2, <1>3, <1>4 DEF IndInv, TreeIsPrefixClosed, ClustersFounded,
            PathAgreesWithTemplate, UniqueIDs, DistinctTemplates

\* A call that returns an error touches nothing.
LEMMA ParseEmptyIndInv ==
  ASSUME IndInv, NEW l \in Logs, ParseEmpty(l)
  PROVE  IndInv'
<1>1. ErrorResult(l) \in ResultType
  BY DEF ErrorResult, ResultType
<1>2. TypeOK'
  BY <1>1 DEF IndInv, TypeOK, ParseEmpty
<1>. QED  BY <1>2 DEF IndInv, ParseEmpty, TreeIsPrefixClosed, ClustersFounded,
            PathAgreesWithTemplate, UniqueIDs, DistinctTemplates

\* When Parse founds a cluster, no cluster of the leaf covers the tokens: it would
\* have been a candidate.
LEMMA NewTokensAreUncovered ==
  ASSUME IndInv, NEW tokens \in Seq(Token), tokens # << >>,
         Candidates(Reached(tokens), tokens) = {}, NEW c \in DOMAIN heap,
         Covers(heap[c].Tokens, tokens)
  PROVE  LeafPath(heap[c].Tokens) # LeafPath(tokens)
<1>. SUFFICES ASSUME LeafPath(heap[c].Tokens) = LeafPath(tokens) PROVE FALSE
  OBVIOUS
<1>1. LeafPath(tokens) \in DOMAIN tree /\ \E k \in DOMAIN tree[LeafPath(tokens)] : tree[LeafPath(tokens)][k] = c
  BY DEF IndInv, PathAgreesWithTemplate
<1>2. Reached(tokens) = tree[LeafPath(tokens)]
  BY <1>1, ExistingLeafIsSearched DEF IndInv
<1>3. PICK k \in DOMAIN Reached(tokens) : Reached(tokens)[k] = c
  BY <1>1, <1>2
<1>4. Reached(tokens) \in Seq(1..Len(heap))
  BY ReachedType DEF IndInv, TreeIsPrefixClosed
<1>. QED  BY <1>3, <1>4, CoveringIsCandidate DEF IndInv

\* The nodes and the lists of the tree after addToTree.
LEMMA AddToTreeType ==
  ASSUME TypeOK, TreeIsPrefixClosed, NEW tokens \in Seq(Token)
  PROVE  LET leaf == LeafPath(tokens)
             new  == AddToTree(Len(heap) + 1, leaf)
         IN  /\ DOMAIN new = DOMAIN tree \cup PathPrefixes(leaf)
             /\ leaf \in DOMAIN new
             /\ \A node \in DOMAIN new :
                  /\ node # leaf => new[node] = ClustersAt(node)
                  /\ ClustersAt(node) \in Seq(1..Len(heap))
                  /\ new[node] \in Seq(1..(Len(heap) + 1))
                  /\ node \in Seq(Key)
                  /\ PathPrefixes(node) \subseteq DOMAIN new
             /\ new[leaf] = Append(ClustersAt(leaf), Len(heap) + 1)
<1>. DEFINE new == AddToTree(Len(heap) + 1, LeafPath(tokens))
<1>. DEFINE leaf == LeafPath(tokens)
<1>1. leaf \in Seq(Key)
  BY LeafPathType
<1>2. PathPrefixes(leaf) \subseteq Seq(Key) /\ leaf \in PathPrefixes(leaf)
  BY <1>1, PathPrefixesType
<1>3. DOMAIN new = DOMAIN tree \cup PathPrefixes(leaf)
  BY DEF AddToTree
<1>4. \A node \in DOMAIN new :
        new[node] = IF node = leaf THEN Append(ClustersAt(node), Len(heap) + 1)
                                   ELSE ClustersAt(node)
  BY DEF AddToTree
<1>5. ASSUME NEW node \in DOMAIN new
      PROVE  /\ ClustersAt(node) \in Seq(1..Len(heap))
             /\ new[node] \in Seq(1..(Len(heap) + 1))
  <2>1. ClustersAt(node) \in Seq(1..Len(heap))
    <3>1. << >> \in Seq(1..Len(heap))
      BY EmptySeq
    <3>. QED  BY <3>1 DEF ClustersAt, TypeOK
  <2>2. Len(heap) \in Nat
    BY DEF TypeOK
  <2>3. 1..Len(heap) \subseteq 1..(Len(heap) + 1) /\ Len(heap) + 1 \in 1..(Len(heap) + 1)
    BY <2>2
  <2>4. ClustersAt(node) \in Seq(1..(Len(heap) + 1))
    BY <2>1, <2>3, SeqMonotonic
  <2>5. Append(ClustersAt(node), Len(heap) + 1) \in Seq(1..(Len(heap) + 1))
    BY <2>3, <2>4, AppendProperties
  <2>. QED  BY <2>1, <2>4, <2>5, <1>4
<1>6. \A node \in DOMAIN new : node \in Seq(Key)
  BY <1>2, <1>3 DEF TypeOK
<1>7. \A node \in DOMAIN new : PathPrefixes(node) \subseteq DOMAIN new
  BY <1>1, <1>3, PathPrefixesClosed DEF TreeIsPrefixClosed
<1>. QED  BY <1>2, <1>3, <1>4, <1>5, <1>6, <1>7

LEMMA ParseNewIndInv ==
  ASSUME IndInv, NEW l \in Logs, NEW ts \in Timestamps, ParseNew(l, ts)
  PROVE  IndInv'
<1>. DEFINE tokens == Preprocess(l)
            cluster == NewCluster(tokens, ts)
            pointer == Len(heap) + 1
            leaf == LeafPath(tokens)
<1>1. /\ Len(l) > 0
      /\ Candidates(Reached(tokens), tokens) = {}
      /\ heap' = Append(heap, cluster)
      /\ DOMAIN clusters' = DOMAIN clusters \cup {cluster.ID}
      /\ \A id \in DOMAIN clusters' :
           clusters'[id] = IF id = cluster.ID THEN pointer ELSE clusters[id]
      /\ tree' = AddToTree(pointer, leaf)
      /\ parsed' = Append(parsed, ParseResult(l, cluster, TRUE))
  BY DEF ParseNew
<1>2. tokens \in Seq(Token) /\ Len(tokens) = Len(l) /\ tokens # << >>
  BY <1>1, PreprocessType
<1>3. cluster \in ClusterType /\ cluster.Tokens = tokens /\ cluster.ID = Hash(tokens)
  BY <1>2 DEF NewCluster, ClusterType, TemplateIDs
<1>4. /\ heap \in Seq(ClusterType) /\ heap' \in Seq(ClusterType)
      /\ Len(heap) \in Nat /\ Len(heap') = pointer
      /\ DOMAIN heap = 1..Len(heap) /\ DOMAIN heap' = 1..pointer
      /\ heap'[pointer] = cluster
      /\ \A c \in DOMAIN heap : heap'[c] = heap[c]
  BY <1>1, <1>3 DEF IndInv, TypeOK
<1>5. TypeOK /\ TreeIsPrefixClosed
  BY DEF IndInv
<1>6. /\ DOMAIN tree' = DOMAIN tree \cup PathPrefixes(leaf)
      /\ leaf \in DOMAIN tree'
      /\ \A node \in DOMAIN tree' :
           /\ node # leaf => tree'[node] = ClustersAt(node)
           /\ ClustersAt(node) \in Seq(1..Len(heap))
           /\ tree'[node] \in Seq(1..pointer)
           /\ node \in Seq(Key)
           /\ PathPrefixes(node) \subseteq DOMAIN tree'
      /\ tree'[leaf] = Append(ClustersAt(leaf), pointer)
  BY <1>1, <1>2, <1>5, AddToTreeType
<1>7. \A c \in DOMAIN heap : ~(Covers(heap[c].Tokens, tokens) /\ LeafPath(heap[c].Tokens) = leaf)
  BY <1>1, <1>2, NewTokensAreUncovered
<1>8. TypeOK'
  <2>1. ParseResult(l, cluster, TRUE) \in ResultType
    BY <1>2, <1>3, ParseResultType
  <2>2. parsed' \in Seq(ResultType)
    <3>1. parsed \in Seq(ResultType)
      BY <1>5 DEF TypeOK
    <3>. QED  BY <1>1, <2>1, <3>1, AppendProperties
  <2>3. DOMAIN clusters' \subseteq TemplateIDs
    BY <1>1, <1>3, <1>5 DEF TypeOK, ClusterType
  <2>4. \A id \in DOMAIN clusters' : clusters'[id] \in 1..Len(heap')
    BY <1>1, <1>4, <1>5 DEF TypeOK
  <2>. QED  BY <1>4, <1>6, <2>2, <2>3, <2>4 DEF TypeOK
<1>9. TreeIsPrefixClosed'
  BY <1>5, <1>6 DEF TreeIsPrefixClosed
<1>10. ClustersFounded'
  <2>1. Covers(tokens, tokens)
    BY <1>2, CoversPointwise
  <2>2. ASSUME NEW c \in DOMAIN heap', c # pointer
        PROVE  c \in DOMAIN heap /\ heap'[c] = heap[c]
    BY <1>4, <2>2
  <2>. QED  BY <1>3, <1>4, <2>1, <2>2 DEF IndInv, ClustersFounded
<1>11. PathAgreesWithTemplate'
  <2>1. \A node \in DOMAIN tree : ClustersAt(node) = tree[node]
    BY DEF ClustersAt
  <2>2. \A node \in DOMAIN tree' : \A k \in DOMAIN ClustersAt(node) :
          /\ ClustersAt(node)[k] \in DOMAIN heap
          /\ node = LeafPath(heap[ClustersAt(node)[k]].Tokens)
    BY <1>4, <1>6 DEF ClustersAt, IndInv, PathAgreesWithTemplate
  <2>3. /\ DOMAIN ClustersAt(leaf) = 1..Len(ClustersAt(leaf))
        /\ Len(ClustersAt(leaf)) \in Nat
        /\ DOMAIN tree'[leaf] = 1..(Len(ClustersAt(leaf)) + 1)
        /\ tree'[leaf][Len(ClustersAt(leaf)) + 1] = pointer
        /\ \A k \in DOMAIN ClustersAt(leaf) : tree'[leaf][k] = ClustersAt(leaf)[k]
    BY <1>6
  <2>4. ASSUME NEW c \in DOMAIN heap'
        PROVE  LET at == LeafPath(heap'[c].Tokens)
               IN  at \in DOMAIN tree' /\ \E k \in DOMAIN tree'[at] : tree'[at][k] = c
    <3>1. CASE c = pointer
      <4>1. Len(ClustersAt(leaf)) + 1 \in DOMAIN tree'[leaf]
        BY <2>3
      <4>. QED  BY <3>1, <4>1, <2>3, <1>3, <1>4, <1>6
    <3>2. CASE c # pointer
      <4>. DEFINE at == LeafPath(heap[c].Tokens)
      <4>1. c \in DOMAIN heap /\ heap'[c] = heap[c]
        BY <3>2, <1>4
      <4>2. at \in DOMAIN tree /\ \E k \in DOMAIN ClustersAt(at) : ClustersAt(at)[k] = c
        BY <4>1, <2>1 DEF IndInv, PathAgreesWithTemplate
      <4>3. PICK k \in DOMAIN ClustersAt(at) : ClustersAt(at)[k] = c
        BY <4>2
      <4>4. k \in DOMAIN tree'[at] /\ tree'[at][k] = c
        <5>1. CASE at = leaf
          BY <5>1, <4>3, <2>3
        <5>2. CASE at # leaf
          BY <5>2, <4>2, <4>3, <1>6
        <5>. QED  BY <5>1, <5>2
      <4>. QED  BY <4>1, <4>2, <4>4, <1>6
    <3>. QED  BY <3>1, <3>2
  <2>5. ASSUME NEW node \in DOMAIN tree', NEW k \in DOMAIN tree'[node]
        PROVE  node = LeafPath(heap'[tree'[node][k]].Tokens)
    <3>1. CASE node = leaf /\ k = Len(ClustersAt(leaf)) + 1
      BY <3>1, <2>3, <1>3, <1>4
    <3>2. CASE ~(node = leaf /\ k = Len(ClustersAt(leaf)) + 1)
      <4>1. k \in DOMAIN ClustersAt(node) /\ tree'[node][k] = ClustersAt(node)[k]
        <5>1. CASE node = leaf
          <6>1. k \in 1..(Len(ClustersAt(leaf)) + 1) /\ k # Len(ClustersAt(leaf)) + 1
            BY <5>1, <3>2, <2>3
          <6>2. k \in DOMAIN ClustersAt(leaf)
            BY <6>1, <2>3
          <6>. QED  BY <5>1, <6>2, <2>3
        <5>2. CASE node # leaf
          BY <5>2, <1>6
        <5>. QED  BY <5>1, <5>2
      <4>. QED  BY <4>1, <2>2, <1>4
    <3>. QED  BY <3>1, <3>2
  <2>. QED  BY <2>4, <2>5 DEF PathAgreesWithTemplate
<1>12. UniqueIDs'
  <2>1. ASSUME NEW c \in DOMAIN heap, heap[c].ID = Hash(tokens)
        PROVE  FALSE
    <3>1. PICK m \in Logs : /\ heap[c].ID = Hash(Preprocess(m))
                            /\ Covers(heap[c].Tokens, Preprocess(m))
                            /\ LeafPath(heap[c].Tokens) = LeafPath(Preprocess(m))
      BY DEF IndInv, ClustersFounded
    <3>2. Preprocess(m) = tokens
      BY <3>1, <2>1, HashAssumption
    <3>. QED  BY <3>1, <3>2, <1>7
  <2>2. \A c \in DOMAIN heap : heap[c].ID \in DOMAIN clusters /\ clusters[heap[c].ID] = c
    BY DEF IndInv, UniqueIDs
  <2>3. ASSUME NEW c \in DOMAIN heap'
        PROVE  heap'[c].ID \in DOMAIN clusters' /\ clusters'[heap'[c].ID] = c
    <3>1. CASE c = pointer
      BY <3>1, <1>1, <1>3, <1>4
    <3>2. CASE c # pointer
      <4>1. c \in DOMAIN heap /\ heap'[c] = heap[c]
        BY <3>2, <1>4
      <4>. QED  BY <4>1, <2>1, <2>2, <1>1, <1>3
    <3>. QED  BY <3>1, <3>2
  <2>4. ASSUME NEW id \in DOMAIN clusters'
        PROVE  heap'[clusters'[id]].ID = id
    <3>1. CASE id = cluster.ID
      BY <3>1, <1>1, <1>4
    <3>2. CASE id # cluster.ID
      <4>1. id \in DOMAIN clusters /\ clusters'[id] = clusters[id]
        BY <3>2, <1>1
      <4>2. clusters[id] \in DOMAIN heap /\ heap[clusters[id]].ID = id
        BY <4>1, <1>4, <1>5 DEF IndInv, UniqueIDs, TypeOK
      <4>. QED  BY <4>1, <4>2, <1>4
    <3>. QED  BY <3>1, <3>2
  <2>. QED  BY <2>3, <2>4 DEF UniqueIDs
<1>13. DistinctTemplates'
  <2>1. ASSUME NEW c \in DOMAIN heap, heap[c].Tokens = tokens
        PROVE  FALSE
    <3>1. Covers(heap[c].Tokens, tokens)
      BY <2>1, <1>2, CoversPointwise
    <3>. QED  BY <2>1, <3>1, <1>7
  <2>2. \A c, d \in DOMAIN heap : heap[c].Tokens = heap[d].Tokens => c = d
    BY DEF IndInv, DistinctTemplates
  <2>3. \A c \in DOMAIN heap' : c = pointer \/ (c \in DOMAIN heap /\ heap'[c] = heap[c])
    BY <1>4
  <2>. QED  BY <2>1, <2>2, <2>3, <1>3, <1>4 DEF DistinctTemplates
<1>. QED  BY <1>8, <1>9, <1>10, <1>11, <1>12, <1>13 DEF IndInv

\* The cluster findBestMatch picks: it sits in the last visited node, has the length
\* of the tokens, and covers them if any cluster of its leaf does.
LEMMA BestMatchProperties ==
  ASSUME IndInv, NEW tokens \in Seq(Token), tokens # << >>,
         NEW k \in FindBestMatch(Reached(tokens), tokens),
         NEW p, p = Reached(tokens)[k]
  PROVE  /\ p \in DOMAIN heap
         /\ Len(heap[p].Tokens) = Len(tokens)
         /\ LeafPath(heap[p].Tokens) \in Visited(tokens)
         /\ Reached(tokens) = tree[LeafPath(heap[p].Tokens)]
         /\ \A j \in DOMAIN Reached(tokens) :
              Covers(heap[Reached(tokens)[j]].Tokens, tokens) => Covers(heap[p].Tokens, tokens)
<1>. DEFINE list == Reached(tokens)
<1>1. TypeOK /\ << >> \in DOMAIN tree
  BY DEF IndInv, TreeIsPrefixClosed
<1>2. k \in DOMAIN list /\ k \in Candidates(list, tokens)
  BY DEF FindBestMatch, Candidates
<1>3. /\ list \in Seq(1..Len(heap)) /\ list = tree[LastVisited(tokens)]
      /\ p \in DOMAIN heap /\ DOMAIN heap = 1..Len(heap)
  BY <1>1, <1>2, ReachedType DEF TypeOK
<1>4. Len(heap[p].Tokens) = Len(tokens)
  BY <1>2 DEF Candidates
<1>5. LastVisited(tokens) \in Visited(tokens) /\ LastVisited(tokens) \in DOMAIN tree
  BY <1>1, LastVisitedIsDeepest DEF Visited
<1>6. LastVisited(tokens) = LeafPath(heap[p].Tokens)
  BY <1>2, <1>3, <1>5 DEF IndInv, PathAgreesWithTemplate
<1>7. ASSUME NEW j \in DOMAIN list, Covers(heap[list[j]].Tokens, tokens)
      PROVE  Covers(heap[p].Tokens, tokens)
  <2>1. j \in Candidates(list, tokens)
    BY <1>1, <1>3, <1>7, CoveringIsCandidate
  <2>2. list[j] \in 1..Len(heap)
    BY <1>3
  <2>3. heap[p].Tokens \in Seq(Token) /\ heap[list[j]].Tokens \in Seq(Token)
    BY <1>1, <1>3, <2>2, HeapType
  <2>4. Matches(heap[list[j]].Tokens, tokens) = Len(tokens)
    BY <1>7, <2>3, MatchesType DEF Covers
  <2>5. Matches(heap[p].Tokens, tokens) \in Nat /\ Matches(heap[p].Tokens, tokens) <= Len(tokens)
    BY <1>4, <2>3, MatchesType
  <2>6. Len(tokens) <= Matches(heap[p].Tokens, tokens)
    BY <2>1, <2>4, <2>5 DEF FindBestMatch
  <2>7. Matches(heap[p].Tokens, tokens) = Len(tokens)
    BY <2>5, <2>6
  <2>. QED  BY <1>4, <2>3, <2>7, MatchesType
<1>. QED  BY <1>3, <1>4, <1>5, <1>6, <1>7

\* updateCluster changes the template, the size and the last timestamp.
LEMMA UpdatedClusterType ==
  ASSUME NEW cluster \in ClusterType, NEW tokens, NEW ts \in Timestamps,
         Generalize(cluster.Tokens, tokens) \in Seq(Token)
  PROVE  /\ UpdatedCluster(cluster, tokens, ts) \in ClusterType
         /\ UpdatedCluster(cluster, tokens, ts).Tokens = Generalize(cluster.Tokens, tokens)
         /\ UpdatedCluster(cluster, tokens, ts).ID = cluster.ID
         /\ UpdatedCluster(cluster, tokens, ts).Size = cluster.Size + 1
<1>1. /\ cluster.ID \in TemplateIDs /\ cluster.Size + 1 \in Nat
      /\ cluster.FirstSeen \in Timestamps
  BY DEF ClusterType
<1>2. cluster = [ID |-> cluster.ID, Tokens |-> cluster.Tokens, Size |-> cluster.Size,
                 FirstSeen |-> cluster.FirstSeen, LastSeen |-> cluster.LastSeen]
  BY DEF ClusterType
<1>3. UpdatedCluster(cluster, tokens, ts)
        = [ID |-> cluster.ID, Tokens |-> Generalize(cluster.Tokens, tokens),
           Size |-> cluster.Size + 1, FirstSeen |-> cluster.FirstSeen, LastSeen |-> ts]
  <2>. DEFINE new == UpdatedCluster(cluster, tokens, ts)
  <2>1. DOMAIN new = DOMAIN cluster
    BY DEF UpdatedCluster
  <2>2. DOMAIN cluster = {"ID", "Tokens", "Size", "FirstSeen", "LastSeen"}
    BY <1>2
  <2>3. /\ new.ID = cluster.ID /\ new.FirstSeen = cluster.FirstSeen
        /\ new.Tokens = Generalize(cluster.Tokens, tokens)
        /\ new.Size = cluster.Size + 1 /\ new.LastSeen = ts
    BY <2>2 DEF UpdatedCluster
  <2>4. new = [f \in DOMAIN new |-> new[f]]
    BY DEF UpdatedCluster
  <2>. QED  BY <2>1, <2>2, <2>3, <2>4
<1>. QED  BY <1>1, <1>3 DEF ClusterType

LEMMA ParseKnownIndInv ==
  ASSUME IndInv, NEW l \in Logs, NEW ts \in Timestamps, ParseKnown(l, ts)
  PROVE  IndInv'
<1>. DEFINE tokens == Preprocess(l)
<1>1. PICK k \in FindBestMatch(Reached(tokens), tokens) :
        LET p == Reached(tokens)[k]
            updated == UpdatedCluster(heap[p], tokens, ts)
        IN  /\ heap' = [heap EXCEPT ![p] = updated]
            /\ parsed' = Append(parsed, ParseResult(l, updated, FALSE))
  BY DEF ParseKnown
<1>. DEFINE p == Reached(tokens)[k]
            old == heap[p].Tokens
            new == Generalize(old, tokens)
            updated == UpdatedCluster(heap[p], tokens, ts)
<1>2. Len(l) > 0 /\ UNCHANGED <<clusters, tree>>
  BY DEF ParseKnown
<1>3. tokens \in Seq(Token) /\ tokens # << >> /\ Len(tokens) = Len(l)
  BY <1>2, PreprocessType
<1>4. TypeOK /\ heap \in Seq(ClusterType) /\ DOMAIN heap = 1..Len(heap)
  BY DEF IndInv, TypeOK
<1>5. /\ p \in DOMAIN heap
      /\ Len(old) = Len(tokens)
      /\ LeafPath(old) \in Visited(tokens)
      /\ Reached(tokens) = tree[LeafPath(old)]
      /\ \A j \in DOMAIN Reached(tokens) :
           Covers(heap[Reached(tokens)[j]].Tokens, tokens) => Covers(old, tokens)
  BY <1>3, BestMatchProperties
<1>6. old \in Seq(Token) /\ heap[p] \in ClusterType /\ heap[p].Size \in Nat
  BY <1>4, <1>5, HeapType
<1>7. /\ new \in Seq(Token) /\ Len(new) = Len(old)
      /\ \A u \in Seq(Token) : Covers(old, u) => Covers(new, u)
      /\ Covers(new, tokens)
  BY <1>3, <1>5, <1>6, GeneralizeCovers
<1>8. LeafPath(new) = LeafPath(old)
  BY <1>3, <1>4, <1>5, <1>6, GeneralizeKeepsLeaf
<1>9. updated \in ClusterType /\ updated.Tokens = new /\ updated.ID = heap[p].ID
  BY <1>6, <1>7, UpdatedClusterType
<1>10. /\ heap' \in Seq(ClusterType) /\ Len(heap') = Len(heap) /\ DOMAIN heap' = DOMAIN heap
       /\ heap'[p] = updated
       /\ \A c \in DOMAIN heap : c # p => heap'[c] = heap[c]
  BY <1>1, <1>4, <1>5, <1>9
<1>11. \A c \in DOMAIN heap : /\ heap'[c].ID = heap[c].ID
                              /\ LeafPath(heap'[c].Tokens) = LeafPath(heap[c].Tokens)
                              /\ \A u \in Seq(Token) : Covers(heap[c].Tokens, u) => Covers(heap'[c].Tokens, u)
  BY <1>7, <1>8, <1>9, <1>10
<1>12. TypeOK'
  <2>1. ParseResult(l, updated, FALSE) \in ResultType
    BY <1>3, <1>5, <1>7, <1>9, ParseResultType
  <2>2. parsed' \in Seq(ResultType)
    <3>1. parsed \in Seq(ResultType)
      BY <1>4 DEF TypeOK
    <3>. QED  BY <1>1, <2>1, <3>1, AppendProperties
  <2>. QED  BY <1>2, <1>4, <1>10, <2>2 DEF TypeOK
<1>13. TreeIsPrefixClosed'
  BY <1>2 DEF IndInv, TreeIsPrefixClosed
<1>14. ClustersFounded'
  <2>1. \A m \in Logs : Preprocess(m) \in Seq(Token)
    BY PreprocessType
  <2>. QED  BY <1>10, <1>11, <2>1 DEF IndInv, ClustersFounded
<1>15. PathAgreesWithTemplate'
  <2>1. \A node \in DOMAIN tree : \A k2 \in DOMAIN tree[node] : tree[node][k2] \in DOMAIN heap
    BY <1>4 DEF TypeOK
  <2>. QED  BY <1>2, <1>10, <1>11, <2>1 DEF IndInv, PathAgreesWithTemplate
<1>16. UniqueIDs'
  <2>1. \A id \in DOMAIN clusters : clusters[id] \in DOMAIN heap
    BY <1>4 DEF TypeOK
  <2>. QED  BY <2>1, <1>2, <1>10, <1>11 DEF IndInv, UniqueIDs
<1>17. DistinctTemplates'
  <2>1. ASSUME NEW d \in DOMAIN heap, d # p, heap[d].Tokens = new
        PROVE  FALSE
    <3>1. LeafPath(heap[d].Tokens) = LeafPath(old)
      BY <2>1, <1>8
    <3>2. PICK j \in DOMAIN Reached(tokens) : Reached(tokens)[j] = d
      BY <3>1, <1>5 DEF IndInv, PathAgreesWithTemplate
    <3>3. Covers(old, tokens)
      BY <3>2, <2>1, <1>5, <1>7
    <3>4. new = old
      BY <3>3, <1>3, <1>6, GeneralizeCoveredIsIdentity
    <3>. QED  BY <3>4, <2>1, <1>5 DEF IndInv, DistinctTemplates
  <2>. QED  BY <2>1, <1>9, <1>10 DEF IndInv, DistinctTemplates
<1>. QED  BY <1>12, <1>13, <1>14, <1>15, <1>16, <1>17 DEF IndInv

\* Every step of the specification restores the invariant.
LEMMA NextIndInv == IndInv /\ [Next]_vars => IndInv'
<1>. SUFFICES ASSUME IndInv, [Next]_vars PROVE IndInv'
  OBVIOUS
<1>1. CASE UNCHANGED vars
  BY <1>1 DEF vars, IndInv, TypeOK, TreeIsPrefixClosed, ClustersFounded,
              PathAgreesWithTemplate, UniqueIDs, DistinctTemplates
<1>2. ASSUME NEW l \in Logs, NEW ts \in Timestamps, Parse(l, ts)
      PROVE  IndInv'
  <2>1. CASE ParseEmpty(l)
    BY <2>1, ParseEmptyIndInv
  <2>2. CASE ParseNew(l, ts)
    BY <2>2, ParseNewIndInv
  <2>3. CASE ParseKnown(l, ts)
    BY <2>3, ParseKnownIndInv
  <2>. QED  BY <1>2, <2>1, <2>2, <2>3 DEF Parse
<1>. QED  BY <1>1, <1>2 DEF Next

\* The tree, the id map and the templates agree after any calls of Parse.
THEOREM Invariance == Spec => []IndInv
BY InitIndInv, NextIndInv, PTL DEF Spec

----------------------------------------------------------------------------
(* The safety properties.                                                  *)

\* The variables keep their types.
THEOREM TypeCorrect == Spec => []TypeOK
<1>1. IndInv => TypeOK
  BY DEF IndInv
<1>. QED  BY <1>1, Invariance, PTL

\* createCluster never overwrites an entry of dt.clusters: the id map reaches every
\* cluster of the tree, by one id each.
THEOREM IDsAreUnique == Spec => []UniqueIDs
<1>1. IndInv => UniqueIDs
  BY DEF IndInv
<1>. QED  BY <1>1, Invariance, PTL

\* updateCluster never moves a template away from its leaf.
THEOREM PathsAgree == Spec => []PathAgreesWithTemplate
<1>1. IndInv => PathAgreesWithTemplate
  BY DEF IndInv
<1>. QED  BY <1>1, Invariance, PTL

\* Two clusters never share a template.
THEOREM TemplatesAreDistinct == Spec => []DistinctTemplates
<1>1. IndInv => DistinctTemplates
  BY DEF IndInv
<1>. QED  BY <1>1, Invariance, PTL

----------------------------------------------------------------------------
(* What a step does to the clusters there are.                             *)

\* The id Parse computes for a new cluster is not in the map yet: its owner would
\* cover the tokens and sit in their leaf.
LEMMA NewIDIsUnused ==
  ASSUME IndInv, NEW l \in Logs, NEW ts \in Timestamps, ParseNew(l, ts),
         NEW id \in DOMAIN clusters
  PROVE  id # Hash(Preprocess(l))
<1>. DEFINE tokens == Preprocess(l)
            c == clusters[id]
<1>0. c \in DOMAIN heap /\ heap[c].ID = id
  BY DEF IndInv, UniqueIDs, TypeOK
<1>1. tokens \in Seq(Token) /\ tokens # << >> /\ Candidates(Reached(tokens), tokens) = {}
  BY PreprocessType DEF ParseNew
<1>2. PICK m \in Logs : /\ heap[c].ID = Hash(Preprocess(m))
                        /\ Covers(heap[c].Tokens, Preprocess(m))
                        /\ LeafPath(heap[c].Tokens) = LeafPath(Preprocess(m))
  BY <1>0 DEF IndInv, ClustersFounded
<1>3. SUFFICES ASSUME Hash(Preprocess(m)) = Hash(tokens) PROVE FALSE
  BY <1>0, <1>2
<1>4. Preprocess(m) = tokens
  BY <1>3, HashAssumption
<1>. QED  BY <1>0, <1>1, <1>2, <1>4, NewTokensAreUncovered

\* The cluster an id of the map leads to.
LEMMA MappedClusterType ==
  ASSUME IndInv, NEW id \in DOMAIN clusters
  PROVE  /\ clusters[id] \in 1..Len(heap)
         /\ heap[clusters[id]].ID = id
         /\ heap[clusters[id]].Tokens \in Seq(Token)
         /\ heap[clusters[id]].Size \in Nat
<1>1. clusters[id] \in 1..Len(heap) /\ clusters[id] \in DOMAIN heap
  BY DEF IndInv, TypeOK
<1>2. heap[clusters[id]].ID = id
  BY DEF IndInv, UniqueIDs
<1>. QED  BY <1>1, <1>2, HeapType DEF IndInv

\* Founding a cluster leaves the entries of the map and their clusters alone.
LEMMA ParseNewKeepsClusters ==
  ASSUME IndInv, NEW l \in Logs, NEW ts \in Timestamps, ParseNew(l, ts),
         NEW id \in DOMAIN clusters
  PROVE  /\ id \in DOMAIN clusters' /\ clusters'[id] = clusters[id]
         /\ heap'[clusters[id]] = heap[clusters[id]]
<1>. DEFINE cluster == NewCluster(Preprocess(l), ts)
<1>1. /\ heap' = Append(heap, cluster)
      /\ clusters' = [i \in DOMAIN clusters \cup {cluster.ID} |->
                        IF i = cluster.ID THEN Len(heap) + 1 ELSE clusters[i]]
  BY DEF ParseNew
<1>2. cluster.ID = Hash(Preprocess(l))
  BY DEF NewCluster
<1>3. id # cluster.ID
  BY <1>2, NewIDIsUnused
<1>4. heap'[clusters[id]] = heap[clusters[id]]
  BY <1>1, MappedClusterType DEF IndInv, TypeOK
<1>. QED  BY <1>1, <1>3, <1>4

\* The update of a cluster trades tokens for wildcards and leaves the others alone.
LEMMA ParseKnownKeepsClusters ==
  ASSUME IndInv, NEW l \in Logs, NEW ts \in Timestamps, ParseKnown(l, ts),
         NEW c \in 1..Len(heap)
  PROVE  /\ heap'[c].ID = heap[c].ID
         /\ heap'[c].Size >= heap[c].Size
         /\ heap'[c].Tokens \in Seq(Token)
         /\ Len(heap'[c].Tokens) = Len(heap[c].Tokens)
         /\ \A i \in 1..Len(heap[c].Tokens) : heap'[c].Tokens[i] \in {heap[c].Tokens[i], Wild}
<1>. DEFINE tokens == Preprocess(l)
<1>1. PICK k \in FindBestMatch(Reached(tokens), tokens) :
        heap' = [heap EXCEPT ![Reached(tokens)[k]] =
                   UpdatedCluster(heap[Reached(tokens)[k]], tokens, ts)]
  BY DEF ParseKnown
<1>. DEFINE p == Reached(tokens)[k]
            updated == UpdatedCluster(heap[p], tokens, ts)
<1>2. tokens \in Seq(Token) /\ tokens # << >>
  BY PreprocessType DEF ParseKnown
<1>3. p \in DOMAIN heap /\ Len(heap[p].Tokens) = Len(tokens)
  BY <1>2, BestMatchProperties
<1>4. TypeOK /\ DOMAIN heap = 1..Len(heap)
  BY DEF IndInv, TypeOK
<1>5. /\ heap[p] \in ClusterType /\ heap[p].Tokens \in Seq(Token) /\ heap[p].Size \in Nat
      /\ heap[c].Tokens \in Seq(Token) /\ heap[c].Size \in Nat
  BY <1>3, <1>4, HeapType
<1>6. heap'[p] = updated /\ (c # p => heap'[c] = heap[c])
  BY <1>1, <1>3, <1>4
<1>7. CASE c # p
  BY <1>5, <1>6, <1>7
<1>8. CASE c = p
  <2>1. Generalize(heap[p].Tokens, tokens) \in Seq(Token)
        /\ Len(Generalize(heap[p].Tokens, tokens)) = Len(heap[p].Tokens)
    BY <1>2, <1>3, <1>5, GeneralizeCovers
  <2>2. /\ updated.Tokens = Generalize(heap[p].Tokens, tokens)
        /\ updated.ID = heap[p].ID
        /\ updated.Size = heap[p].Size + 1
    BY <1>5, <2>1, UpdatedClusterType
  <2>3. \A i \in 1..Len(heap[p].Tokens) :
          Generalize(heap[p].Tokens, tokens)[i] \in {heap[p].Tokens[i], Wild}
    BY <1>5 DEF Generalize
  <2>. QED  BY <1>5, <1>6, <1>8, <2>1, <2>2, <2>3
<1>. QED  BY <1>7, <1>8

\* What every step leaves of an entry of the id map and of its cluster.
LEMMA StepKeepsClusters ==
  ASSUME IndInv, [Next]_vars, NEW id \in DOMAIN clusters
  PROVE  /\ id \in DOMAIN clusters' /\ clusters'[id] = clusters[id]
         /\ LET old == heap[clusters[id]]
                new == heap'[clusters[id]]
            IN  /\ new.ID = old.ID
                /\ new.Size >= old.Size
                /\ old.Tokens \in Seq(Token) /\ new.Tokens \in Seq(Token)
                /\ Len(new.Tokens) = Len(old.Tokens)
                /\ \A i \in 1..Len(old.Tokens) : new.Tokens[i] \in {old.Tokens[i], Wild}
<1>1. /\ clusters[id] \in 1..Len(heap)
      /\ heap[clusters[id]].Tokens \in Seq(Token)
      /\ heap[clusters[id]].Size \in Nat
  BY MappedClusterType
<1>2. CASE UNCHANGED <<heap, clusters>>
  BY <1>1, <1>2
<1>3. ASSUME NEW l \in Logs, NEW ts \in Timestamps, ParseNew(l, ts)
      PROVE  id \in DOMAIN clusters' /\ clusters'[id] = clusters[id]
             /\ heap'[clusters[id]] = heap[clusters[id]]
  BY <1>3, ParseNewKeepsClusters
<1>4. ASSUME NEW l \in Logs, NEW ts \in Timestamps, ParseKnown(l, ts)
      PROVE  clusters' = clusters
  BY <1>4 DEF ParseKnown
<1>5. CASE UNCHANGED vars
  BY <1>2, <1>5 DEF vars
<1>6. CASE Next
  <2>1. PICK l \in Logs, ts \in Timestamps : Parse(l, ts)
    BY <1>6 DEF Next
  <2>2. CASE ParseEmpty(l)
    BY <1>2, <2>2 DEF ParseEmpty
  <2>3. CASE ParseNew(l, ts)
    BY <1>1, <1>3, <2>3
  <2>4. CASE ParseKnown(l, ts)
    BY <1>1, <1>4, <2>4, ParseKnownKeepsClusters
  <2>. QED  BY <2>1, <2>2, <2>3, <2>4 DEF Parse
<1>. QED  BY <1>5, <1>6

\* An id names one cluster for ever, whose template only trades tokens for
\* wildcards: what updateCluster does to a cluster, and createCluster to none.
THEOREM TemplatesGeneralize == Spec => TemplatesOnlyGeneralize
<1>1. ASSUME IndInv, [Next]_vars, NEW id \in DOMAIN clusters
      PROVE  /\ id \in DOMAIN clusters' /\ clusters'[id] = clusters[id]
             /\ LET old == heap[clusters[id]]
                    new == heap'[clusters[id]]
                IN  /\ new.ID = old.ID
                    /\ new.Size >= old.Size
                    /\ \A i \in DOMAIN old.Tokens : new.Tokens[i] \in {old.Tokens[i], Wild}
  <2>1. DOMAIN heap[clusters[id]].Tokens = 1..Len(heap[clusters[id]].Tokens)
    BY MappedClusterType
  <2>. QED  BY <1>1, <2>1, StepKeepsClusters
<1>2. IndInv /\ [Next]_vars =>
        \A id \in DOMAIN clusters :
          /\ id \in DOMAIN clusters' /\ clusters'[id] = clusters[id]
          /\ LET old == heap[clusters[id]]
                 new == heap'[clusters[id]]
             IN  /\ new.ID = old.ID
                 /\ new.Size >= old.Size
                 /\ \A i \in DOMAIN old.Tokens : new.Tokens[i] \in {old.Tokens[i], Wild}
  BY <1>1
<1>. QED  BY <1>2, Invariance, PTL DEF Spec, TemplatesOnlyGeneralize

----------------------------------------------------------------------------
(* What Parse returned, and the clusters since.                            *)

\* A line that is not empty is answered from a cluster that the id map leads to and
\* that covers it.
LEMMA ParseOutcome ==
  ASSUME IndInv, NEW l \in Logs, NEW ts \in Timestamps,
         ParseNew(l, ts) \/ ParseKnown(l, ts)
  PROVE  \E c \in DOMAIN heap', isNew \in BOOLEAN :
           /\ parsed' = Append(parsed, ParseResult(l, heap'[c], isNew))
           /\ heap'[c].Tokens \in Seq(Token)
           /\ heap'[c].ID \in DOMAIN clusters' /\ clusters'[heap'[c].ID] = c
           /\ Covers(heap'[c].Tokens, Preprocess(l))
<1>. DEFINE tokens == Preprocess(l)
<1>0. Len(l) > 0
  BY DEF ParseNew, ParseKnown
<1>1. tokens \in Seq(Token) /\ tokens # << >>
  BY <1>0, PreprocessType
<1>2. IndInv'
  BY ParseNewIndInv, ParseKnownIndInv
<1>3. TypeOK /\ heap \in Seq(ClusterType) /\ Len(heap) \in Nat
  BY DEF IndInv, TypeOK
<1>4. CASE ParseNew(l, ts)
  <2>. DEFINE cluster == NewCluster(tokens, ts)
              c == Len(heap) + 1
  <2>1. heap' = Append(heap, cluster) /\ parsed' = Append(parsed, ParseResult(l, cluster, TRUE))
    BY <1>4 DEF ParseNew
  <2>2. c \in DOMAIN heap' /\ heap'[c] = cluster
    BY <1>3, <2>1
  <2>3. cluster.Tokens = tokens
    BY DEF NewCluster
  <2>4. Covers(tokens, tokens)
    BY <1>1, CoversPointwise
  <2>5. heap'[c].ID \in DOMAIN clusters' /\ clusters'[heap'[c].ID] = c
    BY <1>2, <2>2 DEF IndInv, UniqueIDs
  <2>. QED  BY <1>1, <2>1, <2>2, <2>3, <2>4, <2>5
<1>5. CASE ParseKnown(l, ts)
  <2>1. PICK k \in FindBestMatch(Reached(tokens), tokens) :
          LET p == Reached(tokens)[k]
              updated == UpdatedCluster(heap[p], tokens, ts)
          IN  /\ heap' = [heap EXCEPT ![p] = updated]
              /\ parsed' = Append(parsed, ParseResult(l, updated, FALSE))
    BY <1>5 DEF ParseKnown
  <2>. DEFINE c == Reached(tokens)[k]
              updated == UpdatedCluster(heap[c], tokens, ts)
  <2>2. c \in DOMAIN heap /\ c \in 1..Len(heap) /\ Len(heap[c].Tokens) = Len(tokens)
    BY <1>1, <1>3, BestMatchProperties
  <2>3. heap[c] \in ClusterType /\ heap[c].Tokens \in Seq(Token)
    BY <1>3, <2>2, HeapType
  <2>4. /\ Generalize(heap[c].Tokens, tokens) \in Seq(Token)
        /\ Covers(Generalize(heap[c].Tokens, tokens), tokens)
    BY <1>1, <2>2, <2>3, GeneralizeCovers
  <2>5. updated.Tokens = Generalize(heap[c].Tokens, tokens)
    BY <2>3, <2>4, UpdatedClusterType
  <2>6. c \in DOMAIN heap' /\ heap'[c] = updated
    BY <2>1, <2>2
  <2>7. heap'[c].ID \in DOMAIN clusters' /\ clusters'[heap'[c].ID] = c
    BY <1>2, <2>6 DEF IndInv, UniqueIDs
  <2>. QED  BY <2>1, <2>4, <2>5, <2>6, <2>7
<1>. QED  BY <1>4, <1>5

\* The history grows at its end.
LEMMA ParsedGrows ==
  ASSUME TypeOK, NEW r, parsed' = Append(parsed, r), NEW n \in DOMAIN parsed'
  PROVE  \/ n \in DOMAIN parsed /\ parsed'[n] = parsed[n]
         \/ n = Len(parsed) + 1 /\ parsed'[n] = r
<1>1. parsed \in Seq(ResultType)
  BY DEF TypeOK
<1>. QED  BY <1>1

\* An entry that is covered stays covered.
LEMMA StepKeepsCover ==
  ASSUME IndInv, [Next]_vars, NEW id \in DOMAIN clusters, NEW tokens \in Seq(Token),
         Covers(heap[clusters[id]].Tokens, tokens)
  PROVE  id \in DOMAIN clusters' /\ Covers(heap'[clusters'[id]].Tokens, tokens)
<1>. DEFINE old == heap[clusters[id]].Tokens
            new == heap'[clusters[id]].Tokens
<1>1. /\ id \in DOMAIN clusters' /\ clusters'[id] = clusters[id]
      /\ old \in Seq(Token) /\ new \in Seq(Token) /\ Len(new) = Len(old)
      /\ \A i \in 1..Len(old) : new[i] \in {old[i], Wild}
  BY StepKeepsClusters
<1>2. Len(old) = Len(tokens) /\ \A i \in 1..Len(tokens) : old[i] = tokens[i] \/ old[i] = Wild
  BY <1>1, CoversPointwise
<1>3. Covers(new, tokens)
  BY <1>1, <1>2, CoversPointwise
<1>. QED  BY <1>1, <1>3

LEMMA NextLinesStayCovered ==
  IndInv /\ LinesStayCovered /\ [Next]_vars => LinesStayCovered'
<1>. SUFFICES ASSUME IndInv, LinesStayCovered, [Next]_vars,
                     NEW n \in DOMAIN parsed', parsed'[n].TemplateID # NoID
              PROVE  /\ parsed'[n].TemplateID \in DOMAIN clusters'
                     /\ Covers(heap'[clusters'[parsed'[n].TemplateID]].Tokens,
                               Preprocess(parsed'[n].log))
  BY DEF LinesStayCovered, GetCluster
<1>0. TypeOK
  BY DEF IndInv
<1>1. \A m \in DOMAIN parsed : parsed[m].log \in Logs
  <2>1. \A m \in DOMAIN parsed : parsed[m] \in ResultType
    BY <1>0 DEF TypeOK
  <2>. QED  BY <2>1 DEF ResultType
<1>2. CASE n \in DOMAIN parsed /\ parsed'[n] = parsed[n]
  <2>1. /\ parsed[n].TemplateID \in DOMAIN clusters
        /\ Covers(heap[clusters[parsed[n].TemplateID]].Tokens, Preprocess(parsed[n].log))
    BY <1>2 DEF LinesStayCovered, GetCluster
  <2>2. Preprocess(parsed[n].log) \in Seq(Token)
    BY <1>1, <1>2, PreprocessType
  <2>. QED  BY <1>2, <2>1, <2>2, StepKeepsCover
<1>3. CASE UNCHANGED vars
  BY <1>2, <1>3 DEF vars
<1>4. ASSUME NEW l \in Logs, ParseEmpty(l)
      PROVE  n \in DOMAIN parsed /\ parsed'[n] = parsed[n]
  <2>1. parsed' = Append(parsed, ErrorResult(l)) /\ ErrorResult(l).TemplateID = NoID
    BY <1>4 DEF ParseEmpty, ErrorResult
  <2>. QED  BY <1>0, <2>1, ParsedGrows
<1>5. ASSUME NEW l \in Logs, NEW ts \in Timestamps, ParseNew(l, ts) \/ ParseKnown(l, ts)
      PROVE  \/ n \in DOMAIN parsed /\ parsed'[n] = parsed[n]
             \/ /\ parsed'[n].TemplateID \in DOMAIN clusters'
                /\ Covers(heap'[clusters'[parsed'[n].TemplateID]].Tokens,
                          Preprocess(parsed'[n].log))
  <2>1. PICK c \in DOMAIN heap', isNew \in BOOLEAN :
          /\ parsed' = Append(parsed, ParseResult(l, heap'[c], isNew))
          /\ heap'[c].ID \in DOMAIN clusters' /\ clusters'[heap'[c].ID] = c
          /\ Covers(heap'[c].Tokens, Preprocess(l))
    BY <1>5, ParseOutcome
  <2>. DEFINE r == ParseResult(l, heap'[c], isNew)
  <2>2. r.log = l /\ r.TemplateID = heap'[c].ID
    BY DEF ParseResult
  <2>3. \/ n \in DOMAIN parsed /\ parsed'[n] = parsed[n]
        \/ parsed'[n] = r
    BY <1>0, <2>1, ParsedGrows
  <2>. QED  BY <2>1, <2>2, <2>3
<1>. QED  BY <1>2, <1>3, <1>4, <1>5 DEF Next, Parse

\* The id a line was given leads, for ever, to a template the line is an instance
\* of, however often updateCluster generalizes it later.
THEOREM LinesCovered == Spec => []LinesStayCovered
<1>1. Init => LinesStayCovered
  BY DEF Init, LinesStayCovered
<1>. QED  BY <1>1, NextLinesStayCovered, Invariance, PTL DEF Spec

----------------------------------------------------------------------------
(* Extraction loses nothing.                                               *)

\* The counter of extractVariables gives different wildcards different numbers.
LEMMA VarNumberIncreases ==
  ASSUME NEW t \in Seq(Token), NEW i \in Wildcards(t), NEW j \in Wildcards(t), i < j
  PROVE  VarNumber(t, i) # VarNumber(t, j)
<1>. DEFINE Before(n) == {m \in Wildcards(t) : m < n}
<1>1. DOMAIN t = 1..Len(t) /\ Len(t) \in Nat
  OBVIOUS
<1>2. i \in Nat /\ j \in Nat /\ Wildcards(t) \in SUBSET (1..Len(t))
  BY <1>1 DEF Wildcards
<1>3. IsFiniteSet(Before(j))
  <2>1. \A n \in Nat : IsFiniteSet(1..n)
    BY FS_Interval
  <2>2. Before(j) \in SUBSET (1..Len(t))
    BY <1>2
  <2>. QED  BY <1>1, <2>1, <2>2, FS_Subset
<1>4. Before(i) \in SUBSET Before(j)
  BY <1>1, <1>2
<1>5. i \in Before(j) /\ i \notin Before(i)
  BY <1>2
<1>6. Cardinality(Before(i)) # Cardinality(Before(j))
  BY <1>3, <1>4, <1>5, FS_Subset
<1>. QED  BY <1>6 DEF VarNumber

\* At a wildcard exactly the raw token has the wildcard's number, elsewhere the
\* template has the raw token.
LEMMA ExtractionLossless ==
  ASSUME NEW l \in Logs, NEW t \in Seq(Token), Covers(t, Preprocess(l)),
         NEW i \in 1..Len(l)
  PROVE  IF t[i] = Wild
         THEN {v \in RawToken : <<VarNumber(t, i), v>> \in ExtractVariables(t, l)} = {l[i]}
         ELSE t[i] = l[i]
<1>1. l \in Seq(RawToken) /\ Preprocess(l) \in Seq(Token) /\ Len(Preprocess(l)) = Len(l)
  BY PreprocessType, TokenAssumption
<1>2. /\ Len(t) = Len(l) /\ DOMAIN t = 1..Len(l) /\ DOMAIN l = 1..Len(l)
      /\ t[i] = Preprocess(l)[i] \/ t[i] = Wild
  BY <1>1, CoversPointwise
<1>3. CASE t[i] = Wild
  <2>1. i \in Wildcards(t) /\ l[i] \in RawToken
    BY <1>1, <1>2, <1>3 DEF Wildcards
  <2>2. \A j \in Wildcards(t) : VarNumber(t, j) = VarNumber(t, i) => j = i
    <3>1. \A j \in Wildcards(t) : j \in Nat
      BY <1>2 DEF Wildcards
    <3>2. ASSUME NEW j \in Wildcards(t), j # i PROVE i < j \/ j < i
      BY <2>1, <3>1, <3>2
    <3>. QED  BY <2>1, <3>2, VarNumberIncreases
  <2>3. <<VarNumber(t, i), l[i]>> \in ExtractVariables(t, l)
    BY <2>1 DEF ExtractVariables
  <2>4. ASSUME NEW v \in RawToken, <<VarNumber(t, i), v>> \in ExtractVariables(t, l)
        PROVE  v = l[i]
    <3>1. PICK j \in Wildcards(t) : <<VarNumber(t, i), v>> = <<VarNumber(t, j), l[j]>>
      BY <2>4 DEF ExtractVariables
    <3>. QED  BY <2>2, <3>1
  <2>. QED  BY <1>3, <2>1, <2>3, <2>4
<1>4. CASE t[i] # Wild
  <2>1. Preprocess(l)[i] = IF l[i] \in Variable THEN Wild ELSE l[i]
    BY <1>2 DEF Preprocess
  <2>. QED  BY <1>2, <1>4, <2>1
<1>. QED  BY <1>3, <1>4

LEMMA NextResultsLossless ==
  IndInv /\ ResultsLossless /\ [Next]_vars => ResultsLossless'
<1>. DEFINE Lossless(r) ==
              /\ Len(r.Template) = Len(r.log)
              /\ \A i \in DOMAIN r.log :
                   IF r.Template[i] = Wild
                   THEN {v \in RawToken : <<VarNumber(r.Template, i), v>> \in r.Variables}
                          = {r.log[i]}
                   ELSE r.Template[i] = r.log[i]
<1>1. ResultsLossless <=> \A n \in DOMAIN parsed : Lossless(parsed[n])
  BY DEF ResultsLossless
<1>2. ResultsLossless' <=> \A n \in DOMAIN parsed' : Lossless(parsed'[n])
  BY DEF ResultsLossless
<1>3. ASSUME IndInv, ResultsLossless, NEW r, Lossless(r), parsed' = Append(parsed, r)
      PROVE  ResultsLossless'
  <2>1. \A n \in DOMAIN parsed' : (n \in DOMAIN parsed /\ parsed'[n] = parsed[n]) \/ parsed'[n] = r
    BY <1>3, ParsedGrows DEF IndInv
  <2>. QED  BY <1>1, <1>2, <1>3, <2>1
<1>4. ASSUME NEW l \in Logs, ParseEmpty(l)
      PROVE  parsed' = Append(parsed, ErrorResult(l)) /\ Lossless(ErrorResult(l))
  <2>1. l \in Seq(RawToken) /\ Len(l) = 0
    BY <1>4, TokenAssumption DEF ParseEmpty
  <2>2. ErrorResult(l).log = l /\ ErrorResult(l).Template = << >> /\ DOMAIN l = {}
    BY <2>1 DEF ErrorResult
  <2>. QED  BY <1>4, <2>1, <2>2 DEF ParseEmpty
<1>5. ASSUME IndInv, NEW l \in Logs, NEW ts \in Timestamps, ParseNew(l, ts) \/ ParseKnown(l, ts)
      PROVE  \E r : parsed' = Append(parsed, r) /\ Lossless(r)
  <2>1. PICK c \in DOMAIN heap', isNew \in BOOLEAN :
          /\ parsed' = Append(parsed, ParseResult(l, heap'[c], isNew))
          /\ heap'[c].Tokens \in Seq(Token)
          /\ Covers(heap'[c].Tokens, Preprocess(l))
    BY <1>5, ParseOutcome
  <2>. DEFINE r == ParseResult(l, heap'[c], isNew)
              t == heap'[c].Tokens
  <2>2. /\ r.log = l /\ r.Template = t
        /\ r.Variables = ExtractVariables(t, l)
    BY DEF ParseResult
  <2>3. Len(t) = Len(l) /\ DOMAIN l = 1..Len(l)
    BY <2>1, PreprocessType, TokenAssumption DEF Covers
  <2>4. \A i \in 1..Len(l) :
          IF t[i] = Wild
          THEN {v \in RawToken : <<VarNumber(t, i), v>> \in ExtractVariables(t, l)} = {l[i]}
          ELSE t[i] = l[i]
    BY <2>1, ExtractionLossless
  <2>5. Lossless(r)
    BY <2>2, <2>3, <2>4
  <2>. QED  BY <2>1, <2>5
<1>6. UNCHANGED vars /\ ResultsLossless => ResultsLossless'
  BY DEF vars, ResultsLossless
<1>. QED  BY <1>3, <1>4, <1>5, <1>6 DEF Next, Parse

\* The result of a call gives the line back: extractVariables numbers the wildcards
\* apart and takes the raw tokens.
THEOREM NothingIsLost == Spec => []ResultsLossless
<1>1. Init => ResultsLossless
  BY DEF Init, ResultsLossless
<1>. QED  BY <1>1, NextResultsLossless, Invariance, PTL DEF Spec

----------------------------------------------------------------------------
(* A line parsed again.                                                    *)

\* The walk reaches an existing leaf, and the first cluster of its list that covers
\* the tokens is the best match.
WalkFindsFirstCover ==
  \A tokens \in Seq(Token) : tokens # << >> =>
    /\ LeafPath(tokens) \in DOMAIN tree => Reached(tokens) = tree[LeafPath(tokens)]
    /\ \A k \in DOMAIN Reached(tokens) :
         /\ Covers(heap[Reached(tokens)[k]].Tokens, tokens)
         /\ \A j \in DOMAIN Reached(tokens) :
              Covers(heap[Reached(tokens)[j]].Tokens, tokens) => k <= j
         => k \in FindBestMatch(Reached(tokens), tokens)

LEMMA FirstCoverIsBest == IndInv => WalkFindsFirstCover
<1>. SUFFICES ASSUME IndInv, NEW tokens \in Seq(Token), tokens # << >>
              PROVE  /\ LeafPath(tokens) \in DOMAIN tree => Reached(tokens) = tree[LeafPath(tokens)]
                     /\ \A k \in DOMAIN Reached(tokens) :
                          /\ Covers(heap[Reached(tokens)[k]].Tokens, tokens)
                          /\ \A j \in DOMAIN Reached(tokens) :
                               Covers(heap[Reached(tokens)[j]].Tokens, tokens) => k <= j
                          => k \in FindBestMatch(Reached(tokens), tokens)
  BY DEF WalkFindsFirstCover
<1>. DEFINE list == Reached(tokens)
            template(k) == heap[list[k]].Tokens
<1>1. TypeOK /\ TreeIsPrefixClosed /\ << >> \in DOMAIN tree
  BY DEF IndInv, TreeIsPrefixClosed
<1>2. list \in Seq(1..Len(heap)) /\ \A k \in DOMAIN list : list[k] \in 1..Len(heap)
  BY <1>1, ReachedType
<1>3. \A k \in DOMAIN list : template(k) \in Seq(Token)
  BY <1>1, <1>2, HeapType
<1>4. \A k \in DOMAIN list : Len(template(k)) = Len(tokens) =>
        /\ Matches(template(k), tokens) \in Nat
        /\ Matches(template(k), tokens) <= Len(tokens)
        /\ Covers(template(k), tokens) <=> Matches(template(k), tokens) = Len(tokens)
  BY <1>3, MatchesType
<1>5. ASSUME NEW k \in DOMAIN list, Covers(template(k), tokens),
             \A j \in DOMAIN list : Covers(template(j), tokens) => k <= j
      PROVE  k \in FindBestMatch(list, tokens)
  <2>1. k \in Candidates(list, tokens)
    BY <1>1, <1>2, <1>5, CoveringIsCandidate
  <2>2. Len(template(k)) = Len(tokens) /\ Matches(template(k), tokens) = Len(tokens)
    BY <1>4, <1>5 DEF Covers
  <2>3. ASSUME NEW j \in Candidates(list, tokens)
        PROVE  \/ Matches(template(j), tokens) < Matches(template(k), tokens)
               \/ Matches(template(j), tokens) = Matches(template(k), tokens) /\ k <= j
    <3>1. j \in DOMAIN list /\ Len(template(j)) = Len(tokens)
      BY <2>3 DEF Candidates
    <3>2. CASE Covers(template(j), tokens)
      BY <1>4, <1>5, <2>2, <3>1, <3>2
    <3>3. CASE ~Covers(template(j), tokens)
      BY <1>4, <2>2, <3>1, <3>3
    <3>. QED  BY <3>2, <3>3
  <2>. QED  BY <2>1, <2>3 DEF FindBestMatch
<1>6. LeafPath(tokens) \in DOMAIN tree => list = tree[LeafPath(tokens)]
  BY <1>1, ExistingLeafIsSearched
<1>. QED  BY <1>5, <1>6

LEMMA FirstCoverIsBestNext == IndInv' => WalkFindsFirstCover'
BY FirstCoverIsBest, PTL

\* After a cluster was founded, its line finds it: the others of the leaf do not
\* cover the tokens.
LEMMA ParseNewRepeats ==
  ASSUME IndInv, NEW l \in Logs, NEW ts \in Timestamps, ParseNew(l, ts)
  PROVE  \E k \in FindBestMatch(Reached(Preprocess(l)), Preprocess(l))' :
           heap'[Reached(Preprocess(l))'[k]].ID = Hash(Preprocess(l))
<1>. DEFINE tokens == Preprocess(l)
            leaf == LeafPath(tokens)
            old == ClustersAt(leaf)
            pointer == Len(heap) + 1
            k == Len(old) + 1
<1>1. /\ Len(l) > 0 /\ Candidates(Reached(tokens), tokens) = {}
      /\ heap' = Append(heap, NewCluster(tokens, ts))
      /\ tree' = AddToTree(pointer, leaf)
  BY DEF ParseNew
<1>2. tokens \in Seq(Token) /\ tokens # << >>
  BY <1>1, PreprocessType
<1>3. TypeOK /\ TreeIsPrefixClosed /\ heap \in Seq(ClusterType) /\ DOMAIN heap = 1..Len(heap)
  BY DEF IndInv, TypeOK
<1>4. /\ leaf \in DOMAIN tree'
      /\ old \in Seq(1..Len(heap))
      /\ tree'[leaf] = Append(old, pointer)
  BY <1>1, <1>2, <1>3, AddToTreeType
<1>5. IndInv' /\ WalkFindsFirstCover'
  BY ParseNewIndInv, FirstCoverIsBestNext
<1>6. Reached(tokens)' = Append(old, pointer)
  BY <1>2, <1>4, <1>5 DEF WalkFindsFirstCover
<1>7. /\ heap'[pointer].Tokens = tokens /\ heap'[pointer].ID = Hash(tokens)
      /\ \A c \in 1..Len(heap) : heap'[c] = heap[c]
  BY <1>1, <1>3 DEF NewCluster
<1>8. ASSUME NEW j \in DOMAIN old, Covers(heap'[old[j]].Tokens, tokens) PROVE FALSE
  <2>1. old[j] \in DOMAIN heap /\ heap'[old[j]] = heap[old[j]]
    BY <1>3, <1>4, <1>7
  <2>2. LeafPath(heap[old[j]].Tokens) # leaf
    BY <1>1, <1>2, <1>8, <2>1, NewTokensAreUncovered
  <2>3. leaf \in DOMAIN tree /\ old = tree[leaf]
    BY <1>4, <1>8 DEF ClustersAt
  <2>. QED  BY <1>8, <2>2, <2>3 DEF IndInv, PathAgreesWithTemplate
<1>9. k \in DOMAIN Reached(tokens)' /\ Reached(tokens)'[k] = pointer
  BY <1>4, <1>6
<1>10. Covers(heap'[Reached(tokens)'[k]].Tokens, tokens)
  BY <1>2, <1>7, <1>9, CoversPointwise
<1>11. ASSUME NEW j \in DOMAIN Reached(tokens)', Covers(heap'[Reached(tokens)'[j]].Tokens, tokens)
       PROVE  k <= j
  <2>1. j \in 1..k /\ (j # k => j \in DOMAIN old /\ Reached(tokens)'[j] = old[j])
    BY <1>4, <1>6
  <2>. QED  BY <1>4, <1>8, <1>11, <2>1
<1>12. k \in FindBestMatch(Reached(tokens), tokens)'
  BY <1>2, <1>5, <1>9, <1>10, <1>11 DEF WalkFindsFirstCover
<1>. QED  BY <1>7, <1>9, <1>12

\* After a cluster was updated, the line finds it: a cluster that covers the tokens
\* and comes first was the best match before the update already.
LEMMA ParseKnownRepeats ==
  ASSUME IndInv, NEW l \in Logs, NEW ts \in Timestamps, ParseKnown(l, ts)
  PROVE  \E r : /\ parsed' = Append(parsed, r) /\ r.log = l
                /\ \E k \in FindBestMatch(Reached(Preprocess(l)), Preprocess(l))' :
                     heap'[Reached(Preprocess(l))'[k]].ID = r.TemplateID
<1>. DEFINE tokens == Preprocess(l)
            list == Reached(tokens)
<1>1. PICK k \in FindBestMatch(list, tokens) :
        LET updated == UpdatedCluster(heap[list[k]], tokens, ts)
        IN  /\ heap' = [heap EXCEPT ![list[k]] = updated]
            /\ parsed' = Append(parsed, ParseResult(l, updated, FALSE))
  BY DEF ParseKnown
<1>. DEFINE p == list[k]
            updated == UpdatedCluster(heap[p], tokens, ts)
            r == ParseResult(l, updated, FALSE)
<1>2. Len(l) > 0 /\ tree' = tree
  BY DEF ParseKnown
<1>3. tokens \in Seq(Token) /\ tokens # << >>
  BY <1>2, PreprocessType
<1>4. TypeOK /\ << >> \in DOMAIN tree /\ DOMAIN heap = 1..Len(heap)
  BY DEF IndInv, TypeOK, TreeIsPrefixClosed
<1>5. /\ p \in 1..Len(heap) /\ Len(heap[p].Tokens) = Len(tokens)
      /\ \A j \in DOMAIN list : Covers(heap[list[j]].Tokens, tokens) => Covers(heap[p].Tokens, tokens)
  BY <1>3, <1>4, BestMatchProperties
<1>6. heap[p] \in ClusterType /\ heap[p].Tokens \in Seq(Token)
  BY <1>4, <1>5, HeapType
<1>7. /\ Generalize(heap[p].Tokens, tokens) \in Seq(Token)
      /\ Covers(Generalize(heap[p].Tokens, tokens), tokens)
  BY <1>3, <1>5, <1>6, GeneralizeCovers
<1>8. updated.Tokens = Generalize(heap[p].Tokens, tokens) /\ updated.ID = heap[p].ID
  BY <1>6, <1>7, UpdatedClusterType
<1>9. heap'[p] = updated /\ \A c \in 1..Len(heap) : c # p => heap'[c] = heap[c]
  BY <1>1, <1>4, <1>5
<1>10. IndInv' /\ WalkFindsFirstCover'
  BY ParseKnownIndInv, FirstCoverIsBestNext
<1>11. Reached(tokens)' = list
  BY <1>2 DEF Reached, LastVisited, Visited, NextKey
<1>12. list \in Seq(1..Len(heap)) /\ k \in DOMAIN list /\ k \in Candidates(list, tokens)
  BY <1>3, <1>4, ReachedType DEF FindBestMatch, Candidates
<1>13. ASSUME NEW j \in DOMAIN list, Covers(heap'[list[j]].Tokens, tokens)
       PROVE  k <= j
  <2>1. CASE list[j] = p
    <3>1. j \in Candidates(list, tokens)
      BY <2>1, <1>12 DEF Candidates
    <3>2. Matches(heap[p].Tokens, tokens) \in Nat
      BY <1>3, <1>5, <1>6, MatchesType
    <3>. QED  BY <2>1, <3>1, <3>2 DEF FindBestMatch
  <2>2. CASE list[j] # p
    <3>1. list[j] \in 1..Len(heap) /\ heap'[list[j]] = heap[list[j]]
      BY <1>9, <1>12, <2>2
    <3>2. Covers(heap[list[j]].Tokens, tokens) /\ Covers(heap[p].Tokens, tokens)
      BY <1>5, <1>13, <3>1
    <3>3. j \in Candidates(list, tokens)
      BY <1>3, <1>4, <1>12, <3>2, CoveringIsCandidate
    <3>4. /\ Matches(heap[list[j]].Tokens, tokens) = Len(tokens)
          /\ Matches(heap[p].Tokens, tokens) = Len(tokens)
          /\ Len(tokens) \in Nat
      BY <1>3, <1>4, <1>6, <3>1, <3>2, HeapType, MatchesType DEF Covers
    <3>. QED  BY <3>3, <3>4 DEF FindBestMatch
  <2>. QED  BY <2>1, <2>2
<1>14. k \in FindBestMatch(Reached(tokens), tokens)'
  BY <1>3, <1>7, <1>8, <1>9, <1>10, <1>11, <1>12, <1>13 DEF WalkFindsFirstCover
<1>15. r.log = l /\ r.TemplateID = updated.ID
  BY DEF ParseResult
<1>16. heap'[Reached(tokens)'[k]].ID = r.TemplateID
  BY <1>9, <1>11, <1>15
<1>. QED  BY <1>1, <1>14, <1>15, <1>16

LEMMA NextRepeatsHit == IndInv /\ RepeatsHit /\ [Next]_vars => RepeatsHit'
<1>1. UNCHANGED vars /\ RepeatsHit => RepeatsHit'
  <2>. SUFFICES ASSUME UNCHANGED vars PROVE RepeatsHit => RepeatsHit'
    OBVIOUS
  <2>. DEFINE tokens == Preprocess(parsed[Len(parsed)].log)
  <2>1. heap' = heap /\ tree' = tree /\ parsed' = parsed
    BY DEF vars
  <2>2. Reached(tokens)' = Reached(tokens)
    BY <2>1 DEF Reached, LastVisited, Visited, NextKey
  <2>3. \A list, s : Candidates(list, s)' = Candidates(list, s)
    BY <2>1 DEF Candidates
  <2>4. FindBestMatch(Reached(tokens), tokens)' = FindBestMatch(Reached(tokens), tokens)
    BY <2>1, <2>2, <2>3 DEF FindBestMatch
  <2>. QED  BY <2>1, <2>2, <2>4 DEF RepeatsHit
<1>2. ASSUME IndInv, NEW r, parsed' = Append(parsed, r),
             r.TemplateID = NoID \/
               \E k \in FindBestMatch(Reached(Preprocess(r.log)), Preprocess(r.log))' :
                 heap'[Reached(Preprocess(r.log))'[k]].ID = r.TemplateID
      PROVE  RepeatsHit'
  <2>1. parsed'[Len(parsed')] = r
    BY <1>2 DEF IndInv, TypeOK
  <2>. QED  BY <1>2, <2>1 DEF RepeatsHit
<1>3. ASSUME IndInv, NEW l \in Logs, ParseEmpty(l)
      PROVE  RepeatsHit'
  <2>1. parsed' = Append(parsed, ErrorResult(l)) /\ ErrorResult(l).TemplateID = NoID
    BY <1>3 DEF ParseEmpty, ErrorResult
  <2>. QED  BY <1>2, <1>3, <2>1
<1>4. ASSUME IndInv, NEW l \in Logs, NEW ts \in Timestamps, ParseNew(l, ts)
      PROVE  RepeatsHit'
  <2>. DEFINE r == ParseResult(l, NewCluster(Preprocess(l), ts), TRUE)
  <2>1. parsed' = Append(parsed, r)
    BY <1>4 DEF ParseNew
  <2>2. r.log = l /\ r.TemplateID = Hash(Preprocess(l))
    BY DEF ParseResult, NewCluster
  <2>3. \E k \in FindBestMatch(Reached(Preprocess(l)), Preprocess(l))' :
          heap'[Reached(Preprocess(l))'[k]].ID = Hash(Preprocess(l))
    BY <1>4, ParseNewRepeats
  <2>. HIDE DEF r
  <2>. QED  BY <1>2, <1>4, <2>1, <2>2, <2>3
<1>5. ASSUME IndInv, NEW l \in Logs, NEW ts \in Timestamps, ParseKnown(l, ts)
      PROVE  RepeatsHit'
  BY <1>2, <1>5, ParseKnownRepeats
<1>. QED  BY <1>1, <1>3, <1>4, <1>5 DEF Next, Parse

\* A line parsed twice in a row gets one id: the walk leads back to the cluster, and
\* no other cluster of its leaf is as similar or as early.
THEOREM RepeatsFindTheirCluster == Spec => []RepeatsHit
<1>1. Init => RepeatsHit
  BY DEF Init, RepeatsHit
<1>. QED  BY <1>1, NextRepeatsHit, Invariance, PTL DEF Spec

----------------------------------------------------------------------------
(* The statistics.                                                         *)

\* The lines with an id, after one more call of Parse.
LEMMA LinesOfGrows ==
  ASSUME TypeOK, NEW r, parsed' = Append(parsed, r), NEW id
  PROVE  /\ LinesOf(id)' = IF r.TemplateID = id THEN LinesOf(id) \cup {Len(parsed) + 1}
                           ELSE LinesOf(id)
         /\ Len(parsed) + 1 \notin LinesOf(id)
         /\ IsFiniteSet(LinesOf(id)) /\ Cardinality(LinesOf(id)) \in Nat
<1>1. parsed \in Seq(ResultType) /\ DOMAIN parsed = 1..Len(parsed) /\ Len(parsed) \in Nat
  BY DEF TypeOK
<1>2. /\ DOMAIN parsed' = 1..(Len(parsed) + 1)
      /\ \A n \in 1..Len(parsed) : parsed'[n] = parsed[n]
      /\ parsed'[Len(parsed) + 1] = r
  BY <1>1
<1>3. IsFiniteSet(LinesOf(id))
  <2>1. IsFiniteSet(1..Len(parsed)) /\ LinesOf(id) \in SUBSET (1..Len(parsed))
    BY <1>1, FS_Interval DEF LinesOf
  <2>. QED  BY <2>1, FS_Subset
<1>4. Len(parsed) + 1 \notin LinesOf(id)
  BY <1>1 DEF LinesOf
<1>5. LinesOf(id)' = {n \in 1..(Len(parsed) + 1) : parsed'[n].TemplateID = id}
  BY <1>2 DEF LinesOf
<1>6. LinesOf(id) = {n \in 1..Len(parsed) : parsed[n].TemplateID = id}
  BY <1>1 DEF LinesOf
<1>7. 1..(Len(parsed) + 1) = 1..Len(parsed) \cup {Len(parsed) + 1}
  BY <1>1
<1>. QED  BY <1>2, <1>3, <1>4, <1>5, <1>6, <1>7, FS_CardinalityType

\* A founded cluster has one line, its own; the lines of the others are theirs.
LEMMA ParseNewCountsLines ==
  ASSUME IndInv, LinesStayCovered, SizesCountLines,
         NEW l \in Logs, NEW ts \in Timestamps, ParseNew(l, ts)
  PROVE  SizesCountLines'
<1>. DEFINE tokens == Preprocess(l)
            cluster == NewCluster(tokens, ts)
            r == ParseResult(l, cluster, TRUE)
<1>1. /\ heap' = Append(heap, cluster) /\ parsed' = Append(parsed, r)
      /\ DOMAIN clusters' = DOMAIN clusters \cup {Hash(tokens)}
      /\ clusters'[Hash(tokens)] = Len(heap) + 1
  BY DEF ParseNew, NewCluster
<1>2. r.TemplateID = Hash(tokens) /\ cluster.Size = 1
  BY DEF ParseResult, NewCluster
<1>3. TypeOK /\ heap \in Seq(ClusterType) /\ parsed \in Seq(ResultType)
  BY DEF IndInv, TypeOK
<1>. HIDE DEF r, cluster
<1>4. ASSUME NEW id \in DOMAIN clusters
      PROVE  LinesOf(id)' # {} /\ GetCluster(id)'.Size = Cardinality(LinesOf(id)')
  <2>1. id # Hash(tokens) /\ GetCluster(id)' = GetCluster(id)
    BY NewIDIsUnused, ParseNewKeepsClusters DEF GetCluster
  <2>2. LinesOf(id)' = LinesOf(id)
    BY <1>1, <1>2, <1>3, <2>1, LinesOfGrows
  <2>. QED  BY <2>1, <2>2 DEF SizesCountLines
<1>5. LinesOf(Hash(tokens)) = {}
  <2>1. Hash(tokens) # NoID /\ Hash(tokens) \notin DOMAIN clusters
    BY HashAssumption, NewIDIsUnused
  <2>. QED  BY <2>1 DEF LinesOf, LinesStayCovered
<1>6. LinesOf(Hash(tokens))' # {} /\ GetCluster(Hash(tokens))'.Size = Cardinality(LinesOf(Hash(tokens))')
  <2>1. LinesOf(Hash(tokens))' = {Len(parsed) + 1}
    BY <1>1, <1>2, <1>3, <1>5, LinesOfGrows
  <2>2. GetCluster(Hash(tokens))' = cluster
    BY <1>1, <1>3 DEF GetCluster
  <2>. QED  BY <1>2, <2>1, <2>2, FS_Singleton
<1>. QED  BY <1>1, <1>4, <1>6 DEF SizesCountLines

\* An updated cluster counts one line more, the one that was given its id.
LEMMA ParseKnownCountsLines ==
  ASSUME IndInv, SizesCountLines, NEW l \in Logs, NEW ts \in Timestamps, ParseKnown(l, ts)
  PROVE  SizesCountLines'
<1>. DEFINE tokens == Preprocess(l)
<1>1. PICK k \in FindBestMatch(Reached(tokens), tokens) :
        LET p == Reached(tokens)[k]
            updated == UpdatedCluster(heap[p], tokens, ts)
        IN  /\ heap' = [heap EXCEPT ![p] = updated]
            /\ parsed' = Append(parsed, ParseResult(l, updated, FALSE))
  BY DEF ParseKnown
<1>. DEFINE p == Reached(tokens)[k]
            updated == UpdatedCluster(heap[p], tokens, ts)
            r == ParseResult(l, updated, FALSE)
<1>2. tokens \in Seq(Token) /\ tokens # << >> /\ clusters' = clusters
  BY PreprocessType DEF ParseKnown
<1>3. TypeOK /\ heap \in Seq(ClusterType) /\ DOMAIN heap = 1..Len(heap)
  BY DEF IndInv, TypeOK
<1>4. p \in DOMAIN heap /\ Len(heap[p].Tokens) = Len(tokens)
  BY <1>2, BestMatchProperties
<1>5. heap[p] \in ClusterType /\ heap[p].Tokens \in Seq(Token)
  BY <1>3, <1>4, HeapType
<1>6. updated.ID = heap[p].ID /\ updated.Size = heap[p].Size + 1
  <2>1. Generalize(heap[p].Tokens, tokens) \in Seq(Token)
    BY <1>2, <1>4, <1>5, GeneralizeCovers
  <2>. QED  BY <1>5, <2>1, UpdatedClusterType
<1>7. r.TemplateID = heap[p].ID
  BY <1>6 DEF ParseResult
<1>8. heap'[p] = updated /\ \A c \in DOMAIN heap : c # p => heap'[c] = heap[c]
  BY <1>1, <1>3, <1>4
<1>9. parsed' = Append(parsed, r)
  BY <1>1
<1>. HIDE DEF r, updated, p
<1>. SUFFICES ASSUME NEW id \in DOMAIN clusters
              PROVE  LinesOf(id)' # {} /\ heap'[clusters[id]].Size = Cardinality(LinesOf(id)')
  BY <1>2 DEF SizesCountLines, GetCluster
<1>10. clusters[id] \in DOMAIN heap /\ heap[clusters[id]].ID = id
  BY <1>3, MappedClusterType
<1>11. LinesOf(id) # {} /\ heap[clusters[id]].Size = Cardinality(LinesOf(id))
  BY DEF SizesCountLines, GetCluster
<1>12. CASE heap[p].ID = id
  <2>1. clusters[id] = p
    BY <1>4, <1>12 DEF IndInv, UniqueIDs
  <2>2. LinesOf(id)' = LinesOf(id) \cup {Len(parsed) + 1} /\ Len(parsed) + 1 \notin LinesOf(id)
        /\ IsFiniteSet(LinesOf(id))
    BY <1>3, <1>7, <1>9, <1>12, LinesOfGrows
  <2>3. Cardinality(LinesOf(id)') = Cardinality(LinesOf(id)) + 1
    BY <2>2, FS_AddElement
  <2>. QED  BY <1>6, <1>8, <1>11, <2>1, <2>2, <2>3
<1>13. CASE heap[p].ID # id
  <2>1. LinesOf(id)' = LinesOf(id)
    BY <1>3, <1>7, <1>9, <1>13, LinesOfGrows
  <2>. QED  BY <1>8, <1>10, <1>11, <1>13, <2>1
<1>. QED  BY <1>12, <1>13

LEMMA NextSizesCountLines ==
  IndInv /\ LinesStayCovered /\ SizesCountLines /\ [Next]_vars => SizesCountLines'
<1>1. UNCHANGED vars /\ SizesCountLines => SizesCountLines'
  BY DEF vars, SizesCountLines, GetCluster, LinesOf
<1>2. ASSUME IndInv, SizesCountLines, NEW l \in Logs, ParseEmpty(l)
      PROVE  SizesCountLines'
  <2>1. /\ parsed' = Append(parsed, ErrorResult(l)) /\ ErrorResult(l).TemplateID = NoID
        /\ heap' = heap /\ clusters' = clusters
    BY <1>2 DEF ParseEmpty, ErrorResult
  <2>2. TypeOK /\ NoID \notin DOMAIN clusters
    BY <1>2, HashAssumption DEF IndInv, TypeOK, TemplateIDs
  <2>3. \A id \in DOMAIN clusters : LinesOf(id)' = LinesOf(id)
    BY <2>1, <2>2, LinesOfGrows
  <2>. QED  BY <1>2, <2>1, <2>3 DEF SizesCountLines, GetCluster
<1>. QED  BY <1>1, <1>2, ParseNewCountsLines, ParseKnownCountsLines DEF Next, Parse

\* What GetStats adds up is the number of lines with an id.
LEMMA SizesAddUp ==
  ASSUME TypeOK, NoID \notin DOMAIN clusters, LinesStayCovered, SizesCountLines
  PROVE  StatsAddUp /\ ClusterCount \in Nat /\ TotalLogs \in Nat
<1>. DEFINE T == {n \in DOMAIN parsed : parsed[n].TemplateID # NoID}
            D == DOMAIN clusters
            g == [n \in T |-> parsed[n].TemplateID]
            f == [id \in D |-> GetCluster(id).Size]
<1>1. IsFiniteSet(T)
  <2>1. DOMAIN parsed = 1..Len(parsed) /\ Len(parsed) \in Nat
    BY DEF TypeOK
  <2>2. IsFiniteSet(1..Len(parsed)) /\ T \in SUBSET (1..Len(parsed))
    BY <2>1, FS_Interval
  <2>. QED  BY <2>2, FS_Subset
<1>2. g \in [T -> D]
  BY DEF LinesStayCovered
<1>3. \A id \in D : LinesOf(id) = {n \in T : g[n] = id}
  BY DEF LinesOf
<1>4. g \in Surjection(T, D)
  BY <1>2, <1>3 DEF Surjection, SizesCountLines
<1>5. IsFiniteSet(D) /\ Cardinality(D) <= Cardinality(T)
  BY <1>1, <1>4, FS_Surjection
<1>6. \A id \in D : f[id] = Cardinality({n \in T : g[n] = id})
  BY <1>3 DEF SizesCountLines
<1>7. f \in [D -> Nat]
  <2>1. \A id \in D : Cardinality({n \in T : g[n] = id}) \in Nat
    BY <1>1, FS_Subset, FS_CardinalityType
  <2>. QED  BY <1>6, <2>1
<1>8. TotalLogs = SumFunction(f)
  BY DEF TotalLogs
<1>. HIDE DEF T, D, g, f
<1>9. SumFunction(f) = Cardinality(T)
  BY <1>1, <1>2, <1>5, <1>6, <1>7, SumOfCounts
<1>10. Cardinality(D) \in Nat /\ Cardinality(T) \in Nat
  BY <1>1, <1>5, FS_CardinalityType
<1>. QED  BY <1>5, <1>8, <1>9, <1>10 DEF StatsAddUp, ClusterCount, T, D

\* Every cluster of the id map counts exactly the lines that were given its id, and
\* the sum GetStats takes over the map is the number of lines parsed without error:
\* no cluster is lost from the map or reached by two ids.
THEOREM StatsCorrect == Spec => []MinerInv
<1>1. Init => SizesCountLines
  BY DEF Init, SizesCountLines
<1>2. Spec => []SizesCountLines
  BY <1>1, NextSizesCountLines, Invariance, LinesCovered, PTL DEF Spec
<1>3. IndInv /\ LinesStayCovered /\ SizesCountLines => MinerInv
  <2>1. IndInv => TypeOK /\ NoID \notin DOMAIN clusters
    BY HashAssumption DEF IndInv, TypeOK, TemplateIDs
  <2>. QED  BY <2>1, SizesAddUp DEF MinerInv
<1>. QED  BY <1>2, <1>3, Invariance, LinesCovered, PTL

----------------------------------------------------------------------------
(* What a call of Parse returns.                                           *)

\* A call adds one result, with its line, and an id unless the line has no tokens.
LEMMA ParseAnswers ==
  ASSUME IndInv, NEW l \in Logs, NEW ts \in Timestamps, Parse(l, ts)
  PROVE  \E r : /\ parsed' = Append(parsed, r) /\ r.log = l
                /\ r.TemplateID = NoID <=> l = << >>
<1>1. CASE ParseEmpty(l)
  <2>1. l = << >>
    BY <1>1, TokenAssumption DEF ParseEmpty
  <2>. QED  BY <1>1, <2>1 DEF ParseEmpty, ErrorResult
<1>2. CASE ParseNew(l, ts) \/ ParseKnown(l, ts)
  <2>1. PICK c \in DOMAIN heap', isNew \in BOOLEAN :
          /\ parsed' = Append(parsed, ParseResult(l, heap'[c], isNew))
          /\ heap'[c].ID \in DOMAIN clusters'
    BY <1>2, ParseOutcome
  <2>2. IndInv'
    BY <1>2, ParseNewIndInv, ParseKnownIndInv
  <2>3. heap'[c].ID # NoID
    BY <2>1, <2>2, HashAssumption DEF IndInv, TypeOK, TemplateIDs
  <2>4. l # << >>
    <3>1. Len(l) > 0
      BY <1>2 DEF ParseNew, ParseKnown
    <3>. QED  BY <3>1
  <2>5. ParseResult(l, heap'[c], isNew).log = l /\ ParseResult(l, heap'[c], isNew).TemplateID = heap'[c].ID
    BY DEF ParseResult
  <2>. QED  BY <2>1, <2>3, <2>4, <2>5
<1>. QED  BY <1>1, <1>2 DEF Parse
==============================================================================
