--------------------------- MODULE CompressionProofs ---------------------------
(***************************************************************************)
(* Proofs about Compression and its parts, for every set of lines and of   *)
(* texts, every configuration of the miner and every set of rules: what    *)
(* the loop of Redact leaves, and what CompressLog returns.                *)
(***************************************************************************)
EXTENDS Compression, TLAPS, FiniteSetTheorems, WellFoundedInduction

MinerThms == INSTANCE DrainTreeProofs

----------------------------------------------------------------------------
(* The loop of Redact.                                                     *)

N == Cardinality(Rules)

\* An instance has cardinalities of its own: the same.
LEMMA SameCounts ==
  /\ \A S : MinerThms!Cardinality(S) = Cardinality(S)
  /\ \A S : Miner!Cardinality(S) = Cardinality(S)
  /\ \A S : Redactor!Cardinality(S) = Cardinality(S)
BY DEF MinerThms!Cardinality, Miner!Cardinality, Redactor!Cardinality, Cardinality

\* Each order is a function on the turns that names each rule.
LEMMA OrderFacts ==
  ASSUME NEW order \in Redactor!Orders
  PROVE  /\ N \in Nat
         /\ order \in [1..N -> Rules]
         /\ \A rule \in Rules : \E k \in 1..N : order[k] = rule
<1>1. N \in Nat
  BY RulesAssumption, FS_CardinalityType DEF N
<1>2. order \in Redactor!Bijection(1..N, Rules)
  BY SameCounts DEF Redactor!Orders, N
<1>. QED  BY <1>1, <1>2 DEF Redactor!Bijection, Redactor!Injection, Redactor!Surjection

\* A set of naturals that is not empty has a least element.
LEMMA LeastNatural ==
  ASSUME NEW T \in SUBSET Nat, T # {}
  PROVE  \E x \in T : \A y \in T : x <= y
<1>1. PICK x \in T : \A y \in T : <<y, x>> \notin OpToRel(<, Nat)
  BY WFMin, NatLessThanWellFounded
<1>2. \A y \in T : ~(y < x)
  BY <1>1 DEF OpToRel
<1> QED
  BY <1>2

\* What fails at some turn, and held before the loop, fails at a first turn.
LEMMA FirstTurn ==
  ASSUME NEW n \in Nat, NEW Bad \in SUBSET (0..n), Bad # {}, 0 \notin Bad
  PROVE  \E i \in 1..n : i \in Bad /\ i - 1 \in 0..n /\ i - 1 \notin Bad
<1>1. PICK i \in Bad : \A j \in Bad : i <= j
  BY LeastNatural
<1>. QED  BY <1>1

\* A rule makes a text of a text, one in which it sees nothing more.
LEMMA RuleFacts ==
  ASSUME NEW rule \in Rules, NEW text \in Texts
  PROVE  Rewrite[rule][text] \in Texts /\ ~Redactor!Detects(rule, Rewrite[rule][text])
<1>1. Rewrite \in [Rules -> [Texts -> Texts]]
  BY RulesAssumption
<1>2. Rewrite[rule] \in [Texts -> Texts]
  BY <1>1
<1>. QED  BY <1>2, RulesAssumption

\* The recursion of Turns has a solution.
LEMMA TurnsExist ==
  ASSUME NEW order \in Redactor!Orders, NEW text \in Texts, NEW n \in 0..N
  PROVE  \E f : f = [i \in 0..n |-> IF i = 0 THEN text ELSE Rewrite[order[i]][f[i - 1]]]
<1>. DEFINE Solves(f, m) == f = [i \in 0..m |-> IF i = 0 THEN text ELSE Rewrite[order[i]][f[i - 1]]]
            Bad == {m \in 0..n : ~\E f : Solves(f, m)}
<1>0. n \in Nat
  BY OrderFacts
<1>1. 0 \notin Bad
  <2>1. Solves([i \in 0..0 |-> text], 0)
    OBVIOUS
  <2>. QED  BY <2>1
<1>2. ASSUME NEW m \in 1..n, NEW f, Solves(f, m - 1)
      PROVE  \E g : Solves(g, m)
  <2>. DEFINE g == [i \in 0..m |-> IF i = 0 THEN text ELSE Rewrite[order[i]][f[i - 1]]]
  <2>1. \A i \in 0..(m - 1) : g[i] = f[i]
    BY <1>2
  <2>2. \A i \in 1..m : i - 1 \in 0..(m - 1)
    OBVIOUS
  <2>3. \A i \in 1..m : g[i - 1] = f[i - 1]
    BY <2>1, <2>2, Zenon
  <2>4. \A i \in 0..m : g[i] = IF i = 0 THEN text ELSE Rewrite[order[i]][f[i - 1]]
    OBVIOUS
  <2>5. g = [i \in 0..m |-> g[i]]
    OBVIOUS
  <2>. HIDE DEF g
  <2>6. \A i \in 0..m : i # 0 => i \in 1..m
    OBVIOUS
  <2>7. \A i \in 0..m : g[i] = IF i = 0 THEN text ELSE Rewrite[order[i]][g[i - 1]]
    BY <2>3, <2>4, <2>6, Zenon
  <2>8. Solves(g, m)
    BY <2>5, <2>7, Zenon
  <2>. QED  BY <2>8
<1>. HIDE DEF Solves
<1>3. Bad = {}
  <2>1. SUFFICES ASSUME Bad # {} PROVE FALSE
    OBVIOUS
  <2>2. PICK m \in 1..n : m \in Bad /\ m - 1 \in 0..n /\ m - 1 \notin Bad
    BY <1>0, <1>1, <2>1, FirstTurn
  <2>. QED  BY <1>2, <2>2
<1>4. \E f : Solves(f, n)
  BY <1>0, <1>3
<1>. QED  BY <1>4 DEF Solves

\* The text before the loop and after each turn.
LEMMA TurnsFacts ==
  ASSUME NEW order \in Redactor!Orders, NEW text \in Texts
  PROVE  /\ Redactor!Turns(order, text)[0] = text
         /\ \A i \in 1..N : Redactor!Turns(order, text)[i]
                              = Rewrite[order[i]][Redactor!Turns(order, text)[i - 1]]
         /\ Redactor!Turns(order, text) \in [0..N -> Texts]
<1>. DEFINE Solves(f) == f = [i \in 0..N |-> IF i = 0 THEN text ELSE Rewrite[order[i]][f[i - 1]]]
            turns == Redactor!Turns(order, text)
<1>0. N \in Nat /\ N \in 0..N
  BY OrderFacts
<1>1. \E f : Solves(f)
  BY <1>0, TurnsExist
<1>2. turns = CHOOSE f : Solves(f)
  BY SameCounts DEF Redactor!Turns, N
<1>3. Solves(turns)
  BY <1>1, <1>2, Zenon
<1>4. /\ turns[0] = text
      /\ \A i \in 1..N : turns[i] = Rewrite[order[i]][turns[i - 1]]
      /\ turns = [i \in 0..N |-> turns[i]]
  <2>. HIDE DEF turns
  <2>. QED  BY <1>0, <1>3
<1>. HIDE DEF turns, Solves
<1>5. \A i \in 0..N : turns[i] \in Texts
  <2>. DEFINE Bad == {i \in 0..N : turns[i] \notin Texts}
  <2>1. SUFFICES ASSUME Bad # {} PROVE FALSE
    OBVIOUS
  <2>2. PICK i \in 1..N : i \in Bad /\ i - 1 \in 0..N /\ i - 1 \notin Bad
    BY <1>0, <1>4, <2>1, FirstTurn
  <2>3. turns[i - 1] \in Texts /\ order[i] \in Rules
    BY <2>2, OrderFacts
  <2>4. Rewrite[order[i]][turns[i - 1]] \in Texts
    BY <2>3, RuleFacts
  <2>. QED  BY <1>4, <2>2, <2>4
<1>6. turns \in [0..N -> Texts]
  BY <1>4, <1>5
<1>. QED  BY <1>4, <1>6 DEF turns

\* A text in which no rule sees anything is kept, whatever the order.
LEMMA RedactKeeps ==
  ASSUME NEW text \in Texts, Redactor!DetectPII(text) = {}, NEW result \in Redactor!Redact(text)
  PROVE  result = text
<1>1. PICK order \in Redactor!Orders : result = Redactor!Turns(order, text)[N]
  BY SameCounts DEF Redactor!Redact, N
<1>. DEFINE turns == Redactor!Turns(order, text)
            Bad == {i \in 0..N : turns[i] # text}
<1>2. N \in Nat /\ order \in [1..N -> Rules]
  BY OrderFacts
<1>3. turns[0] = text /\ \A i \in 1..N : turns[i] = Rewrite[order[i]][turns[i - 1]]
  BY TurnsFacts
<1>4. \A rule \in Rules : Rewrite[rule][text] = text
  BY DEF Redactor!DetectPII, Redactor!Detects
<1>. HIDE DEF turns
<1>5. Bad = {}
  <2>1. SUFFICES ASSUME Bad # {} PROVE FALSE
    OBVIOUS
  <2>2. PICK i \in 1..N : i \in Bad /\ i - 1 \in 0..N /\ i - 1 \notin Bad
    BY <1>2, <1>3, <2>1, FirstTurn
  <2>. QED  BY <1>2, <1>3, <1>4, <2>2
<1>. QED  BY <1>1, <1>2, <1>5 DEF turns

\* A rule that detects something in what the loop leaves saw nothing after its own turn:
\* some later turn laid it bare.
LEMMA LeftIsBare ==
  ASSUME NEW text \in Texts, NEW result \in Redactor!Redact(text),
         NEW rule \in Redactor!DetectPII(result)
  PROVE  Redactor!LaidBare(rule, text, result)
<1>1. PICK order \in Redactor!Orders : result = Redactor!Turns(order, text)[N]
  BY SameCounts DEF Redactor!Redact, N
<1>2. rule \in Rules /\ Redactor!Detects(rule, result)
  BY DEF Redactor!DetectPII
<1>. DEFINE turns == Redactor!Turns(order, text)
            Sees(i) == Redactor!Detects(rule, turns[i])
<1>3. N \in Nat /\ order \in [1..N -> Rules] /\ \E k \in 1..N : order[k] = rule
  BY <1>2, OrderFacts
<1>4. PICK k \in 1..N : order[k] = rule
  BY <1>3
<1>5. ~Sees(k)
  <2>1. turns \in [0..N -> Texts] /\ turns[k] = Rewrite[rule][turns[k - 1]]
    BY <1>4, TurnsFacts
  <2>2. turns[k - 1] \in Texts
    BY <1>3, <2>1
  <2>. QED  BY <1>2, <2>1, <2>2, RuleFacts
<1>6. Sees(N)
  BY <1>1, <1>2
<1>. DEFINE Bad == {d \in 0..(N - k) : Sees(k + d)}
<1>. HIDE DEF Sees
<1>7. N - k \in Nat /\ N - k \in Bad /\ 0 \notin Bad
  BY <1>3, <1>5, <1>6
<1>8. PICK d \in 1..(N - k) : d \in Bad /\ d - 1 \in 0..(N - k) /\ d - 1 \notin Bad
  BY <1>7, FirstTurn
<1>9. k + d \in 1..N /\ k < k + d /\ Sees(k + d) /\ ~Sees((k + d) - 1)
  BY <1>3, <1>8
<1>. QED  BY <1>1, <1>4, <1>9, SameCounts DEF Redactor!LaidBare, Sees, N

\* There is an order.
LEMMA SomeOrder == \E order : order \in Redactor!Orders
<1>1. IsFiniteSet(Rules)
  BY RulesAssumption
<1>2. ExistsBijection(1..N, Rules)
  BY <1>1, FS_CardinalityType DEF N
<1>. QED  BY <1>2, SameCounts DEF ExistsBijection, Bijection, Injection, Surjection, IsInjective,
     Redactor!Orders, Redactor!Bijection, Redactor!Injection, Redactor!Surjection,
     Redactor!IsInjective, N

\* A text in which no rule sees anything is what Redact makes of it.
LEMMA RedactOfPlain ==
  ASSUME NEW text \in Texts, Redactor!DetectPII(text) = {}
  PROVE  Redactor!Redact(text) = {text}
<1>1. PICK order : order \in Redactor!Orders
  BY SomeOrder
<1>2. Redactor!Turns(order, text)[N] \in Redactor!Redact(text)
  BY <1>1, SameCounts DEF Redactor!Redact, N
<1>. QED  BY <1>2, RedactKeeps

----------------------------------------------------------------------------
(* The miner inside the service.                                           *)

\* The service calls the miner within its assumptions.
LEMMA MinerAssumed ==
  /\ /\ Wild \notin Word \cup Variable
     /\ Word \cap Variable = {}
     /\ Logs \subseteq Seq(MinerThms!RawToken)
  /\ /\ MaxDepth \in Nat \ {0}
     /\ SimNum \in Nat /\ SimDen \in Nat \ {0} /\ SimNum <= SimDen
     /\ MaxParses \in Nat
  /\ /\ \A l, m \in Logs : Hash(MinerThms!Preprocess(l)) = Hash(MinerThms!Preprocess(m))
                             => MinerThms!Preprocess(l) = MinerThms!Preprocess(m)
     /\ \A l \in Logs : Hash(MinerThms!Preprocess(l)) # NoID
<1>1. \A l : MinerThms!Preprocess(l) = Miner!Preprocess(l)
  BY DEF MinerThms!Preprocess, Miner!Preprocess
<1>. QED  BY <1>1, MinerAssumption DEF MinerThms!RawToken, RawTokens

\* The operators of the miner, instantiated here and in its proofs.
LEMMA SameMiner ==
  ASSUME NEW l, NEW ts, Miner!Parse(l, ts)
  PROVE  MinerThms!Parse(l, ts)
<1>1. \A t : Miner!Preprocess(t) = MinerThms!Preprocess(t)
  BY DEF Miner!Preprocess, MinerThms!Preprocess
<1>2. \A t : Miner!LeafDepth(t) = MinerThms!LeafDepth(t)
  BY DEF Miner!LeafDepth, MinerThms!LeafDepth
<1>3. \A t : Miner!LeafPath(t) = MinerThms!LeafPath(t)
  BY <1>2 DEF Miner!LeafPath, MinerThms!LeafPath
<1>4. \A c, p : Miner!AddToTree(c, p) = MinerThms!AddToTree(c, p)
  BY DEF Miner!AddToTree, MinerThms!AddToTree, Miner!ClustersAt, MinerThms!ClustersAt,
     Miner!PathPrefixes, MinerThms!PathPrefixes
<1>5. \A t : Miner!Reached(t) = MinerThms!Reached(t)
  <2>1. \A n, t : Miner!NextKey(n, t) = MinerThms!NextKey(n, t)
    BY DEF Miner!NextKey, MinerThms!NextKey
  <2>2. \A t : Miner!Visited(t) = MinerThms!Visited(t)
    BY <1>2, <2>1 DEF Miner!Visited, MinerThms!Visited
  <2>3. \A t : Miner!LastVisited(t) = MinerThms!LastVisited(t)
    BY <2>2 DEF Miner!LastVisited, MinerThms!LastVisited
  <2>. QED  BY <1>2, <2>3 DEF Miner!Reached, MinerThms!Reached
<1>6. \A t, s : Miner!Matches(t, s) = MinerThms!Matches(t, s)
  BY SameCounts DEF Miner!Matches, MinerThms!Matches, Miner!Matching, MinerThms!Matching
<1>7. \A b, t : Miner!Candidates(b, t) = MinerThms!Candidates(b, t)
  BY <1>6 DEF Miner!Candidates, MinerThms!Candidates
<1>8. \A b, t : Miner!FindBestMatch(b, t) = MinerThms!FindBestMatch(b, t)
  BY <1>6, <1>7 DEF Miner!FindBestMatch, MinerThms!FindBestMatch
<1>9. \A c, t : Miner!UpdatedCluster(c, t, ts) = MinerThms!UpdatedCluster(c, t, ts)
  BY DEF Miner!UpdatedCluster, MinerThms!UpdatedCluster, Miner!Generalize, MinerThms!Generalize
<1>10. \A t : Miner!NewCluster(t, ts) = MinerThms!NewCluster(t, ts)
  BY DEF Miner!NewCluster, MinerThms!NewCluster
<1>11. \A c, n : Miner!ParseResult(l, c, n) = MinerThms!ParseResult(l, c, n)
  <2>1. \A t : Miner!Wildcards(t) = MinerThms!Wildcards(t)
    BY DEF Miner!Wildcards, MinerThms!Wildcards
  <2>2. \A t, i : Miner!VarNumber(t, i) = MinerThms!VarNumber(t, i)
    BY <2>1, SameCounts DEF Miner!VarNumber, MinerThms!VarNumber
  <2>3. \A t : Miner!ExtractVariables(t, l) = MinerThms!ExtractVariables(t, l)
    BY <2>1, <2>2 DEF Miner!ExtractVariables, MinerThms!ExtractVariables
  <2>. QED  BY <2>3 DEF Miner!ParseResult, MinerThms!ParseResult
<1>12. Miner!ErrorResult(l) = MinerThms!ErrorResult(l)
  BY DEF Miner!ErrorResult, MinerThms!ErrorResult
<1>13. CASE Miner!ParseEmpty(l)
  BY <1>12, <1>13 DEF Miner!Parse, MinerThms!Parse, Miner!ParseEmpty, MinerThms!ParseEmpty
<1>14. CASE Miner!ParseNew(l, ts)
  BY <1>1, <1>3, <1>4, <1>5, <1>7, <1>10, <1>11, <1>14
     DEF Miner!Parse, MinerThms!Parse, Miner!ParseNew, MinerThms!ParseNew
<1>15. CASE Miner!ParseKnown(l, ts)
  <2>. DEFINE tokens == MinerThms!Preprocess(l)
              list == MinerThms!Reached(tokens)
  <2>0. Miner!Preprocess(l) = tokens /\ Miner!Reached(tokens) = list
    BY <1>1, <1>5
  <2>1. /\ Len(l) > 0 /\ UNCHANGED <<clusters, tree>>
        /\ \E k \in MinerThms!FindBestMatch(list, tokens) :
             /\ heap' = [heap EXCEPT ![list[k]] =
                           MinerThms!UpdatedCluster(heap[list[k]], tokens, ts)]
             /\ parsed' = Append(parsed, MinerThms!ParseResult(l,
                           MinerThms!UpdatedCluster(heap[list[k]], tokens, ts), FALSE))
    <3>. HIDE DEF tokens, list
    <3>1. Len(l) > 0 /\ UNCHANGED <<clusters, tree>>
      BY <1>15 DEF Miner!ParseKnown
    <3>2. PICK k \in Miner!FindBestMatch(list, tokens) :
            /\ heap' = [heap EXCEPT ![list[k]] = Miner!UpdatedCluster(heap[list[k]], tokens, ts)]
            /\ parsed' = Append(parsed, Miner!ParseResult(l,
                          Miner!UpdatedCluster(heap[list[k]], tokens, ts), FALSE))
      BY <1>15, <2>0, Zenon DEF Miner!ParseKnown
    <3>3. k \in MinerThms!FindBestMatch(list, tokens)
      BY <1>8
    <3>4. Miner!UpdatedCluster(heap[list[k]], tokens, ts)
            = MinerThms!UpdatedCluster(heap[list[k]], tokens, ts)
      BY <1>9
    <3>5. Miner!ParseResult(l, MinerThms!UpdatedCluster(heap[list[k]], tokens, ts), FALSE)
            = MinerThms!ParseResult(l, MinerThms!UpdatedCluster(heap[list[k]], tokens, ts), FALSE)
      BY <1>11
    <3>6. heap' = [heap EXCEPT ![list[k]] = MinerThms!UpdatedCluster(heap[list[k]], tokens, ts)]
      BY <3>2, <3>4
    <3>7. parsed' = Append(parsed, MinerThms!ParseResult(l,
                           MinerThms!UpdatedCluster(heap[list[k]], tokens, ts), FALSE))
      BY <3>2, <3>4, <3>5
    <3>. QED  BY <3>1, <3>3, <3>6, <3>7
  <2>2. MinerThms!ParseKnown(l, ts)
    BY <2>1 DEF MinerThms!ParseKnown
  <2>. QED  BY <2>2 DEF Miner!Parse, MinerThms!Parse
<1>. QED  BY <1>13, <1>14, <1>15 DEF Miner!Parse

\* The miner of the service is a miner: what is proved of it holds.
LEMMA MinerInside == CompressionSpec => [](MinerThms!MinerInv /\ MinerThms!ResultsLossless)
<1>1. CompressionInit => MinerThms!Init
  BY DEF CompressionInit, Miner!Init, MinerThms!Init
<1>2. [CompressionNext]_compressionVars => [MinerThms!Next]_(MinerThms!vars)
  BY SameMiner DEF CompressionNext, CompressLog, MinerThms!Next, compressionVars, MinerThms!vars
<1>3. MinerThms!Spec => []MinerThms!MinerInv
  BY MinerThms!StatsCorrect, MinerAssumed, PTL
<1>4. MinerThms!Spec => []MinerThms!ResultsLossless
  BY MinerThms!NothingIsLost, MinerAssumed, PTL
<1>. QED  BY <1>1, <1>2, <1>3, <1>4, PTL DEF CompressionSpec, MinerThms!Spec

\* The invariant proved of the miner is the one the service is checked for.
LEMMA SameMinerInv == MinerThms!MinerInv => Miner!MinerInv
<1>. SUFFICES ASSUME MinerThms!MinerInv PROVE Miner!MinerInv
  OBVIOUS
<1>. USE SameCounts
<1>1. /\ \A t : Miner!Preprocess(t) = MinerThms!Preprocess(t)
      /\ \A t : Miner!LeafPath(t) = MinerThms!LeafPath(t)
      /\ \A p : Miner!PathPrefixes(p) = MinerThms!PathPrefixes(p)
      /\ \A t, s : Miner!Covers(t, s) <=> MinerThms!Covers(t, s)
  BY DEF Miner!Preprocess, MinerThms!Preprocess, Miner!LeafDepth, MinerThms!LeafDepth,
     Miner!LeafPath, MinerThms!LeafPath, Miner!PathPrefixes, MinerThms!PathPrefixes,
     Miner!Covers, MinerThms!Covers, Miner!Matching, MinerThms!Matching
<1>2. Miner!TypeOK
  <2>1. Miner!TemplateIDs = MinerThms!TemplateIDs
    BY <1>1 DEF Miner!TemplateIDs, MinerThms!TemplateIDs
  <2>2. /\ Miner!ClusterType = MinerThms!ClusterType
        /\ Miner!ResultType = MinerThms!ResultType
        /\ Miner!Key = MinerThms!Key
    BY <2>1 DEF Miner!ClusterType, MinerThms!ClusterType, Miner!ResultType, MinerThms!ResultType,
       Miner!Key, MinerThms!Key, Miner!Token, MinerThms!Token, Miner!RawToken, MinerThms!RawToken
  <2>. QED  BY <2>1, <2>2 DEF MinerThms!MinerInv, MinerThms!IndInv, MinerThms!TypeOK, Miner!TypeOK
<1>3. Miner!TreeIsPrefixClosed
  BY <1>1 DEF MinerThms!MinerInv, MinerThms!IndInv, MinerThms!TreeIsPrefixClosed,
     Miner!TreeIsPrefixClosed
<1>4. Miner!ClustersFounded
  BY <1>1 DEF MinerThms!MinerInv, MinerThms!IndInv, MinerThms!ClustersFounded, Miner!ClustersFounded
<1>5. Miner!PathAgreesWithTemplate
  BY <1>1 DEF MinerThms!MinerInv, MinerThms!IndInv, MinerThms!PathAgreesWithTemplate,
     Miner!PathAgreesWithTemplate
<1>6. Miner!UniqueIDs /\ Miner!DistinctTemplates
  BY DEF MinerThms!MinerInv, MinerThms!IndInv, MinerThms!UniqueIDs, Miner!UniqueIDs,
     MinerThms!DistinctTemplates, Miner!DistinctTemplates
<1>7. Miner!LinesStayCovered /\ Miner!SizesCountLines
  BY <1>1 DEF MinerThms!MinerInv, MinerThms!LinesStayCovered, Miner!LinesStayCovered,
     MinerThms!SizesCountLines, Miner!SizesCountLines, MinerThms!GetCluster, Miner!GetCluster,
     MinerThms!LinesOf, Miner!LinesOf
<1>8. Miner!StatsAddUp
  <2>1. Miner!ClusterCount = MinerThms!ClusterCount
    BY DEF Miner!ClusterCount, MinerThms!ClusterCount
  <2>2. [id \in DOMAIN clusters |-> Miner!GetCluster(id).Size]
          = [id \in DOMAIN clusters |-> MinerThms!GetCluster(id).Size]
    BY DEF Miner!GetCluster, MinerThms!GetCluster
  <2>3. \A f : Miner!SumFunction(f) = MinerThms!SumFunction(f)
    BY DEF Miner!SumFunction, MinerThms!SumFunction, Miner!SumFunctionOnSet,
       MinerThms!SumFunctionOnSet, Miner!FoldFunctionOnSet, MinerThms!FoldFunctionOnSet,
       Miner!MapThenFoldSet, MinerThms!MapThenFoldSet
  <2>4. Miner!TotalLogs = MinerThms!TotalLogs
    BY <2>2, <2>3 DEF Miner!TotalLogs, MinerThms!TotalLogs
  <2>. QED  BY <2>1, <2>4 DEF MinerThms!MinerInv, MinerThms!StatsAddUp, Miner!StatsAddUp
<1>. QED  BY <1>2, <1>3, <1>4, <1>5, <1>6, <1>7, <1>8 DEF Miner!MinerInv, Miner!IndInv


----------------------------------------------------------------------------
(* What Parse extracts, and what redaction makes of it.                    *)

\* The result of a call, with its line.
LEMMA ParseAppends ==
  ASSUME MinerThms!MinerInv, MinerThms!MinerInv', NEW l \in Logs, NEW ts \in Timestamps,
         MinerThms!Parse(l, ts)
  PROVE  \E r \in MinerThms!ResultType : parsed' = Append(parsed, r) /\ r.log = l
<1>1. parsed \in Seq(MinerThms!ResultType) /\ parsed' \in Seq(MinerThms!ResultType)
  BY DEF MinerThms!MinerInv, MinerThms!IndInv, MinerThms!TypeOK
<1>2. \E r : parsed' = Append(parsed, r) /\ r.log = l
  <2>1. CASE MinerThms!ParseEmpty(l)
    <3>1. MinerThms!ErrorResult(l).log = l
      BY DEF MinerThms!ErrorResult
    <3>. QED  BY <2>1, <3>1 DEF MinerThms!ParseEmpty
  <2>2. \A c, isNew : MinerThms!ParseResult(l, c, isNew).log = l
    BY DEF MinerThms!ParseResult
  <2>3. CASE MinerThms!ParseNew(l, ts)
    <3>1. \E c : parsed' = Append(parsed, MinerThms!ParseResult(l, c, TRUE))
      BY <2>3 DEF MinerThms!ParseNew
    <3>. QED  BY <2>2, <3>1
  <2>4. CASE MinerThms!ParseKnown(l, ts)
    <3>1. \E c : parsed' = Append(parsed, MinerThms!ParseResult(l, c, FALSE))
      BY <2>4 DEF MinerThms!ParseKnown
    <3>. QED  BY <2>2, <3>1
  <2>. QED  BY <2>1, <2>3, <2>4 DEF MinerThms!Parse
<1>3. PICK r : parsed' = Append(parsed, r) /\ r.log = l
  BY <1>2
<1>4. r = parsed'[Len(parsed) + 1] /\ Len(parsed) + 1 \in 1..Len(parsed')
  BY <1>1, <1>3
<1>5. r \in MinerThms!ResultType
  BY <1>1, <1>4
<1>. QED  BY <1>3, <1>5

\* The redacted map has one text for each variable that has one value: a redaction of it.
LEMMA VariablesAreRedacted ==
  ASSUME NEW raw \in SUBSET (Nat \X RawTokens), NEW variables \in Redactor!RedactVariables(raw)
  PROVE  /\ variables \in SUBSET (Nat \X Texts)
         /\ \A n, token : {v \in RawTokens : <<n, v>> \in raw} = {token} =>
              \E text \in Redactor!Redact(token) : {v \in Texts : <<n, v>> \in variables} = {text}
<1>1. PICK f : /\ variables = {<<entry[1], f[entry]>> : entry \in raw}
               /\ \A entry \in raw : f[entry] \in Redactor!Redact(entry[2])
  BY DEF Redactor!RedactVariables
<1>2. \A entry \in raw : /\ entry[1] \in Nat /\ entry[2] \in RawTokens /\ entry[2] \in Texts
                         /\ entry = <<entry[1], entry[2]>>
  BY RulesAssumption
<1>3. ASSUME NEW text \in Texts, NEW result \in Redactor!Redact(text) PROVE result \in Texts
  <2>1. PICK order \in Redactor!Orders : result = Redactor!Turns(order, text)[N]
    BY SameCounts DEF Redactor!Redact, N
  <2>2. Redactor!Turns(order, text) \in [0..N -> Texts] /\ N \in 0..N
    BY TurnsFacts, OrderFacts
  <2>. QED  BY <2>1, <2>2
<1>4. \A entry \in raw : f[entry] \in Texts
  BY <1>1, <1>2, <1>3
<1>5. variables \in SUBSET (Nat \X Texts)
  BY <1>1, <1>2, <1>4
<1>6. ASSUME NEW n, NEW token, {v \in RawTokens : <<n, v>> \in raw} = {token}
      PROVE  \E text \in Redactor!Redact(token) : {v \in Texts : <<n, v>> \in variables} = {text}
  <2>. DEFINE e == <<n, token>>
  <2>1. e \in raw /\ f[e] \in Redactor!Redact(token) /\ f[e] \in Texts
    <3>1. token \in {v \in RawTokens : <<n, v>> \in raw}
      BY <1>6
    <3>2. e \in raw /\ e[2] = token
      BY <3>1
    <3>. QED  BY <1>1, <1>4, <3>2
  <2>2. ASSUME NEW v, <<n, v>> \in variables PROVE v = f[e]
    <3>1. PICK entry \in raw : <<n, v>> = <<entry[1], f[entry]>>
      BY <1>1, <2>2
    <3>2. entry[1] = n /\ v = f[entry]
      BY <3>1
    <3>3. entry[2] \in RawTokens /\ <<n, entry[2]>> \in raw
      BY <1>2, <3>2
    <3>4. entry[2] \in {token}
      BY <1>6, <3>3
    <3>. QED  BY <1>2, <3>2, <3>4
  <2>3. <<n, f[e]>> \in variables
    <3>1. <<e[1], f[e]>> \in variables /\ e[1] = n
      BY <1>1, <2>1
    <3>. QED  BY <3>1
  <2>. HIDE DEF e
  <2>4. {v \in Texts : <<n, v>> \in variables} = {f[e]}
    BY <2>1, <2>2, <2>3
  <2>. QED  BY <2>1, <2>4
<1>. QED  BY <1>5, <1>6


----------------------------------------------------------------------------
(* The results that are stored.                                            *)

\* What RedactionIsExact says of one result.
IsExact(s) ==
  /\ Len(s.Template) = Len(s.log)
  /\ \A k \in DOMAIN s.log : \E text \in Redactor!Redact(s.log[k]) : StoredAt(s, k) = {text}
  /\ \A k \in DOMAIN s.log : \A text \in StoredAt(s, k) : \A rule \in Redactor!DetectPII(text) :
       Redactor!LaidBare(rule, s.log[k], text)
  /\ \A stretch \in Spread, k \in 0..Len(s.log) :
       StandsAt(stretch, s.log, k) => \A j \in DOMAIN stretch : StoredAt(s, k + j) = {stretch[j]}

LEMMA ExactResults == RedactionIsExact <=> \A i \in DOMAIN stored : IsExact(stored[i])
BY Zenon DEF RedactionIsExact, TokensAreRedacted, LeftIsLaidBare, SpreadIsStored, IsExact

\* What CompressLog returns is exact and of its type.
LEMMA StoredIsExact ==
  ASSUME NEW l \in Logs, NEW t \in Seq(Word \cup {Wild}), NEW raw \in SUBSET (Nat \X RawTokens),
         Len(t) = Len(l),
         \A i \in DOMAIN l : IF t[i] = Wild
                             THEN {v \in RawTokens : <<Miner!VarNumber(t, i), v>> \in raw} = {l[i]}
                             ELSE t[i] = l[i],
         NEW variables \in Redactor!RedactVariables(raw)
  PROVE  LET s == [Template |-> t, log |-> l, Variables |-> variables]
         IN  s \in StoredType /\ IsExact(s)
<1>. DEFINE s == [Template |-> t, log |-> l, Variables |-> variables]
<1>1. s \in StoredType /\ s.Template = t /\ s.log = l /\ s.Variables = variables
  BY VariablesAreRedacted DEF StoredType
<1>2. /\ l \in Seq(RawTokens) /\ DOMAIN l = 1..Len(l) /\ DOMAIN t = DOMAIN l
      /\ \A k \in DOMAIN l : l[k] \in RawTokens /\ l[k] \in Texts /\ t[k] \in Word \cup {Wild}
  <2>1. l \in Seq(RawTokens)
    BY MinerAssumption
  <2>2. DOMAIN l = 1..Len(l) /\ DOMAIN t = DOMAIN l
    BY <2>1
  <2>3. \A k \in DOMAIN l : l[k] \in RawTokens /\ t[k] \in Word \cup {Wild}
    BY <2>1, <2>2
  <2>. QED  BY <2>1, <2>2, <2>3, RulesAssumption
<1>. HIDE DEF s
<1>3. ASSUME NEW k \in DOMAIN l
      PROVE  \E text \in Redactor!Redact(l[k]) : StoredAt(s, k) = {text}
  <2>1. CASE t[k] = Wild
    <3>1. {v \in RawTokens : <<Miner!VarNumber(t, k), v>> \in raw} = {l[k]}
      BY <2>1
    <3>2. \E text \in Redactor!Redact(l[k]) :
            {v \in Texts : <<Miner!VarNumber(t, k), v>> \in variables} = {text}
      <4>1. \A n, token : {v \in RawTokens : <<n, v>> \in raw} = {token} =>
              \E text \in Redactor!Redact(token) : {v \in Texts : <<n, v>> \in variables} = {text}
        BY VariablesAreRedacted
      <4>. QED  BY <3>1, <4>1, Zenon
    <3>3. StoredAt(s, k) = {v \in Texts : <<Miner!VarNumber(t, k), v>> \in variables}
      BY <1>1, <2>1 DEF StoredAt
    <3>. QED  BY <3>2, <3>3
  <2>2. CASE t[k] # Wild
    <3>1. StoredAt(s, k) = {l[k]}
      BY <1>1, <2>2 DEF StoredAt
    <3>2. Redactor!DetectPII(l[k]) = {}
      BY <1>2, <2>2, RulesAssumption
    <3>3. Redactor!Redact(l[k]) = {l[k]}
      BY <1>2, <3>2, RedactOfPlain
    <3>. QED  BY <3>1, <3>3
  <2>. QED  BY <2>1, <2>2
<1>4. ASSUME NEW k \in DOMAIN l, NEW text \in StoredAt(s, k), NEW rule \in Redactor!DetectPII(text)
      PROVE  Redactor!LaidBare(rule, l[k], text)
  <2>1. text \in Redactor!Redact(l[k])
    BY <1>3
  <2>. QED  BY <1>2, <2>1, LeftIsBare
<1>5. ASSUME NEW stretch \in Spread, NEW k \in 0..Len(l), StandsAt(stretch, l, k),
             NEW j \in DOMAIN stretch
      PROVE  StoredAt(s, k + j) = {stretch[j]}
  <2>1. k + j \in DOMAIN l /\ l[k + j] = stretch[j]
    BY <1>5 DEF StandsAt
  <2>2. Redactor!DetectPII(l[k + j]) = {}
    BY <2>1, SpreadAssumption
  <2>3. Redactor!Redact(l[k + j]) = {l[k + j]}
    BY <1>2, <2>1, <2>2, RedactOfPlain
  <2>4. \E text \in Redactor!Redact(l[k + j]) : StoredAt(s, k + j) = {text}
    BY <1>3, <2>1
  <2>. QED  BY <2>1, <2>3, <2>4
<1>6. IsExact(s)
  BY <1>1, <1>3, <1>4, <1>5 DEF IsExact
<1>. QED  BY <1>1, <1>6 DEF s

\* The results, their number included.
ResultsOK ==
  /\ stored \in Seq(StoredType)
  /\ Len(stored) = Cardinality({i \in DOMAIN parsed : parsed[i].TemplateID # NoID})
  /\ RedactionIsExact

\* One more result with an id, or one without.
LEMMA OneMoreParsed ==
  ASSUME NEW R, parsed \in Seq(R), NEW r, parsed' = Append(parsed, r)
  PROVE  LET ids == {i \in DOMAIN parsed : parsed[i].TemplateID # NoID}
         IN  /\ parsed'[Len(parsed')] = r
             /\ Cardinality({i \in DOMAIN parsed' : parsed'[i].TemplateID # NoID})
                  = IF r.TemplateID # NoID THEN Cardinality(ids) + 1 ELSE Cardinality(ids)
<1>. DEFINE ids == {i \in DOMAIN parsed : parsed[i].TemplateID # NoID}
            idsNext == {i \in DOMAIN parsed' : parsed'[i].TemplateID # NoID}
            n == Len(parsed) + 1
<1>1. /\ DOMAIN parsed = 1..Len(parsed) /\ DOMAIN parsed' = 1..n /\ Len(parsed) \in Nat
      /\ Len(parsed') = n /\ parsed'[n] = r
      /\ \A i \in 1..Len(parsed) : parsed'[i] = parsed[i]
  OBVIOUS
<1>2. IsFiniteSet(ids) /\ n \notin ids
  <2>1. ids \in SUBSET (1..Len(parsed)) /\ IsFiniteSet(1..Len(parsed)) /\ n \notin 1..Len(parsed)
    BY <1>1, FS_Interval
  <2>. HIDE DEF ids, n
  <2>. QED  BY <2>1, FS_Subset
<1>3. idsNext = IF r.TemplateID # NoID THEN ids \cup {n} ELSE ids
  BY <1>1
<1>. HIDE DEF ids, idsNext, n
<1>4. Cardinality(ids \cup {n}) = Cardinality(ids) + 1
  BY <1>2, FS_AddElement
<1>. QED  BY <1>1, <1>3, <1>4 DEF ids, idsNext, n

\* Every call leaves the results exact.
LEMMA CompressLogResults ==
  ASSUME ResultsOK, MinerThms!MinerInv, MinerThms!MinerInv', MinerThms!ResultsLossless',
         NEW l \in Logs, NEW ts \in Timestamps, CompressLog(l, ts)
  PROVE  ResultsOK'
<1>1. PICK r \in MinerThms!ResultType : parsed' = Append(parsed, r) /\ r.log = l
  BY SameMiner, ParseAppends DEF CompressLog
<1>2. parsed \in Seq(MinerThms!ResultType)
  BY DEF MinerThms!MinerInv, MinerThms!IndInv, MinerThms!TypeOK
<1>. DEFINE ids == {i \in DOMAIN parsed : parsed[i].TemplateID # NoID}
            idsNext == {i \in DOMAIN parsed' : parsed'[i].TemplateID # NoID}
<1>3. /\ parsed'[Len(parsed')] = r
      /\ Cardinality(idsNext)
           = IF r.TemplateID # NoID THEN Cardinality(ids) + 1 ELSE Cardinality(ids)
  BY <1>1, <1>2, OneMoreParsed
<1>. HIDE DEF ids, idsNext
<1>4. r.Template \in Seq(Word \cup {Wild}) /\ r.Variables \in SUBSET (Nat \X RawTokens)
  BY DEF MinerThms!ResultType, MinerThms!Token, MinerThms!RawToken, RawTokens
<1>5. /\ Len(r.Template) = Len(l)
      /\ \A i \in DOMAIN l :
           IF r.Template[i] = Wild
           THEN {v \in RawTokens : <<Miner!VarNumber(r.Template, i), v>> \in r.Variables} = {l[i]}
           ELSE r.Template[i] = l[i]
  <2>1. \A i : MinerThms!VarNumber(r.Template, i) = Miner!VarNumber(r.Template, i)
    BY SameCounts DEF MinerThms!Wildcards, Miner!Wildcards, MinerThms!VarNumber, Miner!VarNumber
  <2>2. Len(parsed') \in DOMAIN parsed'
    BY <1>1, <1>2
  <2>3. /\ Len(r.Template) = Len(r.log)
        /\ \A i \in DOMAIN r.log :
             IF r.Template[i] = Wild
             THEN {v \in MinerThms!RawToken : <<MinerThms!VarNumber(r.Template, i), v>> \in r.Variables}
                    = {r.log[i]}
             ELSE r.Template[i] = r.log[i]
    BY <1>3, <2>2 DEF MinerThms!ResultsLossless
  <2>. QED  BY <1>1, <2>1, <2>3 DEF MinerThms!RawToken, RawTokens
<1>6. stored \in Seq(StoredType) /\ Len(stored) = Cardinality(ids)
      /\ \A i \in DOMAIN stored : IsExact(stored[i])
  BY ExactResults DEF ResultsOK, ids
<1>7. CASE r.TemplateID = NoID
  <2>1. stored' = stored
    BY <1>3, <1>7 DEF CompressLog
  <2>2. RedactionIsExact'
    BY <2>1 DEF ResultsOK, RedactionIsExact, TokensAreRedacted, LeftIsLaidBare, SpreadIsStored, StoredAt
  <2>. QED  BY <1>3, <1>6, <1>7, <2>1, <2>2 DEF ResultsOK, idsNext
<1>8. CASE r.TemplateID # NoID
  <2>1. PICK variables \in Redactor!RedactVariables(r.Variables) :
          stored' = Append(stored, [Template |-> r.Template, log |-> l, Variables |-> variables])
    BY <1>3, <1>8 DEF CompressLog
  <2>. DEFINE s == [Template |-> r.Template, log |-> l, Variables |-> variables]
  <2>2. s \in StoredType /\ IsExact(s)
    BY <1>4, <1>5, StoredIsExact
  <2>. HIDE DEF s
  <2>3. stored' = Append(stored, s)
    BY <2>1 DEF s
  <2>4. /\ stored' \in Seq(StoredType) /\ Len(stored') = Len(stored) + 1
        /\ \A i \in DOMAIN stored' : (i \in DOMAIN stored /\ stored'[i] = stored[i]) \/ stored'[i] = s
    BY <1>6, <2>2, <2>3
  <2>5. \A i \in DOMAIN stored' : IsExact(stored'[i])
    BY <1>6, <2>2, <2>4
  <2>6. RedactionIsExact'
    BY <2>5, Zenon DEF RedactionIsExact, TokensAreRedacted, LeftIsLaidBare, SpreadIsStored, IsExact, StoredAt
  <2>. QED  BY <1>3, <1>6, <1>8, <2>4, <2>6 DEF ResultsOK, idsNext
<1>. QED  BY <1>7, <1>8

LEMMA CompressionInitOK == CompressionInit => ResultsOK
<1>. SUFFICES ASSUME CompressionInit PROVE ResultsOK
  OBVIOUS
<1>1. parsed = << >> /\ stored = << >>
  BY DEF CompressionInit, Miner!Init
<1>2. {i \in DOMAIN parsed : parsed[i].TemplateID # NoID} = {}
  BY <1>1
<1>3. Len(stored) = Cardinality({i \in DOMAIN parsed : parsed[i].TemplateID # NoID})
  BY <1>1, <1>2, FS_EmptySet
<1>. QED  BY <1>1, <1>3 DEF ResultsOK, RedactionIsExact, TokensAreRedacted, LeftIsLaidBare, SpreadIsStored

LEMMA CompressionNextOK ==
  ResultsOK /\ MinerThms!MinerInv /\ MinerThms!MinerInv' /\ MinerThms!ResultsLossless'
    /\ [CompressionNext]_compressionVars => ResultsOK'
<1>1. UNCHANGED compressionVars /\ ResultsOK => ResultsOK'
  BY DEF compressionVars, ResultsOK, RedactionIsExact, TokensAreRedacted, LeftIsLaidBare,
     SpreadIsStored, StoredAt
<1>. QED  BY <1>1, CompressLogResults DEF CompressionNext

LEMMA AlwaysExact == CompressionSpec => []ResultsOK
BY CompressionInitOK, CompressionNextOK, MinerInside, PTL DEF CompressionSpec

\* The types of the service, and with them the invariant of its miner: every line that
\* got an id is stored, once.
THEOREM CompressionInvariance == CompressionSpec => [](CompressionTypeOK /\ Miner!MinerInv)
<1>1. ResultsOK /\ MinerThms!MinerInv => CompressionTypeOK /\ Miner!MinerInv
  BY SameMinerInv DEF ResultsOK, CompressionTypeOK, Miner!MinerInv, Miner!IndInv
<1>. QED  BY <1>1, AlwaysExact, MinerInside, PTL

\* Whatever the lines and the rules, and in whatever order a call applied them: a result is
\* its line with each token redacted by itself, of which a rule detects something only if
\* the turn of another one laid it bare; what is written with spaces is not redacted.
THEOREM RedactionLeavesTheRest == CompressionSpec => []RedactionIsExact
<1>1. ResultsOK => RedactionIsExact
  BY DEF ResultsOK
<1>. QED  BY <1>1, AlwaysExact, PTL
==============================================================================
