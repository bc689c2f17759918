---------------------------- MODULE AnomalyProofs ----------------------------
(***************************************************************************)
(* Alerts reach the processor of the anomaly service in the order in which *)
(* they were raised, whatever the handlers and the channel do.             *)
(***************************************************************************)
EXTENDS Anomaly, TLAPS, SequenceTheorems, FiniteSetTheorems, WellFoundedInduction

----------------------------------------------------------------------------
(* Sequences.                                                              *)

\* An alert sent is the last of all.
LEMMA SendAppends ==
  ASSUME NEW S, NEW p \in Seq(S), NEW q \in Seq(S), NEW x \in S
  PROVE  p \o Append(q, x) = Append(p \o q, x)
<1>1. /\ Append(q, x) = q \o <<x>>
      /\ p \o q \in Seq(S)
      /\ Append(p \o q, x) = (p \o q) \o <<x>>
  BY AppendIsConcat, ConcatProperties
<1>2. <<x>> \in Seq(S)
  OBVIOUS
<1> QED
  BY <1>1, <1>2, ConcatAssociative

\* An alert received goes from the head of the channel to the end of the processed ones.
LEMMA ReceiveMoves ==
  ASSUME NEW S, NEW p \in Seq(S), NEW q \in Seq(S), q # << >>
  PROVE  Append(p, Head(q)) \o Tail(q) = p \o q
<1> DEFINE pp == Append(p, Head(q))
<1>1. /\ Head(q) \in S /\ Tail(q) \in Seq(S) /\ Len(Tail(q)) = Len(q) - 1
      /\ \A i \in 1..Len(Tail(q)) : Tail(q)[i] = q[i + 1]
      /\ Head(q) = q[1] /\ Len(q) \in Nat /\ Len(p) \in Nat
  BY HeadTailProperties
<1>2. /\ pp \in Seq(S) /\ Len(pp) = Len(p) + 1
      /\ \A i \in 1..Len(p) : pp[i] = p[i]
      /\ pp[Len(p) + 1] = Head(q)
  BY <1>1, AppendProperties
<1>3. /\ pp \o Tail(q) \in Seq(S)
      /\ Len(pp \o Tail(q)) = Len(pp) + Len(Tail(q))
      /\ \A i \in 1..Len(pp) + Len(Tail(q)) :
           (pp \o Tail(q))[i] = IF i <= Len(pp) THEN pp[i] ELSE Tail(q)[i - Len(pp)]
  BY <1>1, <1>2, ConcatProperties
<1>4. /\ p \o q \in Seq(S)
      /\ Len(p \o q) = Len(p) + Len(q)
      /\ \A i \in 1..Len(p) + Len(q) : (p \o q)[i] = IF i <= Len(p) THEN p[i] ELSE q[i - Len(p)]
  BY ConcatProperties
<1> HIDE DEF pp
<1>5. Len(pp \o Tail(q)) = Len(p \o q)
  BY <1>1, <1>2, <1>3, <1>4
<1>6. ASSUME NEW i \in 1..Len(pp \o Tail(q))
      PROVE  (pp \o Tail(q))[i] = (p \o q)[i]
  <2>1. CASE i <= Len(p)
    BY <2>1, <1>1, <1>2, <1>3, <1>4
  <2>2. CASE i = Len(p) + 1
    BY <2>2, <1>1, <1>2, <1>3, <1>4
  <2>3. CASE i > Len(p) + 1
    <3>1. i - Len(pp) \in 1..Len(Tail(q)) /\ i - Len(pp) + 1 = i - Len(p)
      BY <2>3, <1>1, <1>2, <1>3
    <3>2. (pp \o Tail(q))[i] = Tail(q)[i - Len(pp)] /\ (p \o q)[i] = q[i - Len(p)]
      BY <2>3, <1>1, <1>2, <1>3, <1>4
    <3> QED
      BY <3>1, <3>2, <1>1
  <2> QED
    BY <2>1, <2>2, <2>3, <1>1, <1>2, <1>3
<1>7. pp \o Tail(q) = p \o q
  BY <1>3, <1>4, <1>5, <1>6, SeqEqual
<1> QED
  BY <1>7 DEF pp

\* A sequence is a prefix of itself.
LEMMA PrefixOfItself ==
  ASSUME NEW S, NEW s \in Seq(S)
  PROVE  IsPrefix(s, s)
BY DEF IsPrefix

\* A sequence is a prefix of itself with one more element.
LEMMA GrowthKeepsPrefix ==
  ASSUME NEW S, NEW s \in Seq(S), NEW x \in S
  PROVE  IsPrefix(s, Append(s, x))
<1>1. /\ Append(s, x) \in Seq(S) /\ Len(Append(s, x)) = Len(s) + 1 /\ Len(s) \in Nat
      /\ \A i \in 1..Len(s) : Append(s, x)[i] = s[i] /\ s[i] \in S
  BY AppendProperties
<1> DEFINE a == SubSeq(s, 1, Len(s))
           b == SubSeq(Append(s, x), 1, Len(s))
<1>2. /\ a \in Seq(S) /\ Len(a) = Len(s)
      /\ b \in Seq(S) /\ Len(b) = Len(s)
      /\ \A i \in 1..Len(s) : a[i] = s[i] /\ b[i] = Append(s, x)[i]
  <2>1. /\ 1 \in Int /\ Len(s) \in Int
        /\ \A i \in 1..Len(s) : s[i] \in S /\ Append(s, x)[i] \in S
    BY <1>1
  <2>2. /\ a \in Seq(S) /\ Len(a) = (IF 1 <= Len(s) THEN Len(s) - 1 + 1 ELSE 0)
        /\ \A i \in 1..Len(s) - 1 + 1 : a[i] = s[1 + i - 1]
    BY <2>1, SubSeqProperties
  <2>3. /\ b \in Seq(S) /\ Len(b) = (IF 1 <= Len(s) THEN Len(s) - 1 + 1 ELSE 0)
        /\ \A i \in 1..Len(s) - 1 + 1 : b[i] = Append(s, x)[1 + i - 1]
    BY <2>1, SubSeqProperties
  <2> HIDE DEF a, b
  <2> QED
    BY <1>1, <2>2, <2>3
<1> HIDE DEF a, b
<1>3. a = b
  BY <1>1, <1>2, SeqEqual
<1> QED
  BY <1>1, <1>3 DEF IsPrefix, a, b


----------------------------------------------------------------------------
(* What the actions do to the alerts.                                      *)

\* Alerts seen and the records that wait, as one step leaves them: what AlertsInOrder
\* says of a step, and what the invariant needs.
Grown ==
  /\ raised' \in Nat /\ raised' >= raised
  /\ \A h \in Waiting' : h.key \in Series
  /\ alertChan' \in Seq(Alert) /\ processed' \in Seq(Alert)
  /\ Len(alertChan') <= AlertCapacity
  /\ \/ Seen' = Seen
     \/ raised' = raised + 1 /\ \E x \in Alert : x.n = raised + 1 /\ Seen' = Append(Seen, x)
  /\ raised' > raised /\ Seen' = Seen => Len(alertChan) = AlertCapacity
  /\ processor' \in BOOLEAN
  /\ ~processor' => service' # "running"

\* A handler that arrives waits with the key of a series.
LEMMA ReceiveKeepsKeys ==
  ASSUME NEW k \in Series, NEW v, \A h \in Waiting : h.key \in Series, Receive(k, v)
  PROVE  \A h \in Waiting' : h.key \in Series
<1>1. Waiting' = Waiting \cup {[key |-> k, at |-> now, value |-> v]}
  BY DEF Receive, Waiting, BagToSet, SetToBag, (+)
<1> QED
  BY <1>1

\* A handler that has recorded waits no longer, the others as before.
LEMMA RecordKeepsKeys ==
  ASSUME NEW h \in Waiting, \A g \in Waiting : g.key \in Series, Record(h)
  PROVE  \A g \in Waiting' : g.key \in Series
<1>1. Waiting' \subseteq Waiting
  BY DEF Record, Waiting, BagToSet, SetToBag, (-)
<1> QED
  BY <1>1

\* The alerts seen are a sequence of alerts.
LEMMA SeenIsSequence ==
  ASSUME AlertsInv
  PROVE  Seen \in Seq(Alert) /\ Len(Seen) \in Nat
BY ConcatProperties DEF AlertsInv, Seen

\* A record raises at most one alert, which is the last of all if it finds room.
LEMMA RecordGrows ==
  ASSUME AlertsInv, NEW h \in Waiting, Record(h)
  PROVE  Grown
<1> DEFINE x == [n |-> raised + 1, key |-> h.key]
<1>1. /\ raised \in Nat /\ h.key \in Series
      /\ alertChan \in Seq(Alert) /\ processed \in Seq(Alert) /\ Len(alertChan) <= AlertCapacity
      /\ processor \in BOOLEAN /\ (~processor => service # "running")
      /\ Len(alertChan) \in Nat /\ AlertCapacity \in Nat
  BY AnomalyAssumption DEF AlertsInv
<1>2. x \in Alert /\ x.n = raised + 1
  BY <1>1 DEF Alert
<1>3. /\ processed' = processed /\ processor' = processor /\ service' = service
      /\ \/ alertChan' = alertChan /\ raised' = raised
         \/ /\ raised' = raised + 1
            /\ alertChan' = IF Len(alertChan) < AlertCapacity THEN Append(alertChan, x) ELSE alertChan
  BY DEF Record, Send, alerting
<1>4. \A g \in Waiting' : g.key \in Series
  BY RecordKeepsKeys DEF AlertsInv
<1> HIDE DEF x
<1>5. CASE alertChan' = alertChan /\ raised' = raised
  BY <1>1, <1>3, <1>4, <1>5 DEF Grown, Seen
<1>6. CASE raised' = raised + 1 /\ Len(alertChan) < AlertCapacity /\ alertChan' = Append(alertChan, x)
  <2>1. Seen' = Append(Seen, x)
    BY <1>1, <1>2, <1>3, <1>6, SendAppends DEF Seen
  <2>2. alertChan' \in Seq(Alert) /\ Len(alertChan') = Len(alertChan) + 1
    BY <1>1, <1>2, <1>6, AppendProperties
  <2>3. Seen' # Seen
    BY <2>1, <1>2, SeenIsSequence, AppendProperties
  <2>4. raised' = raised + 1 /\ \E y \in Alert : y.n = raised + 1 /\ Seen' = Append(Seen, y)
    BY <1>2, <1>6, <2>1
  <2> QED
    BY <1>1, <1>3, <1>4, <1>6, <2>2, <2>3, <2>4 DEF Grown
<1>7. CASE raised' = raised + 1 /\ ~(Len(alertChan) < AlertCapacity) /\ alertChan' = alertChan
  <2>1. Seen' = Seen
    BY <1>3, <1>7 DEF Seen
  <2>2. Len(alertChan) = AlertCapacity
    BY <1>1, <1>7
  <2> QED
    BY <1>1, <1>3, <1>4, <1>7, <2>1, <2>2 DEF Grown
<1> QED
  BY <1>3, <1>5, <1>6, <1>7

\* Processing moves the alerts and changes none.
LEMMA ProcessGrows ==
  ASSUME AlertsInv, Process
  PROVE  Grown
<1>1. /\ raised \in Nat /\ raised' = raised /\ handlers' = handlers
      /\ alertChan \in Seq(Alert) /\ processed \in Seq(Alert) /\ Len(alertChan) <= AlertCapacity
      /\ processor \in BOOLEAN /\ processor' = processor /\ service' = service
      /\ alertChan # << >>
      /\ processed' = Append(processed, Head(alertChan)) /\ alertChan' = Tail(alertChan)
      /\ (~processor => service # "running")
      /\ AlertCapacity \in Nat /\ Len(alertChan) \in Nat
  BY AnomalyAssumption DEF AlertsInv, Process
<1>2. /\ Head(alertChan) \in Alert /\ alertChan' \in Seq(Alert)
      /\ Len(alertChan') = Len(alertChan) - 1
  BY <1>1, HeadTailProperties
<1>3. processed' \in Seq(Alert)
  BY <1>1, <1>2, AppendProperties
<1>4. Seen' = Seen
  BY <1>1, ReceiveMoves DEF Seen
<1>5. \A h \in Waiting' : h.key \in Series
  BY <1>1 DEF AlertsInv, Waiting
<1>6. /\ raised' \in Nat /\ raised' >= raised /\ ~(raised' > raised)
      /\ Len(alertChan') <= AlertCapacity
  BY <1>1, <1>2
<1>7. processor' \in BOOLEAN /\ (~processor' => service' # "running")
  BY <1>1
<1> QED
  BY <1>2, <1>3, <1>4, <1>5, <1>6, <1>7, Zenon DEF Grown

\* The other steps leave the alerts alone.
LEMMA StepGrows ==
  ASSUME AlertsInv, [AnomalyNext]_anomalyVars
  PROVE  Grown
<1>1. /\ raised \in Nat /\ alertChan \in Seq(Alert) /\ processed \in Seq(Alert)
      /\ Len(alertChan) <= AlertCapacity /\ processor \in BOOLEAN
      /\ (~processor => service # "running") /\ (\A h \in Waiting : h.key \in Series)
  BY DEF AlertsInv
<1>2. ASSUME UNCHANGED <<alertChan, raised, processed>>,
             \A h \in Waiting' : h.key \in Series,
             processor' \in BOOLEAN, ~processor' => service' # "running"
      PROVE  Grown
  BY <1>1, <1>2 DEF Grown, Seen
<1>3. ASSUME NEW k \in Series, NEW v, Receive(k, v)
      PROVE  Grown
  <2>1. UNCHANGED <<alertChan, raised, processed, processor, service>>
    BY <1>3 DEF Receive, alerting
  <2> QED
    BY <1>1, <1>2, <1>3, <2>1, ReceiveKeepsKeys
<1>4. CASE BeginRead \/ EndRead \/ ProcessorEnds \/ Signal \/ Exit \/ Tick \/ UNCHANGED anomalyVars
  <2>1. /\ UNCHANGED <<alertChan, raised, processed, handlers>>
        /\ processor' \in BOOLEAN /\ (~processor' => service' # "running")
    BY <1>1, <1>4 DEF BeginRead, EndRead, ProcessorEnds, Signal, Exit, Tick, alerting, anomalyVars
  <2>2. Waiting' = Waiting
    BY <2>1 DEF Waiting
  <2> QED
    BY <1>1, <1>2, <2>1, <2>2
<1> QED
  BY <1>3, <1>4, RecordGrows, ProcessGrows DEF AnomalyNext, Series

\* The numbers stay ascending when the last one is the greatest.
LEMMA GrownKeepsNumbers ==
  ASSUME AlertsInv, Grown
  PROVE  AlertsNumbered'
<1> DEFINE s == Seen
           t == Seen'
<1>1. /\ s \in Seq(Alert) /\ Len(s) \in Nat /\ raised \in Nat /\ raised' \in Nat /\ raised' >= raised
      /\ \A i \in 1..Len(s) : s[i].n <= raised
      /\ \A i, j \in 1..Len(s) : i < j => s[i].n < s[j].n
  BY SeenIsSequence DEF AlertsInv, AlertsNumbered, Grown
<1>2. SUFFICES /\ \A i \in 1..Len(t) : t[i].n <= raised'
               /\ \A i, j \in 1..Len(t) : i < j => t[i].n < t[j].n
  BY DEF AlertsNumbered
<1>3. ASSUME NEW i \in 1..Len(s)
      PROVE  s[i] \in Alert /\ s[i].n \in Nat
  <2> HIDE DEF s
  <2>1. s[i] \in Alert
    BY <1>1
  <2> QED
    BY <2>1 DEF Alert
<1>4. CASE t = s
  BY <1>1, <1>3, <1>4
<1>5. CASE raised' = raised + 1 /\ \E x \in Alert : x.n = raised + 1 /\ t = Append(s, x)
  <2>1. PICK x \in Alert : x.n = raised + 1 /\ t = Append(s, x)
    BY <1>5
  <2>2. /\ Len(t) = Len(s) + 1 /\ t[Len(s) + 1] = x
        /\ \A i \in 1..Len(s) : t[i] = s[i]
    BY <1>1, <2>1, AppendProperties
  <2> HIDE DEF s, t
  <2>3. \A i \in 1..Len(t) : i \in 1..Len(s) \/ i = Len(s) + 1
    BY <1>1, <2>2
  <2>4. ASSUME NEW i \in 1..Len(t)
        PROVE  t[i].n <= raised'
    BY <1>1, <1>3, <1>5, <2>1, <2>2, <2>3
  <2>5. ASSUME NEW i \in 1..Len(t), NEW j \in 1..Len(t), i < j
        PROVE  t[i].n < t[j].n
    <3>1. i \in 1..Len(s)
      BY <1>1, <2>2, <2>5
    <3>2. CASE j \in 1..Len(s)
      BY <1>1, <2>2, <2>5, <3>1, <3>2
    <3>3. CASE j = Len(s) + 1
      BY <1>1, <1>3, <2>1, <2>2, <3>1, <3>3
    <3> QED
      BY <2>3, <3>2, <3>3
  <2> QED
    BY <2>4, <2>5
<1> QED
  BY <1>4, <1>5 DEF Grown

\* There are no alerts at first.
LEMMA AlertsInvInit ==
  ASSUME AnomalyInit
  PROVE  AlertsInv
<1>1. Waiting = {}
  BY DEF AnomalyInit, Waiting, EmptyBag, SetToBag, BagToSet
<1>2. alertChan = << >> /\ processed = << >> /\ raised = 0 /\ processor = TRUE
  BY DEF AnomalyInit
<1>3. Seen = << >>
  BY <1>2, ConcatEmptySeq DEF Seen
<1>4. AlertsNumbered
  BY <1>3 DEF AlertsNumbered
<1> QED
  BY <1>1, <1>2, <1>4, AnomalyAssumption DEF AlertsInv

\* Every step keeps the alerts in order.
LEMMA AlertsInvNext ==
  ASSUME AlertsInv, [AnomalyNext]_anomalyVars
  PROVE  AlertsInv'
<1>1. Grown /\ AlertsNumbered'
  BY StepGrows, GrownKeepsNumbers
<1> QED
  BY <1>1 DEF AlertsInv, Grown

\* The channel keeps its bound, its alerts their order and numbers, and the processor
\* runs until the service is told to stop, for any series, thresholds and capacity.
THEOREM AlertsInvariance == AnomalySpec => []AlertsInv
BY AlertsInvInit, AlertsInvNext, PTL DEF AnomalySpec

\* No step takes back, repeats or reorders an alert, and one that is not seen found the
\* channel full.
THEOREM AlertsKeepTheirOrder == AnomalySpec => AlertsInOrder
<1> DEFINE Step == /\ IsPrefix(Seen, Seen')
                   /\ \A i \in (Len(Seen) + 1)..Len(Seen') : Seen'[i].n > raised
                   /\ raised' > raised /\ Seen' = Seen => Len(alertChan) = AlertCapacity
<1>1. AlertsInv /\ [AnomalyNext]_anomalyVars => [Step]_anomalyVars
  <2> SUFFICES ASSUME AlertsInv, [AnomalyNext]_anomalyVars PROVE Step
    OBVIOUS
  <2>1. Grown
    BY StepGrows
  <2>2. Seen \in Seq(Alert) /\ Len(Seen) \in Nat /\ raised \in Nat
    BY SeenIsSequence DEF AlertsInv
  <2>3. IsPrefix(Seen, Seen')
    <3>1. CASE Seen' = Seen
      BY <2>2, <3>1, PrefixOfItself
    <3>2. CASE \E x \in Alert : Seen' = Append(Seen, x)
      BY <2>2, <3>2, GrowthKeepsPrefix
    <3> QED
      BY <2>1, <3>1, <3>2 DEF Grown
  <2>4. ASSUME NEW i \in (Len(Seen) + 1)..Len(Seen')
        PROVE  Seen'[i].n > raised
    <3>1. CASE Seen' = Seen
      BY <2>2, <2>4, <3>1
    <3>2. CASE \E x \in Alert : x.n = raised + 1 /\ Seen' = Append(Seen, x)
      <4>1. PICK x \in Alert : x.n = raised + 1 /\ Seen' = Append(Seen, x)
        BY <3>2
      <4>2. Len(Seen') = Len(Seen) + 1 /\ Seen'[Len(Seen) + 1] = x
        BY <2>2, <4>1, AppendProperties
      <4>3. i = Len(Seen) + 1
        BY <2>2, <2>4, <4>2
      <4> QED
        BY <2>2, <4>1, <4>2, <4>3
    <3> QED
      BY <2>1, <3>1, <3>2 DEF Grown
  <2> QED
    BY <2>1, <2>3, <2>4 DEF Grown
<1>2. AnomalySpec => []AlertsInv
  BY AlertsInvariance
<1> QED
  BY <1>1, <1>2, PTL DEF AnomalySpec, AlertsInOrder


----------------------------------------------------------------------------
(* Statistics of points that are all the same.                             *)

\* A non-empty set of naturals has a least element.
LEMMA NatLeast ==
  ASSUME NEW T \in SUBSET Nat, T # {}
  PROVE  \E x \in T : \A y \in T : x <= y
<1>1. PICK x \in T : \A y \in T : <<y, x>> \notin OpToRel(<, Nat)
  BY WFMin, NatLessThanWellFounded
<1>2. \A y \in T : ~(y < x)
  BY <1>1 DEF OpToRel
<1> QED
  BY <1>2

\* One more of the same.
LEMMA OneMore ==
  ASSUME NEW n \in Nat, NEW v \in Int
  PROVE  (n + 1) * v = v + n * v
OBVIOUS

\* The sum of equal numbers is as many times the number; a set for which it is not would
\* have a smaller one.
LEMMA SumOfConstant ==
  ASSUME NEW S, IsFiniteSet(S), NEW f, NEW v \in Int, \A x \in S : f[x] = v
  PROVE  SumFunctionOnSet(f, S) = Cardinality(S) * v
<1> DEFINE First(s) == CHOOSE x \in s : TRUE
           Step(h) == [s \in SUBSET S |-> IF s = {} THEN 0 ELSE f[First(s)] + h[s \ {First(s)}]]
           iter == CHOOSE h : h = Step(h)
           G == [s \in SUBSET S |-> Cardinality(s) * v]
<1>1. SumFunctionOnSet(f, S) = iter[S]
  BY DEF SumFunctionOnSet, FoldFunctionOnSet, MapThenFoldSet
<1>2. \A s \in SUBSET S : IsFiniteSet(s) /\ Cardinality(s) \in Nat
  BY FS_Subset, FS_CardinalityType
<1>3. ASSUME NEW s \in SUBSET S, s # {}
      PROVE  First(s) \in s /\ G[s] = f[First(s)] + G[s \ {First(s)}]
                            /\ Cardinality(s \ {First(s)}) < Cardinality(s)
  <2> DEFINE x == First(s)
             n == Cardinality(s \ {x})
  <2>1. x \in s
    BY <1>3
  <2>2. f[x] = v
    BY <2>1
  <2> HIDE DEF x
  <2>3. n = Cardinality(s) - 1 /\ Cardinality(s) \in Nat /\ n \in Nat
    BY <1>2, <2>1, FS_RemoveElement
  <2>4. G[s] = Cardinality(s) * v /\ G[s \ {x}] = n * v
    BY <1>2
  <2> HIDE DEF n, G
  <2>5. Cardinality(s) = n + 1
    BY <2>3
  <2>6. G[s] = v + n * v
    BY <2>3, <2>4, <2>5, OneMore
  <2>7. G[s] = f[x] + G[s \ {x}] /\ n < Cardinality(s)
    BY <2>2, <2>3, <2>4, <2>6
  <2> QED
    BY <2>1, <2>7 DEF x, n
<1>4. G[{}] = 0
  BY FS_EmptySet
<1> HIDE DEF First
<1>5. G = Step(G)
  <2>1. \A s \in SUBSET S : G[s] = IF s = {} THEN 0 ELSE f[First(s)] + G[s \ {First(s)}]
    <3> HIDE DEF G
    <3> QED
      BY <1>3, <1>4
  <2> QED
    BY <2>1
<1>6. iter = Step(iter)
  <2> HIDE DEF Step, G
  <2> QED
    BY <1>5
<1>7. G[S] = Cardinality(S) * v
  OBVIOUS
<1> HIDE DEF iter, G
<1>8. iter[{}] = 0 /\ \A s \in SUBSET S : s # {} => iter[s] = f[First(s)] + iter[s \ {First(s)}]
  BY <1>6
<1>9. iter[S] = G[S]
  <2> DEFINE Bad == {s \in SUBSET S : iter[s] # G[s]}
             Sizes == {Cardinality(s) : s \in Bad}
  <2> SUFFICES ASSUME Bad # {} PROVE FALSE
    OBVIOUS
  <2>1. Sizes \in SUBSET Nat /\ Sizes # {}
    BY <1>2
  <2>2. PICK s \in Bad : \A q \in Bad : Cardinality(s) <= Cardinality(q)
    <3>1. PICK n \in Sizes : \A m \in Sizes : n <= m
      BY <2>1, NatLeast
    <3> QED
      BY <3>1
  <2>3. s # {}
    BY <1>4, <1>8
  <2>4. s \ {First(s)} \notin Bad
    <3>1. Cardinality(s) \in Nat /\ Cardinality(s \ {First(s)}) \in Nat
      BY <1>2
    <3> QED
      BY <1>3, <2>2, <2>3, <3>1
  <2> QED
    BY <1>3, <1>8, <2>3, <2>4
<1> QED
  BY <1>1, <1>7, <1>9

ValuesIn(s) == {s[i].value : i \in DOMAIN s}

Differ(V) == \E a, b \in V : a # b

\* The values of a series are finitely many, and more than one just when two points
\* differ.
LEMMA ValuesDiffer ==
  ASSUME NEW S, NEW s \in Seq(S)
  PROVE  Cardinality(ValuesIn(s)) > 1 <=> Differ(ValuesIn(s))
<1> DEFINE V == ValuesIn(s)
           f == [i \in DOMAIN s |-> s[i].value]
<1>1. IsFiniteSet(DOMAIN s)
  <2>1. DOMAIN s = 1..Len(s) /\ Len(s) \in Nat
    OBVIOUS
  <2> QED
    BY <2>1, FS_Interval
<1>2. f \in Surjection(DOMAIN s, V)
  BY DEF Surjection, ValuesIn
<1> HIDE DEF f
<1>3. IsFiniteSet(V)
  BY <1>1, <1>2, FS_Surjection
<1> HIDE DEF V
<1>4. Cardinality(V) \in Nat
  BY <1>3, FS_CardinalityType
<1>5. ASSUME NEW a \in V, NEW b \in V, a # b
      PROVE  Cardinality(V) > 1
  <2> DEFINE P == {a}
             Q == P \cup {b}
  <2>1. IsFiniteSet(P) /\ Cardinality(P) = 1 /\ b \notin P
    BY <1>5, FS_Singleton
  <2>2. Q \subseteq V
    OBVIOUS
  <2> HIDE DEF P
  <2>3. Cardinality(Q) = Cardinality(P) + 1
    BY <2>1, FS_AddElement
  <2> HIDE DEF Q
  <2>4. Cardinality(Q) <= Cardinality(V)
    BY <1>3, <2>2, FS_Subset
  <2> QED
    BY <1>4, <2>1, <2>3, <2>4
<1>6. ASSUME \A a, b \in V : a = b
      PROVE  ~(Cardinality(V) > 1)
  <2>1. CASE V = {}
    BY <2>1, FS_EmptySet
  <2>2. CASE V # {}
    <3>1. PICK a \in V : TRUE
      BY <2>2
    <3>2. V = {a}
      BY <1>6, <3>1
    <3>3. Cardinality({a}) = 1
      BY FS_Singleton
    <3> QED
      BY <3>2, <3>3
  <2> QED
    BY <2>1, <2>2
<1> QED
  BY <1>5, <1>6 DEF V, Differ

\* The baseline of equal points has their value as its mean.
LEMMA BaselineOfConstant ==
  ASSUME NEW S, NEW s \in Seq(S), NEW v \in Int, \A i \in DOMAIN s : s[i].value = v
  PROVE  LET b == CalculateBaseline(s)
         IN  /\ b.count = Len(s) /\ b.count \in Nat
             /\ b.sum = b.count * v /\ b.squares = b.count * (v * v)
<1>1. DOMAIN s = 1..Len(s) /\ Len(s) \in Nat /\ IsFiniteSet(1..Len(s))
  BY FS_Interval
<1>2. Cardinality(DOMAIN s) = Len(s)
  <2>1. \A n \in Nat : Cardinality(1..n) = n
    BY FS_Interval
  <2> QED
    BY <1>1, <2>1
<1> DEFINE f == ValuesOf(s)
           g == [i \in DOMAIN s |-> s[i].value * s[i].value]
<1>3. DOMAIN f = DOMAIN s /\ \A i \in DOMAIN s : f[i] = v
  BY DEF ValuesOf
<1>4. DOMAIN g = DOMAIN s /\ \A i \in DOMAIN s : g[i] = v * v
  OBVIOUS
<1>5. v * v \in Int
  OBVIOUS
<1> HIDE DEF f, g
<1>6. SumFunction(f) = Len(s) * v
  BY <1>1, <1>2, <1>3, SumOfConstant DEF SumFunction
<1>7. SumFunction(g) = Len(s) * (v * v)
  BY <1>1, <1>2, <1>4, <1>5, SumOfConstant DEF SumFunction
<1> QED
  BY <1>1, <1>6, <1>7 DEF CalculateBaseline, f, g

\* A mean of values that are all v is at no distance from a baseline whose mean is v, and
\* nothing is exceeded: the deviation is 1 in place of 0.
LEMMA ConstantIsNotExceeded ==
  ASSUME NEW b, NEW v \in Int, NEW m \in Nat, NEW total, NEW threshold \in Int,
         b.count \in Nat, b.sum = b.count * v, b.squares = b.count * (v * v), total = m * v
  PROVE  ~Exceeds(Distance(total, m, b), m, threshold, b)
<1> DEFINE n == b.count
<1>1. n \in Nat
  OBVIOUS
<1> HIDE DEF n
<1>2. n * (n * (v * v)) - (n * v) * (n * v) = 0
  BY <1>1
<1>3. n * (m * v) - m * (n * v) = 0
  BY <1>1
<1>4. Variance(b) = n * n
  BY <1>2 DEF Variance, n
<1>5. Distance(total, m, b) = 0
  BY <1>3 DEF Distance, n
<1>6. threshold * threshold * m * m * (n * n) >= 0
  <2> DEFINE x == threshold * m * n
  <2>1. x \in Int /\ threshold * threshold * m * m * (n * n) = x * x
    BY <1>1
  <2> HIDE DEF x
  <2>2. x * x >= 0
    BY <2>1
  <2> QED
    BY <2>1, <2>2
<1> DEFINE X == threshold * threshold * m * m * Variance(b)
<1>7. X \in Int /\ X >= 0
  BY <1>1, <1>4, <1>6
<1>8. Exceeds(0, m, threshold, b) <=> 0 * 0 > X
  BY DEF Exceeds
<1> HIDE DEF X
<1>9. ~(0 * 0 > X)
  BY <1>7
<1> QED
  BY <1>5, <1>8, <1>9


----------------------------------------------------------------------------
(* A source whose volume never changes.                                    *)

\* An alert of series k is in the channel or was processed.
Alerted(k) ==
  \/ \E i \in DOMAIN alertChan : alertChan[i].key = k
  \/ \E i \in DOMAIN processed : processed[i].key = k

\* A series whose points differ.
Varied(k) == Differ(Values(k))

\* In terms of these, a steady source is quiet.
LEMMA QuietMeansVaried ==
  ASSUME points \in [Series -> Seq([at : Int, value : Counts])]
  PROVE  SteadyVolumeIsQuiet <=> \A k \in Sources \ late : Alerted(k) => Varied(k)
<1>1. \A k \in Sources : Cardinality(Values(k)) > 1 <=> Varied(k)
  <2> SUFFICES ASSUME NEW k \in Sources
               PROVE  Cardinality(Values(k)) > 1 <=> Varied(k)
    OBVIOUS
  <2>1. points[k] \in Seq([at : Int, value : Counts])
    BY DEF Series
  <2>2. Values(k) = ValuesIn(points[k])
    BY DEF Values, ValuesIn
  <2>3. Varied(k) <=> Differ(ValuesIn(points[k]))
    BY <2>2 DEF Varied, Differ
  <2> QED
    BY <2>1, <2>2, <2>3, ValuesDiffer
<1> QED
  BY <1>1 DEF SteadyVolumeIsQuiet, Alerted

\* And after a step.
LEMMA QuietMeansVariedNext ==
  ASSUME points' \in [Series -> Seq([at : Int, value : Counts])]
  PROVE  SteadyVolumeIsQuiet' <=> \A k \in Sources \ late' : Alerted(k)' => Varied(k)'
<1>1. \A k \in Sources : Cardinality(Values(k)') > 1 <=> Varied(k)'
  <2> SUFFICES ASSUME NEW k \in Sources
               PROVE  Cardinality(Values(k)') > 1 <=> Varied(k)'
    OBVIOUS
  <2>1. points'[k] \in Seq([at : Int, value : Counts])
    BY DEF Series
  <2>2. Values(k)' = ValuesIn(points'[k])
    BY DEF Values, ValuesIn
  <2>3. Varied(k)' <=> Differ(ValuesIn(points'[k]))
    BY <2>2 DEF Varied, Differ
  <2> QED
    BY <2>1, <2>2, <2>3, ValuesDiffer
<1> QED
  BY <1>1 DEF SteadyVolumeIsQuiet, Alerted

\* What Record makes of the series of its key.
NewSeries(h) == Append(points[h.key], [at |-> h.at, value |-> h.value])

\* The new series has the old points, and the one of h at its end.
LEMMA NewSeriesPoints ==
  ASSUME AlertsInv, SteadyInv, NEW h \in Waiting
  PROVE  /\ h.key \in Series /\ h.at \in Int /\ h.value \in Counts /\ h.value \in Int
         /\ NewSeries(h) \in Seq([at : Int, value : Counts])
         /\ Len(NewSeries(h)) \in Nat /\ Len(NewSeries(h)) > 0
         /\ DOMAIN NewSeries(h) = 1..Len(NewSeries(h))
         /\ NewSeries(h)[Len(NewSeries(h))] = [at |-> h.at, value |-> h.value]
         /\ ValuesIn(NewSeries(h)) = Values(h.key) \cup {h.value}
         /\ \A i \in DOMAIN NewSeries(h) : NewSeries(h)[i].value \in ValuesIn(NewSeries(h))
<1>1. /\ h.key \in Series /\ h.at \in Int /\ h.value \in Counts
      /\ points[h.key] \in Seq([at : Int, value : Counts])
  BY DEF AlertsInv, SteadyInv
<1>2. h.value \in Int
  <2>1. Counts \subseteq Int
    BY AnomalyAssumption DEF Counts
  <2> QED
    BY <1>1, <2>1
<1> DEFINE s == points[h.key]
           x == [at |-> h.at, value |-> h.value]
           t == Append(s, x)
<1>3. x \in [at : Int, value : Counts]
  BY <1>1
<1>4. /\ t \in Seq([at : Int, value : Counts]) /\ Len(t) = Len(s) + 1 /\ Len(s) \in Nat
      /\ DOMAIN t = 1..Len(t) /\ DOMAIN s = 1..Len(s)
      /\ \A i \in 1..Len(s) : t[i] = s[i]
      /\ t[Len(s) + 1] = x
  <2> HIDE DEF x
  <2> QED
    BY <1>1, <1>3, AppendProperties
<1>5. x.value = h.value
  OBVIOUS
<1> HIDE DEF t, x, s
<1>6. {t[i].value : i \in DOMAIN t} = {s[i].value : i \in DOMAIN s} \cup {h.value}
  <2>1. \A i \in DOMAIN t : i \in DOMAIN s \/ i = Len(s) + 1
    BY <1>4
  <2>2. DOMAIN s \subseteq DOMAIN t /\ Len(s) + 1 \in DOMAIN t
    BY <1>4
  <2> QED
    BY <1>4, <1>5, <2>1, <2>2
<1>7. t = NewSeries(h) /\ Values(h.key) = {s[i].value : i \in DOMAIN s}
  BY DEF NewSeries, Values, t, s, x
<1>8. ValuesIn(t) = Values(h.key) \cup {h.value}
  BY <1>6, <1>7 DEF ValuesIn
<1>9. \A i \in DOMAIN t : t[i].value \in ValuesIn(t)
  BY DEF ValuesIn
<1> QED
  BY <1>1, <1>2, <1>4, <1>7, <1>8, <1>9 DEF x

\* The baseline that Record compares with.
LEMMA BaselineIsConstant ==
  ASSUME AlertsInv, SteadyInv, NEW h \in Waiting,
         NEW v \in Counts, Values(h.key) \subseteq {v}, h.value = v
  PROVE  LET b == BaselineOf(h.key, NewSeries(h))
         IN  b.count \in Nat /\ b.sum = b.count * v /\ b.squares = b.count * (v * v)
<1>1. h.key \in Series /\ v \in Int /\ baselines[h.key].count \in Nat
  BY NewSeriesPoints DEF SteadyInv
<1>2. CASE baselines[h.key].count > 0
  BY <1>1, <1>2 DEF BaselineOf, SteadyInv, BaselinesFollowPoints
<1>3. CASE ~(baselines[h.key].count > 0)
  <2>1. \A i \in DOMAIN NewSeries(h) : NewSeries(h)[i].value = v
    BY NewSeriesPoints
  <2>2. NewSeries(h) \in Seq([at : Int, value : Counts])
    BY NewSeriesPoints
  <2> QED
    BY <1>1, <1>3, <2>1, <2>2, BaselineOfConstant DEF BaselineOf
<1> QED
  BY <1>2, <1>3

\* The check of a source whose points are all the same raises nothing: some of them are
\* recent, and the mean of the recent ones is that of the baseline.
LEMMA SteadyIsNormal ==
  ASSUME AlertsInv, SteadyInv, NEW h \in Waiting, h.key \in Sources,
         Values(h.key) \subseteq {h.value}, Recent(NewSeries(h)) # {}
  PROVE  ~Anomalous(h.key, NewSeries(h), BaselineOf(h.key, NewSeries(h)))
<1> DEFINE s == NewSeries(h)
           b == BaselineOf(h.key, s)
           v == h.value
           R == Recent(s)
<1>1. /\ v \in Int /\ v \in Counts /\ h.at \in Int
      /\ Len(s) \in Nat /\ Len(s) > 0 /\ DOMAIN s = 1..Len(s)
      /\ s[Len(s)] = [at |-> h.at, value |-> h.value]
      /\ ValuesIn(s) = Values(h.key) \cup {v}
      /\ \A i \in DOMAIN s : s[i].value \in ValuesIn(s)
  BY NewSeriesPoints
<1>2. b.count \in Nat /\ b.sum = b.count * v /\ b.squares = b.count * (v * v)
  BY <1>1, BaselineIsConstant
<1>3. VolumeThreshold \in Int
  BY AnomalyAssumption
<1>5. R # {}
  OBVIOUS
<1> HIDE DEF s, b
<1>6. IsFiniteSet(R) /\ Cardinality(R) \in Nat /\ Cardinality(R) # 0
  <2>1. IsFiniteSet(DOMAIN s)
    <3>1. \A n \in Nat : IsFiniteSet(1..n)
      BY FS_Interval
    <3> QED
      BY <1>1, <3>1
  <2>2. R \subseteq DOMAIN s
    BY DEF Recent
  <2> QED
    BY <1>5, <2>1, <2>2, FS_Subset, FS_CardinalityType, FS_EmptySet
<1>7. RecentTotal(s) = Cardinality(R) * v
  <2>1. \A i \in R : ValuesOf(s)[i] = v
    BY <1>1 DEF Recent, ValuesOf
  <2> QED
    BY <1>1, <1>6, <2>1, SumOfConstant DEF RecentTotal
<1> DEFINE m == Cardinality(R)
<1>8. m \in Nat /\ m > 0
  BY <1>6
<1>9. ~Exceeds(Distance(RecentTotal(s), m, b), m, VolumeThreshold, b)
  <2> HIDE DEF m
  <2>1. m \in Nat /\ RecentTotal(s) = m * v
    BY <1>7, <1>8 DEF m
  <2> QED
    BY <1>1, <1>2, <1>3, <2>1, ConstantIsNotExceeded
<1>10. ~VolumeAnomaly(s, b)
  BY <1>8, <1>9 DEF VolumeAnomaly
<1>11. h.key \notin Templates
  BY AnomalyAssumption
<1> QED
  BY <1>10, <1>11 DEF Anomalous, s, b


\* A step that leaves the alerts and the points alone leaves a quiet source quiet.
LEMMA SameIsQuiet ==
  ASSUME SteadyInv, UNCHANGED <<points, baselines, alertChan, processed>>,
         late' = late, now' \in Int,
         \A h \in Waiting' : h.at \in Int /\ h.value \in Counts
  PROVE  SteadyInv'
<1>1. SteadyVolumeIsQuiet'
  BY DEF SteadyInv, SteadyVolumeIsQuiet, Values
<1>2. \A k : Values(k)' = Values(k)
  BY DEF Values
<1>3. BaselinesFollowPoints'
  BY <1>2 DEF SteadyInv, BaselinesFollowPoints
<1> QED
  BY <1>1, <1>3 DEF SteadyInv

\* An alert that is new is of the key just recorded, whose check raised it.
LEMMA RecordAlerts ==
  ASSUME AlertsInv, NEW h \in Waiting, Record(h), NEW k, Alerted(k)'
  PROVE  \/ Alerted(k)
         \/ k = h.key /\ Anomalous(h.key, NewSeries(h), BaselineOf(h.key, NewSeries(h)))
<1>1. /\ processed' = processed /\ alertChan \in Seq(Alert) /\ h.key \in Series /\ raised \in Nat
  BY DEF Record, AlertsInv
<1>2. CASE alertChan' = alertChan
  BY <1>1, <1>2 DEF Alerted
<1>3. CASE alertChan' # alertChan
  <2> DEFINE x == [n |-> raised + 1, key |-> h.key]
  <2>1. /\ Anomalous(h.key, NewSeries(h), BaselineOf(h.key, NewSeries(h)))
        /\ alertChan' = Append(alertChan, x)
    BY <1>3 DEF Record, Send, alerting, NewSeries
  <2>2. x \in Alert /\ x.key = h.key
    BY <1>1 DEF Alert
  <2> HIDE DEF x
  <2>3. /\ \A i \in DOMAIN alertChan' : i \in DOMAIN alertChan \/ i = Len(alertChan) + 1
        /\ \A i \in DOMAIN alertChan : alertChan'[i] = alertChan[i]
        /\ alertChan'[Len(alertChan) + 1] = x
    BY <1>1, <2>1, <2>2, AppendProperties
  <2> QED
    BY <1>1, <2>1, <2>2, <2>3 DEF Alerted
<1> QED
  BY <1>2, <1>3

\* A record keeps a quiet source quiet, and the baselines what they say of equal points.
LEMMA RecordSteady ==
  ASSUME AlertsInv, SteadyInv, NEW h \in Waiting, Record(h)
  PROVE  SteadyInv'
<1> DEFINE s == NewSeries(h)
           b == BaselineOf(h.key, s)
<1>1. /\ h.key \in Series /\ h.value \in Counts /\ s \in Seq([at : Int, value : Counts])
      /\ Len(s) \in Nat /\ ValuesIn(s) = Values(h.key) \cup {h.value}
  BY NewSeriesPoints
<1>2. /\ now \in Int /\ points \in [Series -> Seq([at : Int, value : Counts])]
      /\ \A g \in Waiting : g.at \in Int /\ g.value \in Counts
      /\ DOMAIN baselines = Series /\ \A k \in Series : baselines[k].count \in Nat
      /\ BaselinesFollowPoints
  BY DEF SteadyInv
<1>3. /\ now' = now /\ points' = [points EXCEPT ![h.key] = s]
      /\ baselines' = baselines \/ baselines' = [baselines EXCEPT ![h.key] = b]
  BY DEF Record, NewSeries
<1>4. Waiting' \subseteq Waiting
  BY DEF Record, Waiting, BagToSet, SetToBag, (-)
<1>5. b.count \in Nat
  BY <1>1, <1>2 DEF BaselineOf, CalculateBaseline
<1> HIDE DEF s, b
<1>6. points' \in [Series -> Seq([at : Int, value : Counts])]
  BY <1>1, <1>2, <1>3
<1>7. /\ DOMAIN baselines' = Series
      /\ \A k \in Series : k # h.key => baselines'[k] = baselines[k]
      /\ baselines'[h.key] \in {baselines[h.key], b}
      /\ \A k \in Series : baselines'[k].count \in Nat
  BY <1>1, <1>2, <1>3, <1>5
<1>8. /\ \A k \in Series : k # h.key => Values(k)' = Values(k)
      /\ Values(h.key)' = Values(h.key) \cup {h.value}
  <2>1. points'[h.key] = s /\ \A k \in Series : k # h.key => points'[k] = points[k]
    BY <1>1, <1>2, <1>3
  <2> QED
    BY <1>1, <2>1 DEF Values, ValuesIn
<1>9. BaselinesFollowPoints'
  <2> SUFFICES ASSUME NEW k \in Series, NEW v \in Counts, Values(k)' \subseteq {v}
               PROVE  /\ baselines'[k].sum = baselines'[k].count * v
                      /\ baselines'[k].squares = baselines'[k].count * (v * v)
    BY DEF BaselinesFollowPoints
  <2>1. CASE k # h.key \/ baselines'[k] = baselines[k]
    <3>1. Values(k) \subseteq {v} /\ baselines'[k] = baselines[k]
      BY <1>7, <1>8, <2>1
    <3> QED
      BY <1>2, <3>1 DEF BaselinesFollowPoints
  <2>2. CASE k = h.key /\ baselines'[k] = b
    <3>1. Values(h.key) \subseteq {v} /\ h.value = v
      BY <1>8, <2>2
    <3>2. b.sum = b.count * v /\ b.squares = b.count * (v * v)
      BY <3>1, BaselineIsConstant DEF b, s
    <3> QED
      BY <2>2, <3>2
  <2> QED
    BY <1>7, <2>1, <2>2
<1>10. SteadyVolumeIsQuiet'
  <2>1. SUFFICES ASSUME NEW k \in Sources \ late', Alerted(k)'
                 PROVE  Varied(k)'
    BY <1>6, QuietMeansVariedNext
  <2>2. k \in Series /\ k \notin late /\ (k = h.key => ~CheckedLate(s))
    BY DEF Series, Record, NewSeries, s
  <2>3. CASE Alerted(k)
    <3>1. Varied(k)
      BY <1>2, <2>2, <2>3, QuietMeansVaried DEF SteadyInv
    <3>2. Values(k) \subseteq Values(k)'
      BY <1>8, <2>2
    <3> QED
      BY <3>1, <3>2 DEF Varied, Differ
  <2>4. CASE k = h.key /\ Anomalous(h.key, s, b)
    <3>1. Recent(s) # {}
      BY <2>2, <2>4 DEF Anomalous, CheckedLate
    <3>2. ~(Values(h.key) \subseteq {h.value})
      BY <2>4, <3>1, SteadyIsNormal DEF s, b
    <3>3. PICK a \in Values(h.key) : a # h.value
      BY <3>2
    <3>4. a \in Values(k)' /\ h.value \in Values(k)'
      BY <1>8, <2>4
    <3> QED
      BY <3>3, <3>4 DEF Varied, Differ
  <2> QED
    BY <2>1, <2>3, <2>4, RecordAlerts DEF s, b
<1> QED
  BY <1>2, <1>3, <1>4, <1>6, <1>7, <1>9, <1>10 DEF SteadyInv

\* Processing moves an alert and raises none.
LEMMA ProcessSteady ==
  ASSUME AlertsInv, SteadyInv, Process
  PROVE  SteadyInv'
<1>1. /\ alertChan \in Seq(Alert) /\ processed \in Seq(Alert) /\ alertChan # << >>
      /\ processed' = Append(processed, Head(alertChan)) /\ alertChan' = Tail(alertChan)
      /\ UNCHANGED <<now, handlers, points, baselines, late>>
  BY DEF AlertsInv, Process, metrics
<1>2. /\ Head(alertChan) \in Alert /\ Head(alertChan) = alertChan[1] /\ 1 \in DOMAIN alertChan
      /\ \A i \in DOMAIN alertChan' : i + 1 \in DOMAIN alertChan /\ alertChan'[i] = alertChan[i + 1]
  BY <1>1, HeadTailProperties
<1>3. /\ \A i \in DOMAIN processed' : i \in DOMAIN processed \/ i = Len(processed) + 1
      /\ \A i \in DOMAIN processed : processed'[i] = processed[i]
      /\ processed'[Len(processed) + 1] = Head(alertChan)
  BY <1>1, <1>2, AppendProperties
<1>4. \A k : Alerted(k)' => Alerted(k)
  BY <1>2, <1>3 DEF Alerted
<1>5. \A k : Values(k)' = Values(k)
  BY <1>1 DEF Values
<1>6. points \in [Series -> Seq([at : Int, value : Counts])] /\ points' = points
  BY <1>1 DEF SteadyInv
<1>7. SteadyVolumeIsQuiet'
  <2>1. late' = late /\ \A k \in Sources \ late : Alerted(k) => Varied(k)
    BY <1>1, <1>6, QuietMeansVaried DEF SteadyInv
  <2>2. \A k : Varied(k)' <=> Varied(k)
    BY <1>5 DEF Varied, Differ
  <2> QED
    BY <1>4, <1>6, <2>1, <2>2, QuietMeansVariedNext
<1>8. BaselinesFollowPoints'
  BY <1>1, <1>5 DEF SteadyInv, BaselinesFollowPoints
<1>9. Waiting' = Waiting
  BY <1>1 DEF Waiting
<1> QED
  BY <1>1, <1>6, <1>7, <1>8, <1>9 DEF SteadyInv

\* A handler that arrives changes no series.
LEMMA ReceiveSteady ==
  ASSUME SteadyInv, NEW k \in Series, NEW v \in Counts, Receive(k, v)
  PROVE  SteadyInv'
<1>1. Waiting' = Waiting \cup {[key |-> k, at |-> now, value |-> v]}
  BY DEF Receive, Waiting, BagToSet, SetToBag, (+)
<1>2. UNCHANGED <<now, points, baselines, late, alertChan, processed>>
  BY DEF Receive, metrics, alerting
<1>3. now \in Int /\ \A h \in Waiting : h.at \in Int /\ h.value \in Counts
  BY DEF SteadyInv
<1>4. \A h \in Waiting' : h.at \in Int /\ h.value \in Counts
  BY <1>1, <1>2, <1>3
<1> QED
  BY <1>2, <1>3, <1>4, SameIsQuiet

\* Every step keeps a quiet source quiet.
LEMMA NextSteady ==
  ASSUME AlertsInv, SteadyInv, [AnomalyNext]_anomalyVars
  PROVE  SteadyInv'
<1>1. now \in Int /\ \A h \in Waiting : h.at \in Int /\ h.value \in Counts
  BY DEF SteadyInv
<1>2. CASE BeginRead \/ EndRead \/ ProcessorEnds \/ Signal \/ Exit \/ UNCHANGED anomalyVars
  <2>1. UNCHANGED <<now, handlers, points, baselines, late, alertChan, processed>>
    BY <1>2 DEF BeginRead, EndRead, ProcessorEnds, Signal, Exit, metrics, alerting, anomalyVars
  <2>2. Waiting' = Waiting
    BY <2>1 DEF Waiting
  <2> QED
    BY <1>1, <2>1, <2>2, SameIsQuiet
<1>3. CASE Tick
  <2>1. UNCHANGED <<handlers, points, baselines, late, alertChan, processed>> /\ now' = now + 1
    BY <1>3 DEF Tick, metrics, alerting
  <2>2. Waiting' = Waiting
    BY <2>1 DEF Waiting
  <2>3. now' \in Int /\ \A h \in Waiting' : h.at \in Int /\ h.value \in Counts
    BY <1>1, <2>1, <2>2
  <2> QED
    BY <2>1, <2>3, SameIsQuiet
<1>4. CASE \E k \in Templates : Receive(k, 1)
  BY <1>4, ReceiveSteady DEF Series, Counts
<1>5. CASE \E k \in Sources, v \in Volumes : Receive(k, v)
  BY <1>5, ReceiveSteady DEF Series, Counts
<1> QED
  BY <1>2, <1>3, <1>4, <1>5, RecordSteady, ProcessSteady DEF AnomalyNext

\* No source has a baseline at first.
LEMMA SteadyInit ==
  ASSUME AnomalyInit
  PROVE  SteadyInv
<1>1. Waiting = {}
  BY DEF AnomalyInit, Waiting, EmptyBag, SetToBag, BagToSet
<1>2. /\ now = 0 /\ points = [k \in Series |-> << >>] /\ alertChan = << >> /\ processed = << >>
      /\ baselines = [k \in Series |-> [count |-> 0, sum |-> 0, squares |-> 0]]
  BY DEF AnomalyInit
<1>3. \A v \in Counts : 0 = 0 * v /\ 0 = 0 * (v * v)
  <2>1. Counts \subseteq Int
    BY AnomalyAssumption DEF Counts
  <2> QED
    BY <2>1
<1>4. BaselinesFollowPoints
  BY <1>2, <1>3 DEF BaselinesFollowPoints
<1>5. SteadyVolumeIsQuiet
  BY <1>2 DEF SteadyVolumeIsQuiet
<1> QED
  BY <1>1, <1>2, <1>4, <1>5 DEF SteadyInv

LEMMA SteadyInvariance == AnomalySpec => []SteadyInv
BY SteadyInit, NextSteady, AlertsInvariance, PTL DEF AnomalySpec

\* A source whose volume never changes raises no alert, for any source, volume, window and
\* threshold, at whatever times its points came and in whatever order they were recorded,
\* unless it was once checked when none of them was recent.
THEOREM SteadySourcesAreQuiet == AnomalySpec => []SteadyVolumeIsQuiet
<1>1. SteadyInv => SteadyVolumeIsQuiet
  BY DEF SteadyInv
<1> QED
  BY <1>1, SteadyInvariance, PTL

----------------------------------------------------------------------------
(* Types.  An alert needs a request of its own: the copies in the bag of   *)
(* waiting records, numbered, are as many as requests wait.                *)

Tickets == {t \in Waiting \X Nat : t[2] \in 1..handlers[t[1]]}

RequestsCover ==
  /\ requests \in Nat /\ raised \in Nat
  /\ IsFiniteSet(Tickets) /\ raised + Cardinality(Tickets) <= requests

WithOne(B, e)    == B (+) SetToBag({e})
WithoutOne(B, e) == B (-) SetToBag({e})

\* One more copy of e in a bag.
LEMMA BagGains ==
  ASSUME NEW B, IsABag(B), NEW e
  PROVE  /\ IsABag(WithOne(B, e)) /\ DOMAIN WithOne(B, e) = DOMAIN B \cup {e}
         /\ WithOne(B, e)[e] = (IF e \in DOMAIN B THEN B[e] ELSE 0) + 1
         /\ \A f \in DOMAIN B : f # e => WithOne(B, e)[f] = B[f]
<1> DEFINE C == WithOne(B, e)
<1>1. /\ DOMAIN C = DOMAIN B \cup {e}
      /\ \A f \in DOMAIN C : C[f] = (IF f \in DOMAIN B THEN B[f] ELSE 0) + (IF f = e THEN 1 ELSE 0)
      /\ C = [f \in DOMAIN C |-> C[f]]
  BY DEF WithOne, SetToBag, (+)
<1>2. \A f \in DOMAIN B : B[f] \in Nat /\ B[f] > 0
  BY DEF IsABag
<1> HIDE DEF C
<1>3. \A f \in DOMAIN C : C[f] \in {n \in Nat : n > 0}
  BY <1>1, <1>2
<1>4. IsABag(C)
  BY <1>1, <1>3 DEF IsABag
<1>5. /\ C[e] = (IF e \in DOMAIN B THEN B[e] ELSE 0) + 1
      /\ \A f \in DOMAIN B : f # e => C[f] = B[f]
  BY <1>1, <1>2
<1> QED
  BY <1>1, <1>4, <1>5 DEF C

\* One copy less of e.
LEMMA BagLoses ==
  ASSUME NEW B, IsABag(B), NEW e, e \in DOMAIN B
  PROVE  /\ IsABag(WithoutOne(B, e))
         /\ B[e] > 1 => DOMAIN WithoutOne(B, e) = DOMAIN B /\ WithoutOne(B, e)[e] = B[e] - 1
         /\ ~(B[e] > 1) => DOMAIN WithoutOne(B, e) = DOMAIN B \ {e}
         /\ \A f \in DOMAIN B : f # e => WithoutOne(B, e)[f] = B[f]
<1> DEFINE C == WithoutOne(B, e)
           D == [f \in DOMAIN B |-> IF f \in {e} THEN B[f] - 1 ELSE B[f]]
<1>1. C = [f \in {d \in DOMAIN B : D[d] > 0} |-> D[f]]
  BY DEF WithoutOne, SetToBag, (-)
<1>2. \A f \in DOMAIN B : B[f] \in Nat /\ B[f] > 0
  BY DEF IsABag
<1>3. /\ D[e] = B[e] - 1
      /\ \A f \in DOMAIN B : f # e => D[f] = B[f]
  OBVIOUS
<1> HIDE DEF C, D
<1>4. /\ DOMAIN C = {d \in DOMAIN B : D[d] > 0}
      /\ \A f \in DOMAIN C : C[f] = D[f]
      /\ C = [f \in DOMAIN C |-> C[f]]
  BY <1>1
<1>5. {d \in DOMAIN B : D[d] > 0} = IF B[e] > 1 THEN DOMAIN B ELSE DOMAIN B \ {e}
  BY <1>2, <1>3
<1>6. \A f \in DOMAIN C : C[f] \in {n \in Nat : n > 0}
  BY <1>2, <1>3, <1>4
<1>7. IsABag(C)
  BY <1>4, <1>6 DEF IsABag
<1>8. /\ B[e] > 1 => DOMAIN C = DOMAIN B /\ C[e] = B[e] - 1
      /\ ~(B[e] > 1) => DOMAIN C = DOMAIN B \ {e}
      /\ \A f \in DOMAIN B : f # e => C[f] = B[f]
  BY <1>2, <1>3, <1>4, <1>5
<1> QED
  BY <1>7, <1>8 DEF C

\* A handler that arrives brings a request and a ticket.
LEMMA ReceiveCovers ==
  ASSUME IsABag(handlers), RequestsCover, NEW k, NEW v, Receive(k, v)
  PROVE  IsABag(handlers') /\ RequestsCover' /\ requests' \in 0..MaxRequests
<1> DEFINE e == [key |-> k, at |-> now, value |-> v]
           m == IF e \in DOMAIN handlers THEN handlers[e] ELSE 0
           t == <<e, m + 1>>
<1>1. /\ requests' = requests + 1 /\ raised' = raised /\ requests < MaxRequests
      /\ handlers' = WithOne(handlers, e)
  BY DEF Receive, alerting, WithOne
<1>2. \A h \in DOMAIN handlers : handlers[h] \in Nat
  BY DEF IsABag
<1>3. m \in Nat
  BY <1>2
<1> HIDE DEF e
<1>4. /\ IsABag(handlers') /\ DOMAIN handlers' = DOMAIN handlers \cup {e}
      /\ handlers'[e] = m + 1
      /\ \A h \in DOMAIN handlers : h # e => handlers'[h] = handlers[h]
  BY <1>1, BagGains
<1>5. e \notin DOMAIN handlers => m = 0
  OBVIOUS
<1>6. e \in DOMAIN handlers => m = handlers[e]
  OBVIOUS
<1> HIDE DEF m
<1>7. Tickets' = Tickets \cup {t}
  <2>1. ASSUME NEW h, NEW n
        PROVE  <<h, n>> \in Tickets' <=> <<h, n>> \in Tickets \/ (h = e /\ n = m + 1)
    <3>1. /\ <<h, n>> \in Tickets' <=> h \in DOMAIN handlers' /\ n \in Nat /\ n \in 1..handlers'[h]
          /\ <<h, n>> \in Tickets <=> h \in DOMAIN handlers /\ n \in Nat /\ n \in 1..handlers[h]
      BY DEF Tickets, Waiting, BagToSet
    <3>2. CASE h = e
      <4>1. n \in 1..(m + 1) <=> n \in 1..m \/ n = m + 1
        BY <1>3
      <4> QED
        BY <1>3, <1>4, <1>5, <1>6, <3>1, <3>2, <4>1
    <3>3. CASE h # e
      BY <1>4, <3>1, <3>3
    <3> QED
      BY <3>2, <3>3
  <2>2. \A x \in Tickets' : x = <<x[1], x[2]>>
    BY DEF Tickets
  <2>3. \A x \in Tickets : x = <<x[1], x[2]>>
    BY DEF Tickets
  <2>4. Tickets' \subseteq Tickets \cup {t}
    BY <2>1, <2>2
  <2>5. Tickets \subseteq Tickets'
    BY <2>1, <2>3
  <2>6. t \in Tickets'
    BY <2>1
  <2> QED
    BY <2>4, <2>5, <2>6
<1>8. t \notin Tickets
  BY <1>3, <1>6 DEF Tickets, Waiting, BagToSet
<1> HIDE DEF t
<1>9. /\ IsFiniteSet(Tickets') /\ Cardinality(Tickets') = Cardinality(Tickets) + 1
      /\ Cardinality(Tickets) \in Nat
  BY <1>7, <1>8, FS_AddElement, FS_CardinalityType DEF RequestsCover
<1>10. requests \in Nat /\ raised \in Nat /\ raised + Cardinality(Tickets) <= requests
  BY DEF RequestsCover
<1>11. requests' \in Nat /\ raised' \in Nat /\ raised' + Cardinality(Tickets') <= requests'
  BY <1>1, <1>9, <1>10
<1> QED
  BY <1>1, <1>4, <1>9, <1>10, <1>11, AnomalyAssumption DEF RequestsCover


\* A handler that records gives back its ticket, for an alert at most.
LEMMA RecordCovers ==
  ASSUME IsABag(handlers), RequestsCover, NEW e \in Waiting, Record(e)
  PROVE  IsABag(handlers') /\ RequestsCover' /\ DOMAIN handlers' \subseteq DOMAIN handlers
<1> DEFINE t == <<e, handlers[e]>>
<1>1. /\ requests' = requests /\ (raised' = raised \/ raised' = raised + 1)
      /\ handlers' = WithoutOne(handlers, e)
  BY DEF Record, alerting, WithoutOne
<1>2. e \in DOMAIN handlers /\ \A h \in DOMAIN handlers : handlers[h] \in Nat /\ handlers[h] > 0
  BY DEF IsABag, Waiting, BagToSet
<1>3. /\ IsABag(handlers')
      /\ handlers[e] > 1 => DOMAIN handlers' = DOMAIN handlers /\ handlers'[e] = handlers[e] - 1
      /\ ~(handlers[e] > 1) => DOMAIN handlers' = DOMAIN handlers \ {e}
      /\ \A h \in DOMAIN handlers : h # e => handlers'[h] = handlers[h]
  BY <1>1, <1>2, BagLoses
<1>4. Tickets' = Tickets \ {t}
  <2>1. ASSUME NEW h, NEW n
        PROVE  <<h, n>> \in Tickets' <=> <<h, n>> \in Tickets /\ ~(h = e /\ n = handlers[e])
    <3>1. /\ <<h, n>> \in Tickets' <=> h \in DOMAIN handlers' /\ n \in Nat /\ n \in 1..handlers'[h]
          /\ <<h, n>> \in Tickets <=> h \in DOMAIN handlers /\ n \in Nat /\ n \in 1..handlers[h]
      BY DEF Tickets, Waiting, BagToSet
    <3>2. CASE h = e /\ handlers[e] > 1
      <4>1. n \in 1..(handlers[e] - 1) <=> n \in 1..handlers[e] /\ n # handlers[e]
        BY <1>2
      <4> QED
        BY <1>2, <1>3, <3>1, <3>2, <4>1
    <3>3. CASE h = e /\ ~(handlers[e] > 1)
      <4>1. handlers[e] = 1
        BY <1>2, <3>3
      <4>2. n \in 1..handlers[e] <=> n = handlers[e]
        BY <4>1
      <4> QED
        BY <1>3, <3>1, <3>3, <4>1, <4>2
    <3>4. CASE h # e
      BY <1>3, <3>1, <3>4
    <3> QED
      BY <3>2, <3>3, <3>4
  <2>2. (\A x \in Tickets' : x = <<x[1], x[2]>>) /\ (\A x \in Tickets : x = <<x[1], x[2]>>)
    BY DEF Tickets
  <2>3. Tickets' \subseteq Tickets \ {t}
    BY <2>1, <2>2
  <2>4. Tickets \ {t} \subseteq Tickets'
    BY <2>1, <2>2
  <2> QED
    BY <2>3, <2>4
<1>5. t \in Tickets
  BY <1>2 DEF Tickets, Waiting, BagToSet
<1> HIDE DEF t
<1>6. /\ IsFiniteSet(Tickets') /\ Cardinality(Tickets') = Cardinality(Tickets) - 1
      /\ Cardinality(Tickets) \in Nat /\ Cardinality(Tickets') \in Nat
  BY <1>4, <1>5, FS_RemoveElement, FS_CardinalityType DEF RequestsCover
<1>7. requests \in Nat /\ raised \in Nat /\ raised + Cardinality(Tickets) <= requests
  BY DEF RequestsCover
<1>8. requests' \in Nat /\ raised' \in Nat /\ raised' + Cardinality(Tickets') <= requests'
  BY <1>1, <1>6, <1>7
<1> QED
  BY <1>3, <1>6, <1>8 DEF RequestsCover

\* What the types rest on, besides the invariant of the alerts.
AnomalyTypeInv == AnomalyTypeOK /\ RequestsCover /\ AlertsInv

\* Every step keeps the types.
LEMMA AnomalyTypesNext ==
  ASSUME AnomalyTypeInv, [AnomalyNext]_anomalyVars
  PROVE  AnomalyTypeInv'
<1>1. /\ now \in Nat /\ now <= MaxTime /\ service \in {"running", "stopping", "exited"}
      /\ requests \in 0..MaxRequests /\ IsABag(handlers)
      /\ \A h \in Waiting : h.key \in Series /\ h.at \in Int /\ h.at >= 0 /\ h.at <= now
      /\ MaxTime \in Nat /\ MaxRequests \in Nat
      /\ RequestsCover /\ AlertsInv
  BY AnomalyAssumption DEF AnomalyTypeInv, AnomalyTypeOK
<1>2. AlertsInv'
  BY <1>1, AlertsInvNext
<1>3. /\ raised' \in Nat /\ Len(alertChan') <= AlertCapacity /\ processor' \in BOOLEAN
      /\ \A h \in Waiting' : h.key \in Series
  BY <1>2 DEF AlertsInv
<1>10. reading' \in BOOLEAN
  <2>1. reading \in BOOLEAN
    BY DEF AnomalyTypeInv, AnomalyTypeOK
  <2>2. reading' = reading \/ BeginRead \/ EndRead
    BY DEF AnomalyNext, Receive, Record, Process, ProcessorEnds, Signal, Exit, Tick, anomalyVars
  <2> QED
    BY <2>1, <2>2 DEF BeginRead, EndRead
<1>4. SUFFICES /\ now' \in 0..MaxTime /\ service' \in {"running", "stopping", "exited"}
               /\ requests' \in 0..MaxRequests /\ IsABag(handlers')
               /\ \A h \in Waiting' : h.at \in 0..now'
               /\ RequestsCover'
  <2>1. ASSUME IsFiniteSet(Tickets'), raised' + Cardinality(Tickets') <= requests', requests' \in 0..MaxRequests
        PROVE  raised' \in 0..MaxRequests
    <3>1. Cardinality(Tickets') \in Nat
      BY <2>1, FS_CardinalityType
    <3> QED
      BY <1>1, <1>3, <2>1, <3>1
  <2> QED
    BY <1>2, <1>3, <1>10, <2>1 DEF AnomalyTypeInv, AnomalyTypeOK, RequestsCover
<1>5. ASSUME UNCHANGED <<requests, handlers, raised>>
      PROVE  requests' \in 0..MaxRequests /\ IsABag(handlers') /\ RequestsCover' /\ Waiting' = Waiting
  <2>1. Waiting' = Waiting /\ Tickets' = Tickets
    BY <1>5 DEF Waiting, Tickets
  <2> QED
    BY <1>1, <1>5, <2>1 DEF RequestsCover
<1>6. CASE BeginRead \/ EndRead \/ Process \/ ProcessorEnds \/ Signal \/ Exit \/ UNCHANGED anomalyVars
  <2>1. UNCHANGED <<requests, handlers, raised, now>> /\ service' \in {"running", "stopping", "exited"}
    BY <1>1, <1>6 DEF BeginRead, EndRead, Process, ProcessorEnds, Signal, Exit, metrics, alerting, anomalyVars
  <2> QED
    BY <1>1, <1>5, <2>1
<1>7. CASE Tick
  <2>1. UNCHANGED <<requests, handlers, raised, service>> /\ now' = now + 1 /\ now < MaxTime
    BY <1>7 DEF Tick, metrics, alerting
  <2>2. now' \in 0..MaxTime
    BY <1>1, <2>1
  <2>3. \A h \in Waiting : h.at \in 0..now'
    BY <1>1, <2>1
  <2> QED
    BY <1>1, <1>5, <2>1, <2>2, <2>3
<1>8. ASSUME NEW k, NEW v, Receive(k, v)
      PROVE  /\ UNCHANGED <<now, service>> /\ IsABag(handlers') /\ RequestsCover'
             /\ requests' \in 0..MaxRequests /\ \A h \in Waiting' : h.at \in 0..now'
  <2>1. UNCHANGED <<now, service>>
    BY <1>8 DEF Receive
  <2>2. Waiting' = Waiting \cup {[key |-> k, at |-> now, value |-> v]}
    BY <1>8 DEF Receive, Waiting, BagToSet, SetToBag, (+)
  <2>3. \A h \in Waiting' : h.at \in 0..now
    BY <1>1, <2>2
  <2> QED
    BY <1>1, <1>8, <2>1, <2>3, ReceiveCovers
<1>9. ASSUME NEW h \in Waiting, Record(h)
      PROVE  /\ UNCHANGED <<now, service, requests>> /\ IsABag(handlers') /\ RequestsCover'
             /\ \A g \in Waiting' : g.at \in 0..now'
  <2>1. UNCHANGED <<now, service, requests>>
    BY <1>9 DEF Record
  <2>2. IsABag(handlers') /\ RequestsCover' /\ Waiting' \subseteq Waiting
    BY <1>1, <1>9, RecordCovers DEF Waiting, BagToSet
  <2> QED
    BY <1>1, <2>1, <2>2
<1> QED
  BY <1>1, <1>6, <1>7, <1>8, <1>9 DEF AnomalyNext

\* The service that starts has no request and no ticket.
LEMMA AnomalyTypesInit ==
  ASSUME AnomalyInit
  PROVE  AnomalyTypeInv
<1>1. /\ now = 0 /\ service = "running" /\ requests = 0 /\ raised = 0
      /\ alertChan = << >> /\ processor = TRUE /\ reading = FALSE
  BY DEF AnomalyInit
<1>2. DOMAIN handlers = {} /\ IsABag(handlers)
  BY DEF AnomalyInit, EmptyBag, SetToBag, IsABag
<1>3. Waiting = {} /\ Tickets = {}
  BY <1>2 DEF Waiting, BagToSet, Tickets
<1>4. AlertsInv
  BY AlertsInvInit
<1>5. RequestsCover
  BY <1>1, <1>3, FS_EmptySet DEF RequestsCover
<1>6. AnomalyTypeOK
  <2>1. 0 \in 0..MaxTime /\ 0 \in 0..MaxRequests
    BY AnomalyAssumption
  <2>2. Len(alertChan) <= AlertCapacity
    BY <1>4 DEF AlertsInv
  <2> QED
    BY <1>1, <1>2, <1>3, <2>1, <2>2 DEF AnomalyTypeOK
<1> QED
  BY <1>4, <1>5, <1>6 DEF AnomalyTypeInv

\* The types, of which one is more than that: however many handlers record at once, there
\* is a request for each alert.
THEOREM AnomalyTypes == AnomalySpec => []AnomalyTypeOK
<1>1. AnomalyTypeInv => AnomalyTypeOK
  BY DEF AnomalyTypeInv
<1> QED
  BY <1>1, AnomalyTypesInit, AnomalyTypesNext, PTL DEF AnomalySpec
==============================================================================
