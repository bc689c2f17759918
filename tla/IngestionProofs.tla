--------------------------- MODULE IngestionProofs ---------------------------
(***************************************************************************)
(* Proofs about Ingestion, for every set of requests, of workers and of    *)
(* lines.  The pool and the miner are used as their own proofs leave them: *)
(* a step of the service is a step of the specification of each, and what  *)
(* is proved of them holds inside the service.                             *)
(***************************************************************************)
EXTENDS Ingestion, TLAPS, FiniteSetTheorems

PoolThms == INSTANCE WorkerPoolProofs
  WITH Async <- Requests, Batches <- {}, BatchOf <- << >>, Failing <- Blank

MinerThms == INSTANCE DrainTreeProofs
  WITH Logs <- Lines, Timestamps <- 1..Cardinality(Requests),
       MaxParses <- Cardinality(Requests)

----------------------------------------------------------------------------
(* The assumptions of the parts.                                           *)

\* An instance has finite sets and cardinalities of its own: the same.
LEMMA SameCounts ==
  /\ \A S : PoolThms!IsFiniteSet(S) <=> IsFiniteSet(S)
  /\ \A S : Pool!IsFiniteSet(S) <=> IsFiniteSet(S)
  /\ \A S : PoolThms!Cardinality(S) = Cardinality(S)
  /\ \A S : Pool!Cardinality(S) = Cardinality(S)
  /\ \A S : MinerThms!Cardinality(S) = Cardinality(S)
  /\ \A S : Miner!Cardinality(S) = Cardinality(S)
BY DEF PoolThms!IsFiniteSet, Pool!IsFiniteSet, IsFiniteSet, PoolThms!Cardinality,
       Pool!Cardinality, MinerThms!Cardinality, Miner!Cardinality, Cardinality

\* The messages of this pool are the requests: nobody calls Batch.
LEMMA Messages ==
  /\ PoolThms!BatchMessages = {} /\ PoolThms!Message = Requests
  /\ Pool!BatchMessages = {} /\ Pool!Message = Requests
BY DEF PoolThms!BatchMessages, PoolThms!Message, Pool!BatchMessages, Pool!Message

\* The service calls the pool within its assumptions.
LEMMA PoolAssumed ==
  /\ PoolThms!IsFiniteSet(Workers) /\ Workers # {}
  /\ BufferSize \in Nat \ {0}
  /\ PoolThms!IsFiniteSet(Requests)
  /\ << >> \in [{} -> Seq(PoolThms!BatchMessages) \ {<< >>}]
  /\ \A b \in {} : PoolThms!IsInjective(<< >>[b])
  /\ \A b, d \in {} : b # d => PoolThms!Range(<< >>[b]) \cap PoolThms!Range(<< >>[d]) = {}
  /\ Requests \cap PoolThms!BatchMessages = {}
  /\ None \notin PoolThms!Message
  /\ Blank \subseteq PoolThms!Message
<1>1. << >> \in [{} -> Seq(PoolThms!BatchMessages) \ {<< >>}]
  <2>1. DOMAIN << >> = {}
    OBVIOUS
  <2>2. << >> = [i \in {} |-> << >>[i]]
    OBVIOUS
  <2>. QED  BY <2>2
<1>. QED  BY <1>1, Messages, SameCounts, FormAssumption, PoolAssumption DEF Blank

\* Each line the service accepts is one the miner can be handed.
LEMMA MinerAssumed ==
  /\ /\ Wild \notin Word \cup Variable
     /\ Word \cap Variable = {}
     /\ Lines \subseteq Seq(MinerThms!RawToken)
  /\ /\ MaxDepth \in Nat \ {0}
     /\ SimNum \in Nat /\ SimDen \in Nat \ {0} /\ SimNum <= SimDen
     /\ Cardinality(Requests) \in Nat
  /\ /\ \A l, m \in Lines : Hash(MinerThms!Preprocess(l)) = Hash(MinerThms!Preprocess(m))
                              => MinerThms!Preprocess(l) = MinerThms!Preprocess(m)
     /\ \A l \in Lines : Hash(MinerThms!Preprocess(l)) # NoID
<1>1. \A l : MinerThms!Preprocess(l) = Miner!Preprocess(l)
  BY DEF MinerThms!Preprocess, Miner!Preprocess
<1>2. Cardinality(Requests) \in Nat
  BY FormAssumption, FS_CardinalityType
<1>. QED  BY <1>1, <1>2, ConfigAssumption, TokenAssumption, HashAssumption
          DEF MinerThms!RawToken

\* What WorkerPoolProofs proves of the pool, with the arguments of the service.
LEMMA PoolFacts ==
  PoolThms!Spec => []PoolThms!PoolInv /\ []PoolThms!MetricsAddUp
<1>1. PoolThms!Spec => []PoolThms!PoolInv
  BY PoolThms!PoolInvariance, PoolAssumed
<1>2. PoolThms!Spec => []PoolThms!MetricsAddUp
  BY PoolThms!MetricsCorrect, PoolAssumed
<1>. QED  BY <1>1, <1>2, PTL

\* What DrainTreeProofs proves of the miner, with the arguments of the service.
LEMMA MinerFacts == MinerThms!Spec => []MinerThms!MinerInv
BY MinerThms!StatsCorrect, MinerAssumed, PTL

----------------------------------------------------------------------------
(* The pool and the miner inside the service.                              *)

\* Every step of the service leaves the pool alone or is one of its steps.
LEMMA PoolSteps == [Next]_vars => [PoolThms!Next]_(PoolThms!vars)
<1>. USE DEF PoolThms!Next, PoolThms!channels, PoolThms!metrics, PoolThms!workers,
             Pool!channels, Pool!metrics, Pool!workers
<1>1. ASSUME UNCHANGED pool PROVE UNCHANGED PoolThms!vars
  BY <1>1 DEF pool, PoolThms!vars
<1>2. ASSUME NEW r \in Requests, Handler(r) PROVE [PoolThms!Next]_(PoolThms!vars)
  <2>1. CASE AnswerEarly(r) \/ Stamp(r) \/ Write(r)
    BY <1>1, <2>1 DEF AnswerEarly, Stamp, Write
  <2>2. CASE Submit(r)
    <3>1. PoolThms!Submit(r) \/ PoolThms!CountDrop(r)
      BY <2>2 DEF Submit, Pool!Submit, Pool!Send, Pool!SendOnClosed, Pool!SeeDone, Pool!DropFull,
         Pool!CountDrop, PoolThms!CountDrop, PoolThms!Submit, PoolThms!Send, PoolThms!SendOnClosed, PoolThms!SeeDone, PoolThms!DropFull
    <3>. QED  BY <3>1
  <2>. QED  BY <1>2, <2>1, <2>2 DEF Handler
<1>3. ASSUME NEW w \in Workers, Worker(w) PROVE [PoolThms!Next]_(PoolThms!vars)
  <2>1. Pool!Receive(w) => PoolThms!Receive(w)
    BY DEF Pool!Receive, PoolThms!Receive
  <2>2. Pool!Handle(w) => PoolThms!Handle(w)
    BY DEF Pool!Handle, PoolThms!Handle
  <2>3. Pool!CountOutcome(w) => PoolThms!CountOutcome(w)
    BY DEF Pool!CountOutcome, PoolThms!CountOutcome
  <2>4. Pool!Report(w) => PoolThms!Report(w)
    BY DEF Pool!Report, PoolThms!Report
  <2>5. Pool!Leave(w) => PoolThms!Leave(w)
    BY DEF Pool!Leave, PoolThms!Leave
  <2>. QED  BY <1>3, <2>1, <2>2, <2>3, <2>4, <2>5 DEF Worker, ProcessLog, PoolThms!Worker
<1>4. ASSUME NEW s \in Scrapes, Scrape(s) PROVE UNCHANGED PoolThms!vars
  BY <1>1, <1>4 DEF Scrape, ReadMetrics, ReadStats
<1>5. Signal => PoolThms!CancelParent
  BY DEF Signal, Pool!CancelParent, PoolThms!CancelParent
<1>6. Shutdown \/ Exit => UNCHANGED PoolThms!vars
  BY <1>1 DEF Shutdown, Exit
<1>7. Stop => PoolThms!Stop
  BY DEF Stop, Pool!Stop, Pool!StopCancel, Pool!StopCloseTasks, Pool!StopCloseResults,
     PoolThms!Stop, PoolThms!StopCancel, PoolThms!StopCloseTasks, PoolThms!StopCloseResults
<1>8. UNCHANGED vars => UNCHANGED PoolThms!vars
  BY <1>1 DEF vars
<1>. QED  BY <1>2, <1>3, <1>4, <1>5, <1>6, <1>7, <1>8 DEF Next

LEMMA PoolInit == Init => PoolThms!Init
BY DEF Init, Pool!Init, PoolThms!Init, Pool!Message, PoolThms!Message, Pool!BatchMessages,
   PoolThms!BatchMessages

\* The pool of the service is a pool: its invariant and its metrics are those proved
\* of it.
LEMMA PoolInside == Spec => []PoolThms!PoolInv /\ []PoolThms!MetricsAddUp
BY PoolInit, PoolSteps, PoolFacts, PTL DEF Spec, PoolThms!Spec

\* The operators of the miner, instantiated here and in its proofs.
LEMMA SameMiner ==
  ASSUME NEW l, NEW ts, Miner!Parse(l, ts)
  PROVE  MinerThms!Parse(l, ts)
<1>1. \A t : Miner!Preprocess(t) = MinerThms!Preprocess(t)
  BY DEF Miner!Preprocess, MinerThms!Preprocess
<1>2. \A t : Miner!LeafDepth(t) = MinerThms!LeafDepth(t)
  BY DEF Miner!LeafDepth, MinerThms!LeafDepth
<1>3. \A t : Miner!LeafPath(t) = MinerThms!LeafPath(t)
  BY <1>2 DEF Miner!LeafPath, MinerThms!LeafPath
<1>4. \A c, p : Miner!AddToTree(c, p) = MinerThms!AddToTree(c, p)
  BY DEF Miner!AddToTree, MinerThms!AddToTree, Miner!ClustersAt, MinerThms!ClustersAt,
     Miner!PathPrefixes, MinerThms!PathPrefixes
<1>5. \A t : Miner!Reached(t) = MinerThms!Reached(t)
  <2>1. \A n, t : Miner!NextKey(n, t) = MinerThms!NextKey(n, t)
    BY DEF Miner!NextKey, MinerThms!NextKey
  <2>2. \A t : Miner!Visited(t) = MinerThms!Visited(t)
    BY <1>2, <2>1 DEF Miner!Visited, MinerThms!Visited
  <2>3. \A t : Miner!LastVisited(t) = MinerThms!LastVisited(t)
    BY <2>2 DEF Miner!LastVisited, MinerThms!LastVisited
  <2>. QED  BY <1>2, <2>3 DEF Miner!Reached, MinerThms!Reached
<1>6. \A t, s : Miner!Matches(t, s) = MinerThms!Matches(t, s)
  BY SameCounts DEF Miner!Matches, MinerThms!Matches, Miner!Matching, MinerThms!Matching
<1>7. \A b, t : Miner!Candidates(b, t) = MinerThms!Candidates(b, t)
  BY <1>6 DEF Miner!Candidates, MinerThms!Candidates
<1>8. \A b, t : Miner!FindBestMatch(b, t) = MinerThms!FindBestMatch(b, t)
  BY <1>6, <1>7 DEF Miner!FindBestMatch, MinerThms!FindBestMatch
<1>9. \A c, t : Miner!UpdatedCluster(c, t, ts) = MinerThms!UpdatedCluster(c, t, ts)
  BY DEF Miner!UpdatedCluster, MinerThms!UpdatedCluster, Miner!Generalize, MinerThms!Generalize
<1>10. \A t : Miner!NewCluster(t, ts) = MinerThms!NewCluster(t, ts)
  BY DEF Miner!NewCluster, MinerThms!NewCluster
<1>11. \A c, n : Miner!ParseResult(l, c, n) = MinerThms!ParseResult(l, c, n)
  <2>1. \A t : Miner!Wildcards(t) = MinerThms!Wildcards(t)
    BY DEF Miner!Wildcards, MinerThms!Wildcards
  <2>2. \A t, i : Miner!VarNumber(t, i) = MinerThms!VarNumber(t, i)
    BY <2>1, SameCounts DEF Miner!VarNumber, MinerThms!VarNumber
  <2>3. \A t : Miner!ExtractVariables(t, l) = MinerThms!ExtractVariables(t, l)
    BY <2>1, <2>2 DEF Miner!ExtractVariables, MinerThms!ExtractVariables
  <2>. QED  BY <2>3 DEF Miner!ParseResult, MinerThms!ParseResult
<1>12. Miner!ErrorResult(l) = MinerThms!ErrorResult(l)
  BY DEF Miner!ErrorResult, MinerThms!ErrorResult
<1>13. CASE Miner!ParseEmpty(l)
  BY <1>12, <1>13 DEF Miner!Parse, MinerThms!Parse, Miner!ParseEmpty, MinerThms!ParseEmpty
<1>14. CASE Miner!ParseNew(l, ts)
  BY <1>1, <1>3, <1>4, <1>5, <1>7, <1>10, <1>11, <1>14
     DEF Miner!Parse, MinerThms!Parse, Miner!ParseNew, MinerThms!ParseNew
<1>15. CASE Miner!ParseKnown(l, ts)
  <2>. DEFINE tokens == MinerThms!Preprocess(l)
              list == MinerThms!Reached(tokens)
  <2>0. Miner!Preprocess(l) = tokens /\ Miner!Reached(tokens) = list
    BY <1>1, <1>5
  <2>1. /\ Len(l) > 0 /\ UNCHANGED <<clusters, tree>>
        /\ \E k \in MinerThms!FindBestMatch(list, tokens) :
             /\ heap' = [heap EXCEPT ![list[k]] =
                           MinerThms!UpdatedCluster(heap[list[k]], tokens, ts)]
             /\ parsed' = Append(parsed, MinerThms!ParseResult(l,
                           MinerThms!UpdatedCluster(heap[list[k]], tokens, ts), FALSE))
    <3>. HIDE DEF tokens, list
    <3>1. Len(l) > 0 /\ UNCHANGED <<clusters, tree>>
      BY <1>15 DEF Miner!ParseKnown
    <3>2. PICK k \in Miner!FindBestMatch(list, tokens) :
            /\ heap' = [heap EXCEPT ![list[k]] = Miner!UpdatedCluster(heap[list[k]], tokens, ts)]
            /\ parsed' = Append(parsed, Miner!ParseResult(l,
                          Miner!UpdatedCluster(heap[list[k]], tokens, ts), FALSE))
      BY <1>15, <2>0, Zenon DEF Miner!ParseKnown
    <3>3. k \in MinerThms!FindBestMatch(list, tokens)
      BY <1>8
    <3>4. Miner!UpdatedCluster(heap[list[k]], tokens, ts)
            = MinerThms!UpdatedCluster(heap[list[k]], tokens, ts)
      BY <1>9
    <3>5. Miner!ParseResult(l, MinerThms!UpdatedCluster(heap[list[k]], tokens, ts), FALSE)
            = MinerThms!ParseResult(l, MinerThms!UpdatedCluster(heap[list[k]], tokens, ts), FALSE)
      BY <1>11
    <3>6. heap' = [heap EXCEPT ![list[k]] = MinerThms!UpdatedCluster(heap[list[k]], tokens, ts)]
      BY <3>2, <3>4
    <3>7. parsed' = Append(parsed, MinerThms!ParseResult(l,
                           MinerThms!UpdatedCluster(heap[list[k]], tokens, ts), FALSE))
      BY <3>2, <3>4, <3>5
    <3>. QED  BY <3>1, <3>3, <3>6, <3>7
  <2>2. MinerThms!ParseKnown(l, ts)
    BY <2>1 DEF MinerThms!ParseKnown
  <2>. QED  BY <2>2 DEF Miner!Parse, MinerThms!Parse
<1>. QED  BY <1>13, <1>14, <1>15 DEF Miner!Parse

----------------------------------------------------------------------------
(* The requests.                                                           *)

RequestType ==
  request \in [Requests -> [pc : {"new", "stamped", "writing", "replied", "cut"},
                            stamp : 0..Cardinality(Requests), code : Code]]

RequestsOK == RequestType /\ RequestsInOrder

LEMMA RequestsInit == Init => RequestsOK
<1>. SUFFICES ASSUME Init PROVE RequestsOK
  OBVIOUS
<1>1. Cardinality(Requests) \in Nat
  BY FormAssumption, FS_CardinalityType
<1>2. \A r \in Requests : answer[r] = "none"
  BY Messages DEF Init, Pool!Init
<1>. QED  BY <1>1, <1>2 DEF Init, RequestsOK, RequestType, RequestsInOrder, Code

\* There are as many time stamps as requests.
LEMMA NowType ==
  ASSUME RequestType, NEW r \in Requests, request[r].stamp = 0
  PROVE  Now \in 1..Cardinality(Requests)
<1>. DEFINE T == {q \in Requests : request[q].stamp > 0}
<1>1. /\ IsFiniteSet(Requests \ {r})
      /\ Cardinality(Requests \ {r}) = Cardinality(Requests) - 1
      /\ Cardinality(Requests) \in Nat
  BY FormAssumption, FS_RemoveElement, FS_CardinalityType
<1>2. T \in SUBSET (Requests \ {r})
  OBVIOUS
<1>3. Cardinality(T) <= Cardinality(Requests) - 1 /\ Cardinality(T) \in Nat
  BY <1>1, <1>2, FS_Subset, FS_CardinalityType
<1>. QED  BY <1>1, <1>3 DEF Now

\* A handler goes through its states in order and takes one time stamp.
LEMMA RequestsNext ==
  RequestsOK /\ PoolThms!PoolInv /\ PoolThms!PoolInv' /\ [Next]_vars => RequestsOK'
<1>. SUFFICES ASSUME RequestsOK, PoolThms!PoolInv, PoolThms!PoolInv', [Next]_vars
              PROVE  RequestsOK'
  OBVIOUS
<1>. USE DEF RequestsOK
<1>1. answer \in [Requests -> {"none", "dropping", "accepted", "refused", "panicked"}]
  BY Messages DEF PoolThms!PoolInv, PoolThms!TypeOK
<1>2. ASSUME UNCHANGED <<request, answer>> PROVE RequestsOK'
  BY <1>2 DEF RequestType, RequestsInOrder
<1>3. ASSUME NEW r \in Requests, AnswerEarly(r) \/ Write(r) PROVE RequestsOK'
  <2>1. EarlyCode(Form[r]) \in Code
    BY FormAssumption DEF EarlyCode, Code
  <2>2. answer' = answer
    BY <1>3 DEF AnswerEarly, Write, pool
  <2>. QED  BY <1>3, <2>1, <2>2 DEF AnswerEarly, Write, RequestType, RequestsInOrder
<1>4. ASSUME NEW r \in Requests, Stamp(r) PROVE RequestsOK'
  <2>1. request[r].stamp = 0 /\ request[r].pc = "new"
    BY <1>4 DEF Stamp, RequestsInOrder
  <2>2. Now \in 1..Cardinality(Requests)
    BY <2>1, NowType
  <2>3. /\ request' = [request EXCEPT ![r].pc = "stamped", ![r].stamp = Now]
        /\ answer' = answer /\ EarlyCode(Form[r]) = 0
    BY <1>4 DEF Stamp, pool
  <2>4. Now \in 0..Cardinality(Requests) /\ Now # 0
    BY <2>2
  <2>. HIDE DEF Now
  <2>5. RequestType'
    BY <2>3, <2>4 DEF RequestType
  <2>6. request'[r] = [request[r] EXCEPT !.pc = "stamped", !.stamp = Now]
    BY <2>3 DEF RequestType
  <2>7. request'[r].pc = "stamped" /\ request'[r].stamp = Now
    BY <2>6 DEF RequestType
  <2>8. \A q \in Requests : q # r => request'[q] = request[q]
    BY <2>3 DEF RequestType
  <2>. QED  BY <2>3, <2>4, <2>5, <2>7, <2>8 DEF RequestsInOrder
<1>5. ASSUME NEW r \in Requests, Submit(r) PROVE RequestsOK'
  <2>. DEFINE Answers == {"dropping", "accepted", "refused", "panicked"}
  <2>1. PICK a \in Answers : answer' = [answer EXCEPT ![r] = a]
    BY <1>5 DEF Submit, Pool!Submit, Pool!Send, Pool!SendOnClosed, Pool!SeeDone, Pool!DropFull,
       Pool!CountDrop
  <2>2. answer'[r] = a /\ \A q \in Requests : q # r => answer'[q] = answer[q]
    BY <1>1, <2>1
  <2>3. request[r].pc = "stamped"
    BY <1>5 DEF Submit
  <2>4. CASE a = "dropping"
    <3>1. request' = request
      BY <1>5, <2>2, <2>4 DEF Submit
    <3>. QED  BY <2>2, <2>3, <3>1 DEF RequestType, RequestsInOrder
  <2>5. CASE a # "dropping"
    <3>. DEFINE p == IF answer'[r] = "panicked" THEN "cut" ELSE "writing"
                c == CASE answer'[r] = "accepted" -> 202
                       [] answer'[r] = "refused"  -> 503
                       [] answer'[r] = "panicked" -> 0
    <3>1. p \in {"cut", "writing"} /\ c \in Code
      BY <2>2, <2>5 DEF Code
    <3>2. request' = [request EXCEPT ![r].pc = p, ![r].code = c]
      BY <1>5, <2>2, <2>5 DEF Submit
    <3>. HIDE DEF p, c
    <3>. QED  BY <2>2, <2>3, <3>1, <3>2 DEF RequestType, RequestsInOrder
  <2>. QED  BY <2>4, <2>5
<1>6. ASSUME Exit PROVE RequestsOK'
  <2>1. /\ request' = [r \in Requests |->
             IF request[r].pc \in {"stamped", "writing"} THEN [request[r] EXCEPT !.pc = "cut"]
             ELSE request[r]]
        /\ answer' = answer
    BY <1>6 DEF Exit, pool
  <2>. QED  BY <2>1 DEF RequestType, RequestsInOrder
<1>7. ASSUME (\E w \in Workers : Worker(w)) \/ (\E s \in Scrapes : Scrape(s))
              \/ Signal \/ Shutdown \/ Stop
      PROVE  RequestsOK'
  <2>1. UNCHANGED <<request, answer>>
    BY <1>7 DEF Worker, http, ProcessLog, Pool!Receive, Pool!Handle, Pool!CountOutcome,
       Pool!Report, Pool!Leave, Scrape, ReadMetrics, ReadStats, pool, Signal, Pool!CancelParent,
       Shutdown, Stop, Pool!Stop, Pool!StopCancel, Pool!StopCloseTasks, Pool!StopCloseResults
  <2>. QED  BY <1>2, <2>1
<1>8. UNCHANGED vars => RequestsOK'
  BY <1>2 DEF vars, http, pool
<1>. QED  BY <1>3, <1>4, <1>5, <1>6, <1>7, <1>8 DEF Next, Handler

\* A worker hands the miner the line of a request that is handled for the first time.
LEMMA HandedLine ==
  ASSUME RequestsOK, PoolThms!PoolInv, NEW w \in Workers, pc[w] = "handle"
  PROVE  /\ hand[w] \in Requests /\ handled[hand[w]] = 0
         /\ Form[hand[w]].log \in Lines
         /\ request[hand[w]].stamp \in 1..Cardinality(Requests)
<1>1. hand[w] \in Requests /\ answer[hand[w]] = "accepted" /\ handled[hand[w]] = 0
  <2>1. hand[w] # None /\ answer[hand[w]] = "accepted" /\ handled[hand[w]] = 0
    BY DEF PoolThms!PoolInv, PoolThms!MessagesInOnePlace
  <2>2. hand[w] \in Requests \cup {None}
    BY Messages DEF PoolThms!PoolInv, PoolThms!TypeOK
  <2>. QED  BY <2>1, <2>2
<1>2. EarlyCode(Form[hand[w]]) = 0 /\ request[hand[w]].stamp \in 1..Cardinality(Requests)
  BY <1>1, FormAssumption, FS_CardinalityType DEF RequestsOK, RequestsInOrder, RequestType
<1>. QED  BY <1>1, <1>2, FormAssumption DEF Lines, EarlyCode

\* Every step of the service leaves the miner alone or is a call of Parse with a line
\* of a request and its time stamp.
LEMMA MinerSteps ==
  RequestsOK /\ PoolThms!PoolInv /\ [Next]_vars => [MinerThms!Next]_(MinerThms!vars)
<1>. SUFFICES ASSUME RequestsOK, PoolThms!PoolInv, [Next]_vars
              PROVE  [MinerThms!Next]_(MinerThms!vars)
  OBVIOUS
<1>1. ASSUME UNCHANGED miner PROVE UNCHANGED MinerThms!vars
  BY <1>1 DEF miner, MinerThms!vars
<1>2. ASSUME NEW w \in Workers, Pool!Handle(w),
             Miner!Parse(Form[hand[w]].log, request[hand[w]].stamp)
      PROVE  MinerThms!Next
  <2>1. pc[w] = "handle"
    BY <1>2 DEF Pool!Handle
  <2>2. Form[hand[w]].log \in Lines /\ request[hand[w]].stamp \in 1..Cardinality(Requests)
    BY <2>1, HandedLine
  <2>. QED  BY <1>2, <2>2, SameMiner DEF MinerThms!Next
<1>3. ASSUME NEW w \in Workers, Worker(w) PROVE [MinerThms!Next]_(MinerThms!vars)
  BY <1>1, <1>2, <1>3 DEF Worker, ProcessLog
<1>4. (\E r \in Requests : Handler(r)) \/ (\E s \in Scrapes : Scrape(s)) \/ Signal \/ Shutdown
        \/ Stop \/ Exit \/ UNCHANGED vars => UNCHANGED miner
  BY DEF Handler, AnswerEarly, Stamp, Submit, Write, Scrape, ReadMetrics, ReadStats, Signal,
     Shutdown, Stop, Exit, vars
<1>. QED  BY <1>1, <1>3, <1>4 DEF Next

LEMMA MinerInit == Init => MinerThms!Init
BY DEF Init, Miner!Init, MinerThms!Init

\* The miner of the service is a miner: what is proved of it holds.
LEMMA MinerInside == Spec => []RequestsOK /\ []MinerThms!MinerInv
<1>1. Spec => []RequestsOK
  BY RequestsInit, RequestsNext, PoolInside, PTL DEF Spec
<1>. QED  BY <1>1, MinerInit, MinerSteps, MinerFacts, PoolInside, PTL DEF Spec, MinerThms!Spec

----------------------------------------------------------------------------
(* Lines and messages.                                                     *)

Inside == RequestsOK /\ PoolThms!PoolInv /\ PoolThms!MetricsAddUp /\ MinerThms!MinerInv

LEMMA AlwaysInside == Spec => []Inside
BY PoolInside, MinerInside, PTL DEF Inside

\* What Inside says of the requests and of the variables of the parts.
LEMMA InsideTypes ==
  ASSUME Inside
  PROVE  /\ handled \in [Requests -> Nat]
         /\ answer \in [Requests -> {"none", "dropping", "accepted", "refused", "panicked"}]
         /\ hand \in [Workers -> Requests \cup {None}]
         /\ parsed \in Seq(MinerThms!ResultType)
         /\ Processed \in Nat
BY Messages DEF Inside, PoolThms!PoolInv, PoolThms!TypeOK, MinerThms!MinerInv,
   MinerThms!IndInv, MinerThms!TypeOK

\* The request r is handled and q is what the miner returned for it.
Mines(r, q) ==
  /\ r \in Requests /\ handled[r] = 0 /\ handled' = [handled EXCEPT ![r] = 1]
  /\ parsed' = Append(parsed, q) /\ q.log = Form[r].log
  /\ q.TemplateID = NoID <=> r \in Blank

\* A step mines one line for one request, or none.
LEMMA StepMines ==
  Inside /\ [Next]_vars => UNCHANGED <<handled, parsed>> \/ \E r, q : Mines(r, q)
<1>. SUFFICES ASSUME Inside, [Next]_vars
              PROVE  UNCHANGED <<handled, parsed>> \/ \E r, q : Mines(r, q)
  OBVIOUS
<1>1. ASSUME NEW w \in Workers, Pool!Handle(w),
             Miner!Parse(Form[hand[w]].log, request[hand[w]].stamp)
      PROVE  \E r, q : Mines(r, q)
  <2>. DEFINE r == hand[w]
  <2>1. pc[w] = "handle" /\ handled' = [handled EXCEPT ![r] = @ + 1]
    BY <1>1 DEF Pool!Handle
  <2>2. /\ r \in Requests /\ handled[r] = 0 /\ Form[r].log \in Lines
        /\ request[r].stamp \in 1..Cardinality(Requests)
    BY <2>1, HandedLine DEF Inside
  <2>3. PICK q : /\ parsed' = Append(parsed, q) /\ q.log = Form[r].log
                 /\ q.TemplateID = NoID <=> Form[r].log = << >>
    <3>1. MinerThms!Parse(Form[r].log, request[r].stamp)
      BY <1>1, SameMiner
    <3>. QED  BY <2>2, <3>1, MinerThms!ParseAnswers, MinerAssumed DEF Inside, MinerThms!MinerInv
  <2>4. handled' = [handled EXCEPT ![r] = 1]
    BY <2>1, <2>2, InsideTypes
  <2>5. r \in Blank <=> Form[r].log = << >>
    BY <2>2 DEF Blank
  <2>. QED  BY <2>2, <2>3, <2>4, <2>5 DEF Mines
<1>2. ASSUME NEW w \in Workers, Worker(w)
      PROVE  UNCHANGED <<handled, parsed>> \/ \E r, q : Mines(r, q)
  <2>1. CASE Pool!Handle(w) /\ Miner!Parse(Form[hand[w]].log, request[hand[w]].stamp)
    BY <1>1, <2>1
  <2>2. CASE (Pool!Receive(w) \/ Pool!CountOutcome(w) \/ Pool!Report(w) \/ Pool!Leave(w))
             /\ UNCHANGED miner
    BY <2>2 DEF miner, Pool!Receive, Pool!CountOutcome, Pool!Report, Pool!Leave
  <2>. QED  BY <1>2, <2>1, <2>2 DEF Worker, ProcessLog
<1>3. (\E r \in Requests : Handler(r)) \/ (\E s \in Scrapes : Scrape(s)) \/ Signal \/ Shutdown
        \/ Stop \/ Exit \/ UNCHANGED vars => UNCHANGED <<handled, parsed>>
  BY DEF Handler, AnswerEarly, Stamp, Submit, Write, Scrape, ReadMetrics, ReadStats, Signal,
     Shutdown, Stop, Exit, vars, miner, pool, Pool!Submit, Pool!CountDrop,
     Pool!CancelParent, Pool!Stop, Pool!StopCancel, Pool!StopCloseTasks, Pool!StopCloseResults
<1>. QED  BY <1>2, <1>3 DEF Next

----------------------------------------------------------------------------
(* Counting lines and messages.                                            *)

\* Two sets of one size stay of one size when each gets one new member.
LEMMA GrowTogether ==
  ASSUME NEW A, NEW B, IsFiniteSet(A), IsFiniteSet(B), Cardinality(A) = Cardinality(B),
         NEW x, NEW y, x \notin A, y \notin B
  PROVE  Cardinality(A \cup {x}) = Cardinality(B \cup {y})
BY FS_AddElement

LinesCounted == EachLineMinedOnce /\ EachCallHasItsRequest /\ MinedAreHandled

LEMMA CountedInit == Init => LinesCounted
<1>. SUFFICES ASSUME Init PROVE LinesCounted
  OBVIOUS
<1>1. parsed = << >> /\ DOMAIN parsed = {} /\ \A r \in Requests : handled[r] = 0
  BY Messages DEF Init, Pool!Init, Miner!Init
<1>2. Pool!Handled = {}
  BY <1>1, Messages DEF Pool!Handled
<1>3. EachLineMinedOnce
  <2>1. \A line : {n \in DOMAIN parsed : parsed[n].log = line} = {}
    BY <1>1
  <2>2. \A line : {r \in Requests : Form[r].log = line /\ handled[r] > 0} = {}
    BY <1>1
  <2>. QED  BY <2>1, <2>2 DEF EachLineMinedOnce
<1>4. EachCallHasItsRequest
  BY <1>1, <1>2, FS_EmptySet DEF EachCallHasItsRequest
<1>5. MinedAreHandled
  <2>1. {n \in DOMAIN parsed : parsed[n].TemplateID # NoID} = {} /\ Pool!Handled \ Blank = {}
    BY <1>1, <1>2
  <2>. QED  BY <2>1 DEF MinedAreHandled
<1>. QED  BY <1>3, <1>4, <1>5 DEF LinesCounted

LEMMA CountedNext == Inside /\ LinesCounted /\ [Next]_vars => LinesCounted'
<1>. SUFFICES ASSUME Inside, LinesCounted, [Next]_vars PROVE LinesCounted'
  OBVIOUS
<1>. USE DEF LinesCounted
<1>1. CASE UNCHANGED <<handled, parsed>>
  BY <1>1 DEF EachLineMinedOnce, EachCallHasItsRequest, MinedAreHandled, Pool!Handled
<1>2. ASSUME NEW r, NEW q, Mines(r, q) PROVE LinesCounted'
  <2>1. /\ handled \in [Requests -> Nat] /\ r \in Requests /\ handled[r] = 0
        /\ handled' = [handled EXCEPT ![r] = 1]
        /\ parsed' = Append(parsed, q) /\ q.log = Form[r].log
        /\ q.TemplateID = NoID <=> r \in Blank
    BY <1>2, InsideTypes DEF Mines
  <2>. DEFINE n == Len(parsed) + 1
  <2>2. /\ DOMAIN parsed = 1..Len(parsed) /\ Len(parsed) \in Nat
        /\ DOMAIN parsed' = DOMAIN parsed \cup {n} /\ Len(parsed') = n /\ n \notin DOMAIN parsed
        /\ parsed'[n] = q /\ \A i \in DOMAIN parsed : parsed'[i] = parsed[i]
    <3>1. parsed \in Seq(MinerThms!ResultType)
      BY InsideTypes
    <3>. QED  BY <2>1, <3>1
  <2>3. Pool!Handled' = Pool!Handled \cup {r} /\ r \notin Pool!Handled
        /\ Pool!Handled \subseteq Requests
    BY <2>1, Messages DEF Pool!Handled
  <2>4. /\ IsFiniteSet(DOMAIN parsed) /\ IsFiniteSet(Requests) /\ IsFiniteSet(Pool!Handled)
        /\ Cardinality(DOMAIN parsed) = Len(parsed) /\ Cardinality(DOMAIN parsed') = Len(parsed')
    <3>1. DOMAIN parsed' = 1..n /\ n \in Nat
      BY <2>2
    <3>2. /\ IsFiniteSet(1..Len(parsed)) /\ Cardinality(1..Len(parsed)) = Len(parsed)
          /\ Cardinality(1..n) = n
      <4>1. \A m \in Nat : IsFiniteSet(1..m) /\ Cardinality(1..m) = m
        BY FS_Interval
      <4>. QED  BY <2>2, <3>1, <4>1
    <3>. QED  BY <2>2, <2>3, <3>1, <3>2, FormAssumption, FS_Subset
  <2>5. EachLineMinedOnce'
    <3>. SUFFICES ASSUME NEW line \in Lines
                  PROVE  Cardinality({i \in DOMAIN parsed' : parsed'[i].log = line})
                           = Cardinality({p \in Requests : Form[p].log = line /\ handled'[p] > 0})
      BY DEF EachLineMinedOnce
    <3>. DEFINE A == {i \in DOMAIN parsed : parsed[i].log = line}
                B == {p \in Requests : Form[p].log = line /\ handled[p] > 0}
                C == {i \in DOMAIN parsed' : parsed'[i].log = line}
                D == {p \in Requests : Form[p].log = line /\ handled'[p] > 0}
    <3>1. Cardinality(A) = Cardinality(B)
      BY DEF EachLineMinedOnce
    <3>2. IsFiniteSet(A) /\ IsFiniteSet(B) /\ n \notin A /\ r \notin B
      BY <2>1, <2>2, <2>4, FS_Subset
    <3>3. CASE q.log = line
      <4>1. C = A \cup {n}
        BY <2>2, <3>3
      <4>2. D = B \cup {r}
        <5>1. handled'[r] > 0 /\ Form[r].log = line
          BY <2>1, <3>3
        <5>2. \A p \in Requests : p # r => handled'[p] = handled[p]
          BY <2>1
        <5>. QED  BY <2>1, <5>1, <5>2
      <4>. HIDE DEF A, B, C, D, n
      <4>3. Cardinality(C) = Cardinality(D)
        BY <3>1, <3>2, <4>1, <4>2, GrowTogether
      <4>. QED  BY <4>3 DEF C, D
    <3>4. CASE q.log # line
      <4>1. C = A
        BY <2>2, <3>4
      <4>2. D = B
        BY <2>1, <3>4
      <4>. QED  BY <3>1, <4>1, <4>2
    <3>. QED  BY <3>3, <3>4
  <2>6. EachCallHasItsRequest'
    <3>1. Cardinality(Pool!Handled') = Cardinality(Pool!Handled) + 1
      BY <2>3, <2>4, FS_AddElement
    <3>. QED  BY <2>2, <3>1 DEF EachCallHasItsRequest
  <2>7. MinedAreHandled'
    <3>. DEFINE A == {i \in DOMAIN parsed : parsed[i].TemplateID # NoID}
                B == Pool!Handled \ Blank
                C == {i \in DOMAIN parsed' : parsed'[i].TemplateID # NoID}
    <3>1. Cardinality(A) = Cardinality(B)
      BY DEF MinedAreHandled
    <3>2. IsFiniteSet(A) /\ IsFiniteSet(B) /\ n \notin A /\ r \notin B
      BY <2>2, <2>3, <2>4, FS_Subset
    <3>3. CASE r \in Blank
      <4>1. C = A /\ Pool!Handled' \ Blank = B
        BY <2>1, <2>2, <2>3, <3>3
      <4>. QED  BY <3>1, <4>1 DEF MinedAreHandled
    <3>4. CASE r \notin Blank
      <4>1. C = A \cup {n}
        BY <2>1, <2>2, <3>4
      <4>2. Pool!Handled' \ Blank = B \cup {r}
        BY <2>3, <3>4
      <4>. HIDE DEF A, B, C, n
      <4>3. Cardinality(C) = Cardinality(Pool!Handled' \ Blank)
        BY <3>1, <3>2, <4>1, <4>2, GrowTogether
      <4>. QED  BY <4>3 DEF MinedAreHandled, C
    <3>. QED  BY <3>3, <3>4
  <2>. QED  BY <2>5, <2>6, <2>7
<1>. QED  BY <1>1, <1>2, StepMines

\* Each line is mined once, by its own request, whatever the workers interleave and
\* wherever the shutdown cuts in: a handler calls Parse once per message it takes.
THEOREM LinesMinedOnce == Spec => []EachLineMinedOnce
<1>1. LinesCounted => EachLineMinedOnce
  BY DEF LinesCounted
<1>. QED  BY <1>1, CountedInit, CountedNext, AlwaysInside, PTL DEF Spec

----------------------------------------------------------------------------
(* The two counters.                                                       *)

Mined == {n \in DOMAIN parsed : parsed[n].TemplateID # NoID}

\* GetStats counts the results that carry an id.
StatsCountMined ==
  /\ Miner!TotalLogs = Cardinality(Mined)
  /\ Miner!ClusterCount <= Miner!TotalLogs
  /\ Miner!ClusterCount \in Nat /\ Miner!TotalLogs \in Nat

LEMMA TotalCounts == Inside => StatsCountMined
<1>. SUFFICES ASSUME Inside PROVE StatsCountMined
  OBVIOUS
<1>1. Miner!ClusterCount = MinerThms!ClusterCount
  BY SameCounts DEF Miner!ClusterCount, MinerThms!ClusterCount
<1>2. Miner!TotalLogs = MinerThms!TotalLogs
  <2>1. [id \in DOMAIN clusters |-> Miner!GetCluster(id).Size]
          = [id \in DOMAIN clusters |-> MinerThms!GetCluster(id).Size]
    BY DEF Miner!GetCluster, MinerThms!GetCluster
  <2>2. \A f : Miner!SumFunction(f) = MinerThms!SumFunction(f)
    BY DEF Miner!SumFunction, MinerThms!SumFunction, Miner!SumFunctionOnSet,
       MinerThms!SumFunctionOnSet, Miner!FoldFunctionOnSet, MinerThms!FoldFunctionOnSet,
       Miner!MapThenFoldSet, MinerThms!MapThenFoldSet
  <2>. QED  BY <2>1, <2>2 DEF Miner!TotalLogs, MinerThms!TotalLogs
<1>3. /\ MinerThms!TotalLogs
           = MinerThms!Cardinality({n \in DOMAIN parsed : parsed[n].TemplateID # NoID})
      /\ MinerThms!ClusterCount <= MinerThms!TotalLogs
  BY DEF Inside, MinerThms!MinerInv, MinerThms!StatsAddUp
<1>4. MinerThms!ClusterCount \in Nat /\ MinerThms!TotalLogs \in Nat
  <2>1. MinerThms!TypeOK /\ NoID \notin DOMAIN clusters
    BY MinerAssumed DEF Inside, MinerThms!MinerInv, MinerThms!IndInv, MinerThms!TypeOK,
       MinerThms!TemplateIDs
  <2>. QED  BY <2>1, MinerThms!SizesAddUp, MinerAssumed DEF Inside, MinerThms!MinerInv
<1>. QED  BY <1>1, <1>2, <1>3, <1>4, SameCounts DEF StatsCountMined, Mined

LEMMA TotalCountsNext == Inside' => StatsCountMined'
BY TotalCounts, PTL

\* The lines with an id and without are those with tokens and without; a handled
\* message is counted as processed or in the hands of the one worker that will.
LEMMA CountsAgree == Inside /\ LinesCounted => MinerMatchesPool
<1>. SUFFICES ASSUME Inside, LinesCounted PROVE MinerMatchesPool
  OBVIOUS
<1>. DEFINE Done == Pool!Handled \ Blank
            Waiting == {w \in Workers : pc[w] = "count" /\ hand[w] \notin Blank}
            Held == {hand[w] : w \in Waiting}
            Counted == (PoolThms!Handled \ PoolThms!Pending) \ Blank
<1>1. Pool!Handled = PoolThms!Handled /\ IsFiniteSet(Done)
  <2>1. Pool!Handled = PoolThms!Handled
    BY Messages DEF Pool!Handled, PoolThms!Handled
  <2>2. Done \in SUBSET Requests
    BY Messages DEF Pool!Handled
  <2>. QED  BY <2>1, <2>2, FormAssumption, FS_Subset
<1>2. Miner!TotalLogs = Cardinality(Done)
  BY TotalCounts DEF StatsCountMined, Mined, LinesCounted, MinedAreHandled
<1>3. Processed = Cardinality(Counted) /\ PoolThms!Pending \subseteq PoolThms!Handled
  BY SameCounts DEF Inside, PoolThms!MetricsAddUp, PoolThms!OutcomesCounted
<1>4. Held \subseteq Done /\ Counted = Done \ Held
  <2>1. Held = PoolThms!Pending \ Blank
    BY DEF PoolThms!Pending, PoolThms!Uncounted
  <2>. QED  BY <1>1, <1>3, <2>1
<1>5. Cardinality(Held) = Cardinality(Waiting)
  <2>. DEFINE g == [w \in Waiting |-> hand[w]]
  <2>1. \A w, u \in Waiting : hand[w] = hand[u] => w = u
    BY DEF Inside, PoolThms!PoolInv, PoolThms!ResultsInOnePlace, PoolThms!AtWork
  <2>2. g \in Surjection(Waiting, Held) /\ g \in Injection(Waiting, Held)
    BY <2>1 DEF Surjection, Injection, IsInjective
  <2>3. IsFiniteSet(Waiting)
    <3>1. Waiting \in SUBSET Workers
      OBVIOUS
    <3>. QED  BY <3>1, PoolAssumption, FS_Subset
  <2>. HIDE DEF Waiting, Held, g
  <2>. QED  BY <2>2, <2>3, FS_Surjection
<1>. HIDE DEF Done, Waiting, Held, Counted
<1>6. Cardinality(Done) = Cardinality(Counted) + Cardinality(Held)
  <2>1. IsFiniteSet(Held) /\ IsFiniteSet(Counted)
    BY <1>1, <1>4, FS_Subset
  <2>2. Done = Counted \cup Held /\ Counted \cap Held = {}
    BY <1>4
  <2>3. Cardinality(Counted \cup Held)
          = Cardinality(Counted) + Cardinality(Held) - Cardinality(Counted \cap Held)
    BY <2>1, FS_Union
  <2>4. Cardinality(Counted \cap Held) = 0
    BY <2>2, FS_EmptySet
  <2>5. Cardinality(Counted) \in Nat /\ Cardinality(Held) \in Nat
    BY <2>1, FS_CardinalityType
  <2>. QED  BY <2>2, <2>3, <2>4, <2>5
<1>. QED  BY <1>2, <1>3, <1>5, <1>6 DEF MinerMatchesPool, Waiting

\* total_logs of the miner and the counter of the pool, which are kept under different
\* mutexes, differ by exactly the lines between the handler and the count.
THEOREM MinerAndPoolAgree == Spec => []MinerMatchesPool
BY CountedInit, CountedNext, CountsAgree, AlwaysInside, PTL DEF Spec

----------------------------------------------------------------------------
(* The scraper.                                                            *)

ScrapeType ==
  scrape \in [Scrapes -> [pc : {"new", "half", "served"},
                          processed : Nat, templates : Nat, total : Nat]]

ScrapesOK == ScrapeType /\ ScrapesLagBehind /\ ScrapeIsConsistent

\* The miner forgets nothing.
LEMMA TotalGrows ==
  Inside /\ Inside' /\ [Next]_vars => Miner!TotalLogs <= Miner!TotalLogs'
<1>. SUFFICES ASSUME Inside, Inside', [Next]_vars
              PROVE  Miner!TotalLogs <= Miner!TotalLogs'
  OBVIOUS
<1>1. /\ Miner!TotalLogs = Cardinality(Mined) /\ Miner!TotalLogs' = Cardinality(Mined')
      /\ Miner!TotalLogs \in Nat /\ Miner!TotalLogs' \in Nat
  BY TotalCounts, TotalCountsNext DEF StatsCountMined
<1>2. CASE UNCHANGED <<handled, parsed>>
  BY <1>1, <1>2 DEF Mined
<1>3. CASE \E r, q : Mines(r, q)
  <2>1. PICK q : parsed' = Append(parsed, q)
    BY <1>3 DEF Mines
  <2>2. /\ DOMAIN parsed \subseteq DOMAIN parsed' /\ DOMAIN parsed' = 1..(Len(parsed) + 1)
        /\ Len(parsed) \in Nat
        /\ \A i \in DOMAIN parsed : parsed'[i] = parsed[i]
    <3>1. parsed \in Seq(MinerThms!ResultType)
      BY InsideTypes
    <3>. QED  BY <2>1, <3>1
  <2>3. Mined \subseteq Mined' /\ Mined' \subseteq 1..(Len(parsed) + 1)
    BY <2>2 DEF Mined
  <2>4. IsFiniteSet(Mined')
    <3>1. IsFiniteSet(1..(Len(parsed) + 1))
      BY <2>2, FS_Interval
    <3>. QED  BY <2>3, <3>1, FS_Subset
  <2>. QED  BY <1>1, <2>3, <2>4, FS_Subset
<1>. QED  BY <1>2, <1>3, StepMines

\* Processed lags behind, it never runs ahead.
LEMMA ProcessedLags == Inside /\ LinesCounted => Processed <= Miner!TotalLogs /\ Processed \in Nat
<1>. SUFFICES ASSUME Inside, LinesCounted PROVE Processed <= Miner!TotalLogs /\ Processed \in Nat
  OBVIOUS
<1>. DEFINE Waiting == {w \in Workers : pc[w] = "count" /\ hand[w] \notin Blank}
<1>1. Miner!TotalLogs = Processed + Cardinality(Waiting)
  BY CountsAgree DEF MinerMatchesPool
<1>2. Cardinality(Waiting) \in Nat
  <2>1. Waiting \in SUBSET Workers
    OBVIOUS
  <2>. QED  BY <2>1, PoolAssumption, FS_Subset, FS_CardinalityType
<1>3. Processed \in Nat
  BY InsideTypes
<1>. QED  BY <1>1, <1>2, <1>3

LEMMA ScrapesInit == Init => ScrapesOK
BY DEF Init, ScrapesOK, ScrapeType, ScrapesLagBehind, ScrapeIsConsistent

\* A scrape reads the miner after the pool, and the miner does not go back in between.
LEMMA ScrapesNext ==
  Inside /\ Inside' /\ LinesCounted /\ ScrapesOK /\ [Next]_vars => ScrapesOK'
<1>. SUFFICES ASSUME Inside, Inside', LinesCounted, ScrapesOK, [Next]_vars
              PROVE  ScrapesOK'
  OBVIOUS
<1>. USE DEF ScrapesOK
<1>1. /\ Miner!TotalLogs <= Miner!TotalLogs'
      /\ Miner!TotalLogs \in Nat /\ Miner!TotalLogs' \in Nat
      /\ Miner!ClusterCount \in Nat /\ Miner!ClusterCount <= Miner!TotalLogs
      /\ Processed \in Nat /\ Processed <= Miner!TotalLogs
  BY TotalGrows, TotalCounts, TotalCountsNext, ProcessedLags DEF StatsCountMined
<1>2. CASE UNCHANGED scrape
  BY <1>1, <1>2 DEF ScrapeType, ScrapesLagBehind, ScrapeIsConsistent
<1>3. ASSUME NEW s \in Scrapes, ReadMetrics(s) PROVE ScrapesOK'
  <2>1. scrape' = [scrape EXCEPT ![s].pc = "half", ![s].processed = Processed]
    BY <1>3 DEF ReadMetrics
  <2>2. ScrapeType'
    BY <1>1, <2>1 DEF ScrapeType
  <2>3. /\ scrape'[s].pc = "half" /\ scrape'[s].processed = Processed
        /\ \A u \in Scrapes : u # s => scrape'[u] = scrape[u]
    BY <2>1 DEF ScrapeType
  <2>. QED  BY <1>1, <2>2, <2>3 DEF ScrapeType, ScrapesLagBehind, ScrapeIsConsistent
<1>4. ASSUME NEW s \in Scrapes, ReadStats(s) PROVE ScrapesOK'
  <2>1. /\ scrape[s].pc = "half"
        /\ scrape' = [scrape EXCEPT ![s].pc = "served", ![s].templates = Miner!ClusterCount,
                                    ![s].total = Miner!TotalLogs]
    BY <1>4 DEF ReadStats
  <2>2. ScrapeType'
    BY <1>1, <2>1 DEF ScrapeType
  <2>3. /\ scrape'[s].pc = "served" /\ scrape'[s].processed = scrape[s].processed
        /\ scrape'[s].templates = Miner!ClusterCount /\ scrape'[s].total = Miner!TotalLogs
        /\ \A u \in Scrapes : u # s => scrape'[u] = scrape[u]
    BY <2>1 DEF ScrapeType
  <2>. QED  BY <1>1, <2>1, <2>2, <2>3 DEF ScrapeType, ScrapesLagBehind, ScrapeIsConsistent
<1>5. (\E r \in Requests : Handler(r)) \/ (\E w \in Workers : Worker(w)) \/ Signal \/ Shutdown
        \/ Stop \/ Exit \/ UNCHANGED vars => UNCHANGED scrape
  BY DEF Handler, AnswerEarly, Stamp, Submit, Write, Worker, Signal, Shutdown, Stop, Exit,
     vars, http
<1>. QED  BY <1>2, <1>3, <1>4, <1>5 DEF Next, Scrape

\* What /metrics serves adds up although the pool is read before the miner, without a
\* common lock: the miner is ahead of the pool and forgets nothing.
THEOREM ScrapesAddUp == Spec => []ScrapeIsConsistent
<1>1. ScrapesOK => ScrapeIsConsistent
  BY DEF ScrapesOK
<1>2. Spec => []LinesCounted
  BY CountedInit, CountedNext, AlwaysInside, PTL DEF Spec
<1>. QED  BY <1>1, <1>2, ScrapesInit, ScrapesNext, AlwaysInside, PTL DEF Spec

----------------------------------------------------------------------------
(* The invariant of the service.                                           *)

LEMMA SamePoolInv == PoolThms!PoolInv /\ PoolThms!MetricsAddUp => Pool!PoolInv /\ Pool!MetricsInv
<1>. SUFFICES ASSUME PoolThms!PoolInv, PoolThms!MetricsAddUp
              PROVE  Pool!PoolInv /\ Pool!MetricsInv
  OBVIOUS
<1>. USE Messages, SameCounts
<1>1. Pool!TypeOK
  BY DEF PoolThms!PoolInv, PoolThms!TypeOK, Pool!TypeOK, PoolThms!BatchState, Pool!BatchState
<1>2. Pool!Handled = PoolThms!Handled /\ Pool!Refused = PoolThms!Refused
      /\ Pool!Pending = PoolThms!Pending /\ Pool!AtWork = PoolThms!AtWork
  BY DEF Pool!Handled, PoolThms!Handled, Pool!Refused, PoolThms!Refused, Pool!Pending,
     PoolThms!Pending, Pool!Uncounted, PoolThms!Uncounted, Pool!AtWork, PoolThms!AtWork
<1>3. /\ \A f : Pool!IsInjective(f) <=> PoolThms!IsInjective(f)
      /\ \A f : Pool!Range(f) = PoolThms!Range(f)
      /\ \A m : Pool!Holders(m) = PoolThms!Holders(m)
  BY DEF Pool!IsInjective, PoolThms!IsInjective, Pool!Range, PoolThms!Range, Pool!Holders,
     PoolThms!Holders
<1>4. Pool!MessagesInOnePlace
  BY <1>3 DEF PoolThms!PoolInv, PoolThms!MessagesInOnePlace, Pool!MessagesInOnePlace
<1>5. Pool!RestOfBatchIsNew /\ Pool!StopInOrder
  BY DEF PoolThms!PoolInv, Pool!RestOfBatchIsNew, PoolThms!StopInOrder, Pool!StopInOrder
<1>6. Pool!ResultsInOnePlace
  BY <1>2, <1>3 DEF PoolThms!PoolInv, PoolThms!ResultsInOnePlace, Pool!ResultsInOnePlace
<1>7. Pool!MetricsAddUp
  BY <1>2 DEF PoolThms!MetricsAddUp, PoolThms!OutcomesCounted, Pool!MetricsAddUp,
     Pool!OutcomesCounted
<1>8. Pool!IsFiniteSet(Pool!Handled) /\ Pool!IsFiniteSet(Pool!Refused)
  <2>1. Pool!Handled \in SUBSET Requests /\ Pool!Refused \in SUBSET Requests
    BY DEF Pool!Handled, Pool!Refused
  <2>. QED  BY <2>1, FormAssumption, FS_Subset
<1>. QED  BY <1>1, <1>4, <1>5, <1>6, <1>7, <1>8 DEF Pool!PoolInv, Pool!MetricsInv

LEMMA SameMinerInv == Inside => Miner!MinerInv
<1>. SUFFICES ASSUME Inside, MinerThms!MinerInv PROVE Miner!MinerInv
  BY DEF Inside
<1>. USE SameCounts
<1>1. /\ \A t : Miner!Preprocess(t) = MinerThms!Preprocess(t)
      /\ \A t : Miner!LeafPath(t) = MinerThms!LeafPath(t)
      /\ \A p : Miner!PathPrefixes(p) = MinerThms!PathPrefixes(p)
      /\ \A t, s : Miner!Covers(t, s) <=> MinerThms!Covers(t, s)
  BY DEF Miner!Preprocess, MinerThms!Preprocess, Miner!LeafDepth, MinerThms!LeafDepth,
     Miner!LeafPath, MinerThms!LeafPath, Miner!PathPrefixes, MinerThms!PathPrefixes,
     Miner!Covers, MinerThms!Covers, Miner!Matching, MinerThms!Matching
<1>2. Miner!TypeOK
  <2>1. Miner!TemplateIDs = MinerThms!TemplateIDs
    BY <1>1 DEF Miner!TemplateIDs, MinerThms!TemplateIDs
  <2>2. /\ Miner!ClusterType = MinerThms!ClusterType
        /\ Miner!ResultType = MinerThms!ResultType
        /\ Miner!Key = MinerThms!Key
    BY <2>1 DEF Miner!ClusterType, MinerThms!ClusterType, Miner!ResultType, MinerThms!ResultType,
       Miner!Key, MinerThms!Key, Miner!Token, MinerThms!Token, Miner!RawToken, MinerThms!RawToken
  <2>. QED  BY <2>1, <2>2 DEF MinerThms!MinerInv, MinerThms!IndInv, MinerThms!TypeOK, Miner!TypeOK
<1>3. Miner!TreeIsPrefixClosed
  BY <1>1 DEF MinerThms!MinerInv, MinerThms!IndInv, MinerThms!TreeIsPrefixClosed,
     Miner!TreeIsPrefixClosed
<1>4. Miner!ClustersFounded
  BY <1>1 DEF MinerThms!MinerInv, MinerThms!IndInv, MinerThms!ClustersFounded, Miner!ClustersFounded
<1>5. Miner!PathAgreesWithTemplate
  BY <1>1 DEF MinerThms!MinerInv, MinerThms!IndInv, MinerThms!PathAgreesWithTemplate,
     Miner!PathAgreesWithTemplate
<1>6. Miner!UniqueIDs /\ Miner!DistinctTemplates
  BY DEF MinerThms!MinerInv, MinerThms!IndInv, MinerThms!UniqueIDs, Miner!UniqueIDs,
     MinerThms!DistinctTemplates, Miner!DistinctTemplates
<1>7. Miner!LinesStayCovered /\ Miner!SizesCountLines
  BY <1>1 DEF MinerThms!MinerInv, MinerThms!LinesStayCovered, Miner!LinesStayCovered,
     MinerThms!SizesCountLines, Miner!SizesCountLines, MinerThms!GetCluster, Miner!GetCluster,
     MinerThms!LinesOf, Miner!LinesOf
<1>8. Miner!StatsAddUp
  BY TotalCounts DEF StatsCountMined, Mined, Miner!StatsAddUp
<1>. QED  BY <1>2, <1>3, <1>4, <1>5, <1>6, <1>7, <1>8 DEF Miner!MinerInv, Miner!IndInv

\* The invariant of the service, of its pool and of its miner.
THEOREM ServiceInvariance == Spec => []ServiceInv
<1>. DEFINE MainType == listening \in BOOLEAN /\ main \in {"running", "stopping", "exited"}
<1>1. Init => MainType
  BY DEF Init
<1>2. MainType /\ [Next]_vars => MainType'
  BY DEF Next, vars, http, Handler, AnswerEarly, Stamp, Submit, Write, Worker, Scrape, ReadMetrics,
     ReadStats, Signal, Shutdown, Stop, Exit
<1>3. Spec => []LinesCounted
  BY CountedInit, CountedNext, AlwaysInside, PTL DEF Spec
<1>4. Spec => []ScrapesOK
  BY <1>3, ScrapesInit, ScrapesNext, AlwaysInside, PTL DEF Spec
<1>5. Inside /\ LinesCounted /\ ScrapesOK /\ MainType => ServiceInv
  <2>. SUFFICES ASSUME Inside, LinesCounted, ScrapesOK, MainType PROVE ServiceInv
    OBVIOUS
  <2>1. Pool!PoolInv /\ Pool!MetricsInv
    BY SamePoolInv DEF Inside
  <2>2. Miner!MinerInv
    BY SameMinerInv
  <2>3. TypeOK
    BY <2>1, <2>2 DEF TypeOK, Inside, RequestsOK, RequestType, ScrapesOK, ScrapeType,
       Pool!PoolInv, Miner!MinerInv, Miner!IndInv
  <2>. QED  BY <2>1, <2>2, <2>3 DEF ServiceInv, Inside, RequestsOK, LinesCounted, ScrapesOK
<1>. QED  BY <1>1, <1>2, <1>3, <1>4, <1>5, AlwaysInside, PTL DEF Spec

----------------------------------------------------------------------------
(* After Stop.                                                             *)

\* When Stop has waited for the workers, nothing is mined and neither lines nor errors
\* are counted any more; a drop is counted for a handler that had found the queue full.
THEOREM StopIsTheEnd == Spec => NothingRunsAfterStop
<1>1. Inside /\ [Next]_vars => [(stopper \in {"close", "stopped"}) => OnlyDropsAreCounted]_vars
  <2>. SUFFICES ASSUME Inside, Next, stopper \in {"close", "stopped"}
                PROVE  OnlyDropsAreCounted
    OBVIOUS
  <2>1. tasksClosed /\ \A w \in Workers : pc[w] = "gone"
    BY DEF Inside, PoolThms!PoolInv, PoolThms!StopInOrder
  <2>2. /\ answer \in [Requests -> {"none", "dropping", "accepted", "refused", "panicked"}]
        /\ Dropped \in Nat
    BY InsideTypes DEF Inside, PoolThms!PoolInv, PoolThms!TypeOK
  <2>3. ASSUME UNCHANGED <<miner, Processed, Errors, Dropped>>, Dropping' = Dropping
        PROVE  OnlyDropsAreCounted
    <3>1. Dropping \ Dropping' = {} /\ Cardinality({}) = 0
      BY <2>3, FS_EmptySet
    <3>2. Dropped' = Dropped + Cardinality(Dropping \ Dropping')
      BY <2>2, <2>3, <3>1
    <3>. QED  BY <2>3, <3>2 DEF OnlyDropsAreCounted
  <2>4. ASSUME NEW r \in Requests, AnswerEarly(r) \/ Stamp(r) \/ Write(r)
        PROVE  OnlyDropsAreCounted
    BY <2>3, <2>4 DEF AnswerEarly, Stamp, Write, pool, Dropping
  <2>5. ASSUME NEW r \in Requests, Submit(r), Pool!Submit(r) PROVE OnlyDropsAreCounted
    <3>1. /\ UNCHANGED <<miner, Processed, Errors, Dropped>> /\ answer[r] = "none"
          /\ \E a \in {"refused", "panicked"} : answer' = [answer EXCEPT ![r] = a]
      BY <2>1, <2>5 DEF Submit, Pool!Submit, Pool!Send, Pool!SendOnClosed, Pool!SeeDone,
         Pool!DropFull, Pool!metrics
    <3>2. Dropping' = Dropping
      BY <2>2, <3>1 DEF Dropping
    <3>. QED  BY <2>3, <3>1, <3>2
  <2>6. ASSUME NEW r \in Requests, Submit(r), Pool!CountDrop(r) PROVE OnlyDropsAreCounted
    <3>1. /\ UNCHANGED <<miner, Processed, Errors>> /\ Dropped' = Dropped + 1
          /\ answer[r] = "dropping" /\ answer' = [answer EXCEPT ![r] = "refused"]
      BY <2>6 DEF Submit, Pool!CountDrop
    <3>2. Dropping' \subseteq Dropping /\ Dropping \ Dropping' = {r}
      BY <2>2, <3>1 DEF Dropping
    <3>3. Cardinality({r}) = 1
      BY FS_Singleton
    <3>4. Dropped' = Dropped + Cardinality(Dropping \ Dropping')
      BY <2>2, <3>1, <3>2, <3>3
    <3>. QED  BY <3>1, <3>2, <3>4 DEF OnlyDropsAreCounted
  <2>7. ASSUME NEW w \in Workers PROVE ~Worker(w)
    BY <2>1 DEF Worker, ProcessLog, Pool!Receive, Pool!Handle, Pool!CountOutcome, Pool!Report,
       Pool!Leave
  <2>8. ASSUME (\E s \in Scrapes : Scrape(s)) \/ Signal \/ Shutdown \/ Stop \/ Exit
        PROVE  OnlyDropsAreCounted
    BY <2>3, <2>8 DEF Scrape, ReadMetrics, ReadStats, Signal, Shutdown, Stop, Exit, pool,
       Pool!CancelParent, Pool!Stop, Pool!StopCancel, Pool!StopCloseTasks, Pool!StopCloseResults,
       Pool!metrics, Dropping
  <2>9. \A r \in Requests : Submit(r) => Pool!Submit(r) \/ Pool!CountDrop(r)
    BY DEF Submit
  <2>. QED  BY <2>4, <2>5, <2>6, <2>7, <2>8, <2>9 DEF Next, Handler
<1>. QED  BY <1>1, AlwaysInside, PTL DEF Spec, NothingRunsAfterStop
==============================================================================
