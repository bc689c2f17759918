-------------------------- MODULE WorkerPoolProofs ---------------------------
(***************************************************************************)
(* Proofs about WorkerPool, for every number of workers, capacity, set of  *)
(* messages and calls of Batch that satisfy the assumptions of that        *)
(* module.                                                                 *)
(***************************************************************************)
EXTENDS WorkerPool, TLAPS, FiniteSetTheorems, SequenceTheorems

----------------------------------------------------------------------------
(* Queues.                                                                 *)

\* Appending an element to a queue.
LEMMA AppendFacts ==
  ASSUME NEW S, NEW q \in Seq(S), NEW x \in S
  PROVE  /\ Append(q, x) \in Seq(S) /\ Len(Append(q, x)) = Len(q) + 1
         /\ Range(Append(q, x)) = Range(q) \cup {x}
         /\ IsInjective(q) /\ x \notin Range(q) => IsInjective(Append(q, x))
<1>. DEFINE p == Append(q, x)
<1>1. /\ p \in Seq(S) /\ Len(p) = Len(q) + 1 /\ Len(q) \in Nat
      /\ p[Len(q) + 1] = x
      /\ \A i \in 1..Len(q) : p[i] = q[i]
  OBVIOUS
<1>2. DOMAIN q = 1..Len(q) /\ DOMAIN p = 1..(Len(q) + 1)
  BY <1>1
<1>3. DOMAIN p = DOMAIN q \cup {Len(q) + 1}
  BY <1>1, <1>2
<1>. HIDE DEF p
<1>4. Range(p) = Range(q) \cup {x}
  BY <1>1, <1>2, <1>3 DEF Range
<1>5. IsInjective(q) /\ x \notin Range(q) => IsInjective(p)
  BY <1>1, <1>2, <1>3 DEF Range, IsInjective
<1>. QED  BY <1>1, <1>4, <1>5 DEF p

\* Taking the head off a queue without duplicates.
LEMMA TailFacts ==
  ASSUME NEW S, NEW q \in Seq(S), q # << >>
  PROVE  /\ Head(q) \in S /\ Head(q) \in Range(q)
         /\ Tail(q) \in Seq(S) /\ Len(Tail(q)) = Len(q) - 1
         /\ Range(q) = Range(Tail(q)) \cup {Head(q)}
         /\ IsInjective(q) => Head(q) \notin Range(Tail(q)) /\ IsInjective(Tail(q))
<1>. DEFINE t == Tail(q)
            n == Len(q)
<1>1. /\ n \in Nat \ {0} /\ DOMAIN q = 1..n /\ Head(q) = q[1]
      /\ t \in Seq(S) /\ Len(t) = n - 1 /\ DOMAIN t = 1..(n - 1)
      /\ \A i \in 1..(n - 1) : t[i] = q[i + 1]
      /\ Head(q) \in S
  BY HeadTailProperties, EmptySeq, LenProperties
<1>. HIDE DEF t, n
<1>2. Head(q) \in Range(q)
  BY <1>1 DEF Range
<1>3. Range(t) \subseteq Range(q)
  <2>. SUFFICES ASSUME NEW i \in 1..(n - 1) PROVE t[i] \in Range(q)
    BY <1>1 DEF Range
  <2>1. i + 1 \in 1..n
    BY <1>1
  <2>. QED  BY <2>1, <1>1 DEF Range
<1>4. Range(q) \subseteq Range(t) \cup {Head(q)}
  <2>. SUFFICES ASSUME NEW i \in 1..n, i # 1 PROVE q[i] \in Range(t)
    BY <1>1 DEF Range
  <2>1. i - 1 \in 1..(n - 1) /\ (i - 1) + 1 = i
    BY <1>1
  <2>. QED  BY <2>1, <1>1 DEF Range
<1>5. IsInjective(q) => Head(q) \notin Range(t)
  <2>. SUFFICES ASSUME IsInjective(q), NEW i \in 1..(n - 1), t[i] = q[1] PROVE FALSE
    BY <1>1 DEF Range
  <2>1. i + 1 \in 1..n /\ 1 \in 1..n /\ i + 1 # 1
    BY <1>1
  <2>. QED  BY <2>1, <1>1 DEF IsInjective
<1>6. IsInjective(q) => IsInjective(t)
  <2>. SUFFICES ASSUME IsInjective(q), NEW i \in 1..(n - 1), NEW j \in 1..(n - 1), t[i] = t[j]
                PROVE  i = j
    BY <1>1 DEF IsInjective
  <2>1. i + 1 \in 1..n /\ j + 1 \in 1..n /\ q[i + 1] = q[j + 1]
    BY <1>1
  <2>2. i + 1 = j + 1
    BY <2>1, <1>1 DEF IsInjective
  <2>. QED  BY <2>2
<1>. QED  BY <1>1, <1>2, <1>3, <1>4, <1>5, <1>6 DEF t, n

----------------------------------------------------------------------------
(* Types.                                                                  *)

\* The messages of a call of Batch are messages.
LEMMA BatchOfType ==
  ASSUME NEW b \in Batches
  PROVE  /\ BatchOf[b] \in Seq(Message) /\ BatchOf[b] # << >>
         /\ BatchOf[b] \in Seq(BatchMessages)
         /\ DOMAIN BatchOf[b] = 1..Len(BatchOf[b]) /\ Len(BatchOf[b]) \in Nat \ {0}
         /\ \A i \in DOMAIN BatchOf[b] : BatchOf[b][i] \in BatchMessages
<1>1. BatchOf[b] \in Seq(BatchMessages) /\ BatchOf[b] # << >>
  BY PoolAssumption
<1>2. BatchMessages \subseteq Message
  BY DEF Message
<1>. QED  BY <1>1, <1>2, SeqMonotonic, LenProperties, ElementOfSeq, EmptySeq

\* A caller that counts its drop has its answer, and nothing else moves.
LEMMA CountDropAnswers ==
  ASSUME TypeOK, NEW m \in Async, CountDrop(m)
  PROVE  /\ m \in Message /\ answer[m] = "dropping" /\ answer'[m] = "refused"
         /\ \A n \in Message : n # m => answer'[n] = answer[n]
         /\ answer' \in [Message -> {"none", "dropping", "accepted", "refused", "panicked"}]
         /\ Dropped' = Dropped + 1 /\ Dropped' \in Nat
         /\ UNCHANGED <<tasks, tasksClosed, results, resultsClosed, cancelled, pc, hand,
                        Processed, Errors, handled, batch, stopper>>
BY DEF CountDrop, TypeOK, Message, channels, workers

LEMMA InitType == Init => TypeOK
<1>. SUFFICES ASSUME Init PROVE TypeOK
  OBVIOUS
<1>1. BufferSize \in Nat
  BY PoolAssumption
<1>2. << >> \in Seq(Message) /\ << >> \in Seq(Message \cup {None}) /\ Len(<< >>) = 0
  BY EmptySeq
<1>3. batch \in [Batches -> [pc : BatchState, next : Nat, got : Seq(Message \cup {None})]]
  BY <1>2 DEF Init, BatchState
<1>4. /\ tasks \in Seq(Message) /\ Len(tasks) <= BufferSize
      /\ results \in Seq(Message) /\ Len(results) <= BufferSize
  BY <1>1, <1>2 DEF Init
<1>5. /\ tasksClosed \in BOOLEAN /\ resultsClosed \in BOOLEAN /\ cancelled \in BOOLEAN
      /\ pc \in [Workers -> {"select", "handle", "count", "report", "gone"}]
      /\ hand \in [Workers -> Message \cup {None}]
      /\ Processed \in Nat /\ Errors \in Nat /\ Dropped \in Nat
      /\ answer \in [Message -> {"none", "dropping", "accepted", "refused", "panicked"}]
      /\ handled \in [Message -> Nat]
      /\ stopper \in {"none", "wait", "close", "stopped"}
  BY DEF Init
<1>. QED  BY <1>3, <1>4, <1>5 DEF TypeOK

\* A call of Submit or SubmitBlocking keeps the types of what it touches.
LEMMA SubmitBlockingType ==
  ASSUME TypeOK, NEW m \in Message, SubmitBlocking(m)
  PROVE  /\ tasks' \in Seq(Message) /\ Len(tasks') <= BufferSize
         /\ answer' \in [Message -> {"none", "dropping", "accepted", "refused", "panicked"}]
         /\ UNCHANGED metrics
<1>1. CASE Send(m)
  <2>1. Append(tasks, m) \in Seq(Message) /\ Len(Append(tasks, m)) = Len(tasks) + 1
    BY AppendFacts DEF TypeOK
  <2>2. Len(tasks) \in Nat /\ BufferSize \in Nat
    BY PoolAssumption DEF TypeOK
  <2>. QED  BY <1>1, <2>1, <2>2 DEF Send, TypeOK
<1>2. CASE SendOnClosed(m) \/ SeeDone(m)
  BY <1>2 DEF SendOnClosed, SeeDone, TypeOK
<1>. QED  BY <1>1, <1>2 DEF SubmitBlocking

\* A worker that is not looking for a message has one.
LEMMA HandHasMessage ==
  ASSUME PoolInv, NEW w \in Workers, pc[w] \in {"handle", "count", "report"}
  PROVE  hand[w] \in Message
<1>1. hand \in [Workers -> Message \cup {None}]
  BY DEF PoolInv, TypeOK
<1>2. hand[w] # None
  BY DEF PoolInv, MessagesInOnePlace
<1>. QED  BY <1>1, <1>2

LEMMA NextType == PoolInv /\ [Next]_vars => TypeOK'
<1>. SUFFICES ASSUME PoolInv, [Next]_vars PROVE TypeOK'
  OBVIOUS
<1>0. /\ BufferSize \in Nat /\ Len(tasks) \in Nat /\ Len(results) \in Nat
      /\ TypeOK
  BY PoolAssumption DEF TypeOK, PoolInv
<1>1. ASSUME NEW m \in Async, Submit(m) PROVE TypeOK'
  <2>1. m \in Message
    BY DEF Message
  <2>2. CASE SubmitBlocking(m)
    BY <1>0, <1>1, <2>1, <2>2, SubmitBlockingType DEF Submit, TypeOK, metrics, workers, BatchState
  <2>3. CASE DropFull(m)
    BY <1>0, <1>1, <2>1, <2>3 DEF Submit, DropFull, TypeOK, metrics, workers, BatchState
  <2>. QED  BY <1>1, <2>2, <2>3 DEF Submit, SubmitBlocking
<1>2. ASSUME NEW w \in Workers, Worker(w) PROVE TypeOK'
  <2>1. CASE Receive(w)
    <3>1. Head(tasks) \in Message /\ Tail(tasks) \in Seq(Message) /\ Len(Tail(tasks)) = Len(tasks) - 1
      BY <1>0, <2>1, TailFacts DEF Receive, TypeOK
    <3>. QED  BY <2>1, <3>1, <1>0 DEF Receive, TypeOK, metrics, BatchState
  <2>2. CASE Handle(w)
    <3>1. hand[w] \in Message
      BY <2>2, HandHasMessage DEF Handle
    <3>. QED  BY <1>0, <2>2, <3>1 DEF Handle, TypeOK, metrics, channels, BatchState
  <2>3. CASE CountOutcome(w)
    BY <1>0, <2>3 DEF CountOutcome, TypeOK, metrics, channels, BatchState
  <2>4. CASE Report(w)
    <3>1. CASE Len(results) < BufferSize /\ results' = Append(results, hand[w])
      <4>1. hand[w] \in Message
        BY <2>4, HandHasMessage DEF Report
      <4>2. Append(results, hand[w]) \in Seq(Message) /\ Len(Append(results, hand[w])) = Len(results) + 1
        BY <1>0, <4>1, AppendFacts DEF TypeOK
      <4>. QED  BY <2>4, <3>1, <4>2, <1>0 DEF Report, TypeOK, metrics, BatchState
    <3>2. CASE UNCHANGED results
      BY <1>0, <2>4, <3>2 DEF Report, TypeOK, metrics, BatchState
    <3>. QED  BY <2>4, <3>1, <3>2 DEF Report
  <2>5. CASE Leave(w)
    BY <1>0, <2>5 DEF Leave, TypeOK, metrics, channels, BatchState
  <2>. QED  BY <1>2, <2>1, <2>2, <2>3, <2>4, <2>5 DEF Worker
<1>3. ASSUME NEW b \in Batches, Batch(b) PROVE TypeOK'
  <2>1. CASE BatchSubmit(b)
    <3>. DEFINE m == BatchOf[b][batch[b].next]
    <3>1. m \in Message
      BY <2>1, BatchOfType DEF BatchSubmit, PoolInv, RestOfBatchIsNew, Message
    <3>2. SubmitBlocking(m)
      BY <2>1 DEF BatchSubmit
    <3>3. batch[b].next + 1 \in Nat
      BY <1>0 DEF TypeOK
    <3>4. batch' \in [Batches -> [pc : BatchState, next : Nat, got : Seq(Message \cup {None})]]
      <4>1. PICK p \in BatchState : batch' = [batch EXCEPT ![b].next = @ + 1, ![b].pc = p]
        BY <2>1 DEF BatchSubmit, BatchState
      <4>. QED  BY <1>0, <4>1, <3>3 DEF TypeOK
    <3>5. /\ tasks' \in Seq(Message) /\ Len(tasks') <= BufferSize
          /\ answer' \in [Message -> {"none", "dropping", "accepted", "refused", "panicked"}]
          /\ UNCHANGED metrics
      BY <1>0, <3>1, <3>2, SubmitBlockingType
    <3>. QED  BY <1>0, <2>1, <3>4, <3>5 DEF BatchSubmit, TypeOK, metrics, workers
  <2>2. CASE BatchCollect(b)
    <3>1. PICK r \in Message \cup {None} :
            batch' = [batch EXCEPT
              ![b].got = Append(batch[b].got, r),
              ![b].pc = IF Len(Append(batch[b].got, r)) = Len(BatchOf[b]) THEN "complete" ELSE "collect"]
      <4>1. results # << >> => Head(results) \in Message
        BY <1>0, TailFacts DEF TypeOK
      <4>. QED  BY <2>2, <4>1 DEF BatchCollect
    <3>2. Append(batch[b].got, r) \in Seq(Message \cup {None})
      BY <1>0, AppendFacts DEF TypeOK
    <3>3. batch' \in [Batches -> [pc : BatchState, next : Nat, got : Seq(Message \cup {None})]]
      BY <1>0, <3>1, <3>2 DEF TypeOK, BatchState
    <3>4. results' \in Seq(Message) /\ Len(results') <= BufferSize
      <4>1. CASE results # << >> /\ results' = Tail(results)
        BY <1>0, <4>1, TailFacts DEF TypeOK
      <4>2. CASE UNCHANGED results
        BY <1>0, <4>2 DEF TypeOK
      <4>. QED  BY <2>2, <4>1, <4>2 DEF BatchCollect
    <3>. QED  BY <1>0, <2>2, <3>3, <3>4 DEF BatchCollect, TypeOK, metrics, workers
  <2>3. CASE BatchGiveUp(b)
    BY <1>0, <2>3 DEF BatchGiveUp, TypeOK, metrics, workers, channels, BatchState
  <2>. QED  BY <1>3, <2>1, <2>2, <2>3 DEF Batch
<1>4. CASE CancelParent
  BY <1>0, <1>4 DEF CancelParent, TypeOK, metrics, workers, channels, BatchState
<1>5. CASE Stop
  BY <1>0, <1>5 DEF Stop, StopCancel, StopCloseTasks, StopCloseResults, TypeOK, metrics, workers, channels, BatchState
<1>6. CASE UNCHANGED vars
  BY <1>0, <1>6 DEF vars, TypeOK, metrics, workers, channels, BatchState
<1>7. ASSUME NEW m \in Async, CountDrop(m) PROVE TypeOK'
  BY <1>0, <1>7, CountDropAnswers DEF TypeOK
<1>. QED  BY <1>1, <1>2, <1>3, <1>4, <1>5, <1>6, <1>7 DEF Next

----------------------------------------------------------------------------
(* Shutdown and batches.                                                   *)

LEMMA NextStopInOrder == PoolInv /\ [Next]_vars => StopInOrder'
<1>. SUFFICES ASSUME PoolInv, [Next]_vars PROVE StopInOrder'
  OBVIOUS
<1>0. StopInOrder /\ pc \in [Workers -> {"select", "handle", "count", "report", "gone"}]
  BY DEF PoolInv, TypeOK
<1>1. ASSUME NEW m \in Async, Submit(m) PROVE StopInOrder'
  BY <1>0, <1>1 DEF Submit, workers, StopInOrder
<1>2. ASSUME NEW w \in Workers, Worker(w) PROVE StopInOrder'
  <2>1. UNCHANGED <<stopper, cancelled, tasksClosed, resultsClosed>>
    BY <1>2 DEF Worker, Receive, Handle, CountOutcome, Report, Leave, channels
  <2>2. tasksClosed => \A u \in Workers : pc'[u] = "gone"
    BY <1>0, <1>2 DEF Worker, Receive, Handle, CountOutcome, Report, Leave, StopInOrder
  <2>. QED  BY <1>0, <2>1, <2>2 DEF StopInOrder
<1>3. ASSUME NEW b \in Batches, Batch(b) PROVE StopInOrder'
  BY <1>0, <1>3 DEF Batch, BatchSubmit, BatchCollect, BatchGiveUp, channels, workers, StopInOrder
<1>4. CASE CancelParent
  BY <1>0, <1>4 DEF CancelParent, channels, workers, StopInOrder
<1>5. CASE Stop
  BY <1>0, <1>5 DEF Stop, StopCancel, StopCloseTasks, StopCloseResults, channels, workers, StopInOrder
<1>6. CASE UNCHANGED vars
  BY <1>0, <1>6 DEF vars, channels, workers, StopInOrder
<1>7. ASSUME NEW m \in Async, CountDrop(m) PROVE StopInOrder'
  BY <1>0, <1>7 DEF CountDrop, channels, workers, StopInOrder
<1>. QED  BY <1>1, <1>2, <1>3, <1>4, <1>5, <1>6, <1>7 DEF Next

\* The sender of a message has no answer for it yet.
LEMMA BatchSubmitsNew ==
  ASSUME PoolInv, NEW b \in Batches, BatchSubmit(b)
  PROVE  /\ BatchOf[b][batch[b].next] \in BatchMessages
         /\ answer[BatchOf[b][batch[b].next]] = "none"
         /\ batch[b].next \in DOMAIN BatchOf[b]
<1>1. batch[b].next \in DOMAIN BatchOf[b]
  BY DEF BatchSubmit, PoolInv, RestOfBatchIsNew
<1>2. batch[b].next \in Nat /\ batch[b].next >= batch[b].next
  BY DEF PoolInv, TypeOK
<1>. QED  BY <1>1, <1>2, BatchOfType DEF PoolInv, RestOfBatchIsNew

\* A send changes the answer of its message only.
LEMMA SendAnswers ==
  ASSUME NEW m \in Message, SubmitBlocking(m) \/ DropFull(m),
         answer \in [Message -> {"none", "dropping", "accepted", "refused", "panicked"}]
  PROVE  \A n \in Message : n # m => answer'[n] = answer[n]
BY DEF SubmitBlocking, Send, SendOnClosed, SeeDone, DropFull

LEMMA NextRestOfBatch == PoolInv /\ [Next]_vars => RestOfBatchIsNew'
<1>. SUFFICES ASSUME PoolInv, [Next]_vars PROVE RestOfBatchIsNew'
  OBVIOUS
<1>0. RestOfBatchIsNew /\ TypeOK
  BY DEF PoolInv
<1>1. ASSUME NEW m \in Async, Submit(m) PROVE RestOfBatchIsNew'
  <2>1. \A b \in Batches : \A i \in DOMAIN BatchOf[b] : BatchOf[b][i] # m /\ BatchOf[b][i] \in Message
    BY BatchOfType, PoolAssumption DEF Message
  <2>2. \A n \in Message : n # m => answer'[n] = answer[n]
    <3>1. SubmitBlocking(m) \/ DropFull(m)
      BY <1>1 DEF Submit, SubmitBlocking
    <3>2. m \in Message
      BY DEF Message
    <3>. QED  BY <1>0, <3>1, <3>2, SendAnswers DEF TypeOK
  <2>. QED  BY <1>0, <1>1, <2>1, <2>2 DEF Submit, RestOfBatchIsNew
<1>2. ASSUME NEW w \in Workers, Worker(w) PROVE RestOfBatchIsNew'
  BY <1>0, <1>2 DEF Worker, Receive, Handle, CountOutcome, Report, Leave, RestOfBatchIsNew
<1>3. ASSUME NEW b \in Batches, Batch(b) PROVE RestOfBatchIsNew'
  <2>1. CASE BatchSubmit(b)
    <3>. DEFINE k == batch[b].next
                m == BatchOf[b][k]
    <3>1. m \in BatchMessages /\ m \in Message /\ k \in DOMAIN BatchOf[b] /\ k \in Nat
      BY <1>0, <2>1, BatchSubmitsNew DEF Message, TypeOK
    <3>2. PICK p \in BatchState : /\ batch' = [batch EXCEPT ![b].next = @ + 1, ![b].pc = p]
                                  /\ p = "submit" => k # Len(BatchOf[b])
      BY <2>1 DEF BatchSubmit, BatchState
    <3>3. \A n \in Message : n # m => answer'[n] = answer[n]
      BY <1>0, <2>1, <3>1, SendAnswers DEF BatchSubmit, TypeOK
    <3>4. batch'[b].next = k + 1 /\ batch'[b].pc = p
      BY <1>0, <3>2 DEF TypeOK
    <3>5. \A d \in Batches : d # b => batch'[d] = batch[d]
      BY <1>0, <3>2 DEF TypeOK
    <3>6. p = "submit" => k + 1 \in DOMAIN BatchOf[b]
      BY <3>1, <3>2, BatchOfType
    <3>7. ASSUME NEW i \in DOMAIN BatchOf[b], i >= k + 1
          PROVE  answer'[BatchOf[b][i]] = "none"
      <4>1. BatchOf[b][i] # m
        BY <3>1, <3>7, BatchOfType, PoolAssumption DEF IsInjective
      <4>2. i >= k
        BY <3>1, <3>7, BatchOfType
      <4>. QED  BY <1>0, <4>1, <4>2, <3>3, BatchOfType DEF RestOfBatchIsNew, Message
    <3>8. ASSUME NEW d \in Batches, d # b, NEW i \in DOMAIN BatchOf[d], i >= batch[d].next
          PROVE  answer'[BatchOf[d][i]] = "none"
      <4>1. BatchOf[d][i] # m
        <5>1. BatchOf[d][i] \in Range(BatchOf[d]) /\ m \in Range(BatchOf[b])
          BY <3>1 DEF Range
        <5>2. Range(BatchOf[b]) \cap Range(BatchOf[d]) = {}
          BY <3>8, PoolAssumption
        <5>. QED  BY <5>1, <5>2
      <4>. QED  BY <1>0, <4>1, <3>3, <3>8, BatchOfType DEF RestOfBatchIsNew, Message
    <3>. QED  BY <1>0, <3>1, <3>4, <3>5, <3>6, <3>7, <3>8 DEF RestOfBatchIsNew
  <2>2. CASE BatchCollect(b) \/ BatchGiveUp(b)
    <3>1. UNCHANGED answer
      BY <2>2 DEF BatchCollect, BatchGiveUp
    <3>2. \A d \in Batches : batch'[d].next = batch[d].next /\ (batch'[d].pc = "submit" => batch[d].pc = "submit")
      <4>1. CASE BatchCollect(b)
        <5>. DEFINE g == Append(batch[b].got, IF results = << >> THEN None ELSE Head(results))
                    p == IF Len(g) = Len(BatchOf[b]) THEN "complete" ELSE "collect"
        <5>1. batch' = [batch EXCEPT ![b].got = g, ![b].pc = p] /\ p # "submit"
          BY <4>1 DEF BatchCollect
        <5>. HIDE DEF g, p
        <5>. QED  BY <1>0, <5>1 DEF TypeOK
      <4>2. CASE BatchGiveUp(b)
        BY <1>0, <4>2 DEF BatchGiveUp, TypeOK
      <4>. QED  BY <2>2, <4>1, <4>2
    <3>. QED  BY <1>0, <3>1, <3>2 DEF RestOfBatchIsNew
  <2>. QED  BY <1>3, <2>1, <2>2 DEF Batch
<1>4. CASE CancelParent \/ Stop \/ UNCHANGED vars
  BY <1>0, <1>4 DEF CancelParent, Stop, StopCancel, StopCloseTasks, StopCloseResults, vars, RestOfBatchIsNew
<1>5. ASSUME NEW m \in Async, CountDrop(m) PROVE RestOfBatchIsNew'
  <2>1. /\ answer[m] = "dropping" /\ UNCHANGED batch
        /\ \A n \in Message : n # m => answer'[n] = answer[n]
    BY <1>0, <1>5, CountDropAnswers
  <2>2. \A b \in Batches : \A i \in DOMAIN BatchOf[b] : BatchOf[b][i] \in Message
    BY BatchOfType DEF Message
  <2>. QED  BY <1>0, <2>1, <2>2 DEF RestOfBatchIsNew
<1>. QED  BY <1>1, <1>2, <1>3, <1>4, <1>5 DEF Next

----------------------------------------------------------------------------
(* Every message is in one place.                                          *)

\* A message that is sent goes to the end of the queue or nowhere.
LEMMA SendInOnePlace ==
  ASSUME PoolInv, NEW m \in Message, answer[m] = "none",
         SubmitBlocking(m) \/ DropFull(m), UNCHANGED <<workers, handled>>
  PROVE  MessagesInOnePlace'
<1>0. MessagesInOnePlace /\ TypeOK
  BY DEF PoolInv
<1>1. \A n \in Message : n # m => answer'[n] = answer[n]
  BY <1>0, SendAnswers DEF TypeOK
<1>2. \A w \in Workers : pc'[w] = pc[w] /\ hand'[w] = hand[w]
  BY DEF workers
<1>3. /\ m \notin Range(tasks) /\ handled[m] = 0 /\ Holders(m) = {}
      /\ \A w \in Workers : pc[w] = "handle" => hand[w] \in Message /\ hand[w] # m
  <2>1. \A w \in Workers : pc[w] = "handle" => hand[w] \in Message /\ hand[w] # m
    BY <1>0, HandHasMessage DEF MessagesInOnePlace
  <2>2. handled[m] \in Nat
    BY <1>0 DEF TypeOK
  <2>. QED  BY <1>0, <2>1, <2>2 DEF MessagesInOnePlace, Holders
<1>4. Range(tasks) \subseteq Message
  BY <1>0, ElementOfSeq, LenProperties DEF TypeOK, Range
<1>5. \A n \in Message : Holders(n)' = Holders(n)
  BY <1>2 DEF Holders
<1>6. CASE Send(m)
  <2>1. /\ Range(tasks') = Range(tasks) \cup {m} /\ IsInjective(tasks')
        /\ answer'[m] = "accepted"
    BY <1>0, <1>3, <1>6, AppendFacts DEF Send, MessagesInOnePlace, TypeOK
  <2>. QED  BY <1>0, <1>1, <1>2, <1>3, <1>4, <1>5, <2>1 DEF MessagesInOnePlace
<1>7. CASE SendOnClosed(m) \/ SeeDone(m) \/ DropFull(m)
  <2>1. UNCHANGED tasks /\ answer'[m] # "accepted"
    BY <1>0, <1>7 DEF SendOnClosed, SeeDone, DropFull, TypeOK
  <2>. QED  BY <1>0, <1>1, <1>2, <1>3, <1>4, <1>5, <2>1 DEF MessagesInOnePlace
<1>. QED  BY <1>6, <1>7 DEF SubmitBlocking

\* A message that is received moves from the queue to one hand.
LEMMA ReceiveInOnePlace ==
  ASSUME PoolInv, NEW w \in Workers, Receive(w)
  PROVE  MessagesInOnePlace'
<1>. DEFINE h == Head(tasks)
<1>0. MessagesInOnePlace /\ TypeOK
  BY DEF PoolInv
<1>1. /\ h \in Message /\ h \in Range(tasks) /\ h \notin Range(tasks')
      /\ Range(tasks) = Range(tasks') \cup {h} /\ IsInjective(tasks')
  BY <1>0, TailFacts DEF Receive, TypeOK, MessagesInOnePlace
<1>2. /\ pc'[w] = "handle" /\ hand'[w] = h /\ h # None
      /\ \A u \in Workers : u # w => pc'[u] = pc[u] /\ hand'[u] = hand[u]
      /\ UNCHANGED <<answer, handled>>
  BY <1>0, <1>1, PoolAssumption DEF Receive, TypeOK
<1>. HIDE DEF h
<1>3. \A u \in Workers : pc[u] = "handle" => hand[u] # h
  BY <1>0, <1>1 DEF MessagesInOnePlace
<1>4. \A n \in Message : Holders(n)' = IF n = h THEN Holders(n) \cup {w} ELSE Holders(n)
  BY <1>0, <1>2 DEF Holders, Receive
<1>5. answer[h] = "accepted" /\ handled[h] = 0
  BY <1>0, <1>1 DEF MessagesInOnePlace
<1>6. \A u \in Workers : hand'[u] = None <=> pc'[u] \in {"select", "gone"}
  BY <1>0, <1>2 DEF MessagesInOnePlace
<1>7. \A u, v \in Workers :
        pc'[u] = "handle" /\ pc'[v] = "handle" /\ hand'[u] = hand'[v] => u = v
  BY <1>0, <1>2, <1>3 DEF MessagesInOnePlace
<1>8. \A u \in Workers : pc'[u] = "handle" =>
        answer[hand'[u]] = "accepted" /\ handled[hand'[u]] = 0 /\ hand'[u] \notin Range(tasks')
  BY <1>0, <1>1, <1>2, <1>5 DEF MessagesInOnePlace
<1>9. \A n \in Message : answer[n] = "accepted" =>
        n \in Range(tasks') \/ handled[n] = 1 \/ Holders(n)' # {}
  BY <1>0, <1>1, <1>4 DEF MessagesInOnePlace
<1>. QED  BY <1>0, <1>1, <1>2, <1>6, <1>7, <1>8, <1>9 DEF MessagesInOnePlace

\* A message that is handled leaves the places and is counted once.
LEMMA HandleInOnePlace ==
  ASSUME PoolInv, NEW w \in Workers, Handle(w)
  PROVE  MessagesInOnePlace'
<1>. DEFINE h == hand[w]
<1>0. MessagesInOnePlace /\ TypeOK
  BY DEF PoolInv
<1>1. /\ h \in Message /\ answer[h] = "accepted" /\ handled[h] = 0 /\ h \notin Range(tasks)
      /\ \A u \in Workers : pc[u] = "handle" /\ u # w => hand[u] # h
  BY <1>0, HandHasMessage DEF Handle, MessagesInOnePlace
<1>2. /\ pc[w] = "handle" /\ pc'[w] = "count"
      /\ \A u \in Workers : u # w => pc'[u] = pc[u]
      /\ UNCHANGED <<hand, answer, tasks>>
      /\ handled'[h] = 1 /\ \A n \in Message : n # h => handled'[n] = handled[n]
  BY <1>0, <1>1 DEF Handle, TypeOK, channels
<1>. HIDE DEF h
<1>3. \A n \in Message : n # h => Holders(n)' = Holders(n)
  BY <1>2 DEF Holders, h
<1>4. Range(tasks) \subseteq Message
  BY <1>0, ElementOfSeq, LenProperties DEF TypeOK, Range
<1>5. \A u \in Workers : pc'[u] = "handle" => u # w /\ pc[u] = "handle" /\ hand[u] \in Message
  BY <1>2, HandHasMessage
<1>6. \A u \in Workers : hand'[u] = None <=> pc'[u] \in {"select", "gone"}
  BY <1>0, <1>2 DEF MessagesInOnePlace
<1>7. \A u, v \in Workers :
        pc'[u] = "handle" /\ pc'[v] = "handle" /\ hand'[u] = hand'[v] => u = v
  BY <1>0, <1>2, <1>5 DEF MessagesInOnePlace
<1>8. \A u \in Workers : pc'[u] = "handle" =>
        answer'[hand'[u]] = "accepted" /\ handled'[hand'[u]] = 0 /\ hand'[u] \notin Range(tasks')
  BY <1>0, <1>1, <1>2, <1>5 DEF MessagesInOnePlace
<1>9. \A n \in Range(tasks') : answer'[n] = "accepted" /\ handled'[n] = 0
  BY <1>0, <1>1, <1>2, <1>4 DEF MessagesInOnePlace
<1>10. \A n \in Message : handled'[n] > 0 => handled'[n] = 1 /\ answer'[n] = "accepted"
  BY <1>0, <1>1, <1>2 DEF MessagesInOnePlace
<1>11. \A n \in Message : answer'[n] = "accepted" =>
         n \in Range(tasks') \/ handled'[n] = 1 \/ Holders(n)' # {}
  BY <1>0, <1>2, <1>3 DEF MessagesInOnePlace
<1>. QED  BY <1>0, <1>2, <1>6, <1>7, <1>8, <1>9, <1>10, <1>11 DEF MessagesInOnePlace

\* The other steps of a worker move no message it handles.
LEMMA OtherStepsInOnePlace ==
  ASSUME PoolInv, NEW w \in Workers, CountOutcome(w) \/ Report(w) \/ Leave(w)
  PROVE  MessagesInOnePlace'
<1>0. MessagesInOnePlace /\ TypeOK
  BY DEF PoolInv
<1>1. /\ UNCHANGED <<tasks, answer, handled>>
      /\ \A u \in Workers : u # w => pc'[u] = pc[u] /\ hand'[u] = hand[u]
      /\ pc[w] # "handle" /\ pc'[w] # "handle"
      /\ hand'[w] = None <=> pc'[w] \in {"select", "gone"}
  <2>1. CASE CountOutcome(w)
    BY <1>0, <2>1 DEF CountOutcome, channels, TypeOK, MessagesInOnePlace
  <2>2. CASE Report(w)
    BY <1>0, <2>2 DEF Report, TypeOK
  <2>3. CASE Leave(w)
    BY <1>0, <2>3 DEF Leave, channels, TypeOK, MessagesInOnePlace
  <2>. QED  BY <2>1, <2>2, <2>3
<1>2. \A n \in Message : Holders(n)' = Holders(n)
  BY <1>1 DEF Holders
<1>. QED  BY <1>0, <1>1, <1>2 DEF MessagesInOnePlace

LEMMA NextInOnePlace == PoolInv /\ [Next]_vars => MessagesInOnePlace'
<1>. SUFFICES ASSUME PoolInv, [Next]_vars PROVE MessagesInOnePlace'
  OBVIOUS
<1>1. ASSUME NEW m \in Async, Submit(m) PROVE MessagesInOnePlace'
  <2>1. /\ SubmitBlocking(m) \/ DropFull(m)
        /\ answer[m] = "none" /\ UNCHANGED <<workers, handled>> /\ m \in Message
    BY <1>1 DEF Submit, SubmitBlocking, Message
  <2>. QED  BY <2>1, SendInOnePlace
<1>2. ASSUME NEW w \in Workers, Worker(w) PROVE MessagesInOnePlace'
  BY <1>2, ReceiveInOnePlace, HandleInOnePlace, OtherStepsInOnePlace DEF Worker
<1>3. ASSUME NEW b \in Batches, BatchSubmit(b) PROVE MessagesInOnePlace'
  <2>. DEFINE m == BatchOf[b][batch[b].next]
  <2>1. m \in Message /\ answer[m] = "none"
    BY <1>3, BatchSubmitsNew DEF Message
  <2>2. SubmitBlocking(m) /\ UNCHANGED <<workers, handled>>
    BY <1>3 DEF BatchSubmit
  <2>. QED  BY <2>1, <2>2, SendInOnePlace
<1>4. ASSUME UNCHANGED <<tasks, workers, answer, handled>> PROVE MessagesInOnePlace'
  BY <1>4 DEF PoolInv, MessagesInOnePlace, Holders, workers
<1>5. ASSUME NEW b \in Batches, BatchCollect(b) \/ BatchGiveUp(b) PROVE MessagesInOnePlace'
  BY <1>4, <1>5 DEF BatchCollect, BatchGiveUp, channels
<1>6. CASE CancelParent \/ Stop \/ UNCHANGED vars
  BY <1>4, <1>6 DEF CancelParent, Stop, StopCancel, StopCloseTasks, StopCloseResults, vars, channels
<1>7. ASSUME NEW m \in Async, CountDrop(m) PROVE MessagesInOnePlace'
  <2>0. TypeOK /\ MessagesInOnePlace
    BY DEF PoolInv
  <2>1. /\ \A n \in Message : answer[n] = "accepted" <=> answer'[n] = "accepted"
        /\ UNCHANGED <<tasks, pc, hand, handled>>
    BY <2>0, <1>7, CountDropAnswers
  <2>2. \A n \in Message : Holders(n)' = Holders(n)
    BY <2>1 DEF Holders
  <2>3. Range(tasks) \subseteq Message
    BY <2>0, ElementOfSeq, LenProperties DEF TypeOK, Range
  <2>4. \A w \in Workers : pc[w] = "handle" => hand[w] \in Message
    BY HandHasMessage
  <2>. QED  BY <2>0, <2>1, <2>2, <2>3, <2>4 DEF MessagesInOnePlace
<1>. QED  BY <1>1, <1>2, <1>3, <1>5, <1>6, <1>7 DEF Next, Batch

----------------------------------------------------------------------------
(* The results.                                                            *)

\* A result appended to those of a call is there once if it was not there.
LEMMA AppendOnce ==
  ASSUME NEW q \in Seq(Message \cup {None}), OncePerMessage(q),
         NEW x \in Message \cup {None}, x # None => x \notin Range(q)
  PROVE  OncePerMessage(Append(q, x))
<1>. DEFINE p == Append(q, x)
            n == Len(q)
<1>1. /\ n \in Nat /\ DOMAIN q = 1..n /\ DOMAIN p = 1..(n + 1)
      /\ p[n + 1] = x /\ \A i \in 1..n : p[i] = q[i]
  OBVIOUS
<1>. HIDE DEF p, n
<1>2. DOMAIN p = DOMAIN q \cup {n + 1}
  BY <1>1
<1>. QED  BY <1>1, <1>2 DEF OncePerMessage, Range, p

\* A step that moves no result keeps every result in its place.
LEMMA ResultsStay ==
  ASSUME PoolInv, UNCHANGED <<handled, results>>, resultsClosed => resultsClosed',
         AtWork' = AtWork, \A w \in AtWork : hand'[w] = hand[w],
         \A b \in Batches : /\ batch'[b].got = batch[b].got
                            /\ batch'[b].pc = "complete" => batch[b].pc = "complete"
  PROVE  ResultsInOnePlace'
<1>1. ResultsInOnePlace /\ Handled' = Handled
  BY DEF PoolInv, Handled
<1>. QED  BY <1>1 DEF ResultsInOnePlace

\* The handler returns: the message was in no other place before.
LEMMA HandleResults ==
  ASSUME PoolInv, NEW w \in Workers, Handle(w)
  PROVE  ResultsInOnePlace'
<1>0. ResultsInOnePlace /\ MessagesInOnePlace /\ TypeOK
  BY DEF PoolInv
<1>1. PICK h \in Message : h = hand[w]
  BY HandHasMessage DEF Handle
<1>2. h \notin Handled /\ h # None
  BY <1>0, <1>1, PoolAssumption DEF Handle, MessagesInOnePlace, Handled
<1>3. /\ UNCHANGED <<results, resultsClosed, hand, batch>>
      /\ Handled' = Handled \cup {h}
      /\ AtWork' = AtWork \cup {w}
  BY <1>0, <1>1 DEF Handle, channels, Handled, AtWork, TypeOK
<1>4. h \notin Range(results) /\ \A b \in Batches : h \notin Range(batch[b].got)
  BY <1>0, <1>2 DEF ResultsInOnePlace
<1>5. \A u \in AtWork : hand[u] # h
  BY <1>0, <1>2 DEF ResultsInOnePlace
<1>. QED  BY <1>0, <1>1, <1>3, <1>4, <1>5 DEF ResultsInOnePlace

\* The worker sends the result of its message, or loses it.
LEMMA ReportResults ==
  ASSUME PoolInv, NEW w \in Workers, Report(w)
  PROVE  ResultsInOnePlace'
<1>0. ResultsInOnePlace /\ TypeOK
  BY DEF PoolInv
<1>1. PICK h \in Message : h = hand[w]
  BY HandHasMessage DEF Report
<1>2. w \in AtWork
  BY DEF Report, AtWork
<1>3. /\ UNCHANGED <<handled, resultsClosed, batch>>
      /\ AtWork' = AtWork \ {w} /\ \A u \in AtWork' : hand'[u] = hand[u]
  BY <1>0 DEF Report, AtWork, TypeOK
<1>4. Handled' = Handled
  BY <1>3 DEF Handled
<1>5. h \in Handled \ Range(results) /\ \A b \in Batches : h \notin Range(batch[b].got)
  BY <1>0, <1>1, <1>2 DEF ResultsInOnePlace
<1>6. \A u \in AtWork' : hand[u] # h
  BY <1>0, <1>1, <1>2, <1>3 DEF ResultsInOnePlace
<1>7. IsInjective(results') /\ Range(results') \subseteq Range(results) \cup {h}
  <2>1. CASE results' = Append(results, hand[w])
    BY <1>0, <1>1, <1>5, <2>1, AppendFacts DEF TypeOK, ResultsInOnePlace
  <2>2. CASE UNCHANGED results
    BY <1>0, <2>2 DEF ResultsInOnePlace
  <2>. QED  BY <2>1, <2>2 DEF Report
<1>. QED  BY <1>0, <1>3, <1>4, <1>5, <1>6, <1>7 DEF ResultsInOnePlace

\* A call of Batch reads the oldest result, or nothing off the closed channel.
LEMMA CollectResults ==
  ASSUME PoolInv, NEW b \in Batches, BatchCollect(b)
  PROVE  ResultsInOnePlace'
<1>. DEFINE r == IF results = << >> THEN None ELSE Head(results)
            got == Append(batch[b].got, r)
<1>0. ResultsInOnePlace /\ TypeOK /\ batch[b].got \in Seq(Message \cup {None})
  BY DEF PoolInv, TypeOK
<1>1. /\ r \in Handled \cup {None} /\ r \in Message \cup {None}
      /\ r = None => resultsClosed
      /\ r # None => r \in Range(results) /\ r \notin Range(results')
      /\ IsInjective(results') /\ Range(results') \subseteq Range(results)
  <2>1. CASE results # << >> /\ results' = Tail(results)
    <3>1. Head(results) # None
      BY <1>0, <2>1, TailFacts, PoolAssumption DEF TypeOK
    <3>. QED  BY <1>0, <2>1, <3>1, TailFacts DEF TypeOK, ResultsInOnePlace
  <2>2. CASE results = << >> /\ resultsClosed /\ UNCHANGED results
    BY <1>0, <2>2 DEF ResultsInOnePlace
  <2>. QED  BY <2>1, <2>2 DEF BatchCollect
<1>2. /\ UNCHANGED <<handled, hand, resultsClosed>> /\ AtWork' = AtWork /\ Handled' = Handled
      /\ \A d \in Batches : d # b => batch'[d] = batch[d]
      /\ batch'[b].got = got
      /\ batch'[b].pc = "complete" => Len(got) = Len(BatchOf[b])
  BY <1>0 DEF BatchCollect, workers, AtWork, Handled, TypeOK
<1>. HIDE DEF r
<1>3. Range(got) = Range(batch[b].got) \cup {r}
  BY <1>0, <1>1, AppendFacts
<1>4. r # None => /\ r \notin Range(batch[b].got)
                  /\ \A w \in AtWork : hand[w] # r
                  /\ \A d \in Batches : r \notin Range(batch[d].got)
  BY <1>0, <1>1 DEF ResultsInOnePlace
<1>5. OncePerMessage(got)
  BY <1>0, <1>1, <1>4, AppendOnce DEF ResultsInOnePlace
<1>. HIDE DEF got
<1>6. \A w \in AtWork : hand[w] # None
  BY <1>0, PoolAssumption DEF ResultsInOnePlace, Handled
<1>7. None \notin Range(results')
  BY <1>0, <1>1, PoolAssumption DEF ResultsInOnePlace, Handled
<1>8. \A d \in Batches :
        /\ Range(batch'[d].got) \subseteq Handled \cup {None}
        /\ None \in Range(batch'[d].got) => resultsClosed
        /\ \A w \in AtWork : hand[w] \notin Range(batch'[d].got)
        /\ Range(batch'[d].got) \cap Range(results') = {}
        /\ OncePerMessage(batch'[d].got)
        /\ batch'[d].pc = "complete" => Len(batch'[d].got) = Len(BatchOf[d])
  <2>. SUFFICES ASSUME NEW d \in Batches
                PROVE  /\ Range(batch'[d].got) \subseteq Handled \cup {None}
                       /\ None \in Range(batch'[d].got) => resultsClosed
                       /\ \A w \in AtWork : hand[w] \notin Range(batch'[d].got)
                       /\ Range(batch'[d].got) \cap Range(results') = {}
                       /\ OncePerMessage(batch'[d].got)
                       /\ batch'[d].pc = "complete" => Len(batch'[d].got) = Len(BatchOf[d])
    OBVIOUS
  <2>1. CASE d = b
    BY <1>0, <1>1, <1>2, <1>3, <1>4, <1>5, <1>6, <1>7, <2>1 DEF ResultsInOnePlace
  <2>2. CASE d # b
    BY <1>0, <1>1, <1>2, <2>2 DEF ResultsInOnePlace
  <2>. QED  BY <2>1, <2>2
<1>9. \A d, e \in Batches :
        d # e => Range(batch'[d].got) \cap Range(batch'[e].got) \subseteq {None}
  BY <1>0, <1>2, <1>3, <1>4 DEF ResultsInOnePlace
<1>10. /\ \A w \in AtWork : hand[w] \in Handled \ Range(results')
       /\ \A w, u \in AtWork : hand[w] = hand[u] => w = u
       /\ IsInjective(results') /\ Range(results') \subseteq Handled
  BY <1>0, <1>1 DEF ResultsInOnePlace
<1>. QED  BY <1>2, <1>8, <1>9, <1>10 DEF ResultsInOnePlace

LEMMA NextResults == PoolInv /\ [Next]_vars => ResultsInOnePlace'
<1>. SUFFICES ASSUME PoolInv, [Next]_vars PROVE ResultsInOnePlace'
  OBVIOUS
<1>0. TypeOK
  BY DEF PoolInv
<1>1. ASSUME UNCHANGED <<handled, results, workers, batch>>, resultsClosed => resultsClosed'
      PROVE  ResultsInOnePlace'
  BY <1>1, ResultsStay DEF workers, AtWork
<1>2. ASSUME NEW m \in Async, Submit(m) PROVE ResultsInOnePlace'
  BY <1>1, <1>2 DEF Submit
<1>3. ASSUME NEW w \in Workers, Worker(w) PROVE ResultsInOnePlace'
  <2>1. CASE Receive(w) \/ CountOutcome(w) \/ Leave(w)
    <3>1. /\ UNCHANGED <<handled, results, resultsClosed, batch>>
          /\ AtWork' = AtWork /\ \A u \in AtWork : hand'[u] = hand[u]
      BY <1>0, <2>1 DEF Receive, CountOutcome, Leave, channels, AtWork, TypeOK
    <3>. QED  BY <3>1, ResultsStay
  <2>. QED  BY <1>3, <2>1, HandleResults, ReportResults DEF Worker
<1>4. ASSUME NEW b \in Batches, Batch(b) PROVE ResultsInOnePlace'
  <2>1. CASE BatchSubmit(b) \/ BatchGiveUp(b)
    <3>1. UNCHANGED <<handled, results, resultsClosed, workers>>
      BY <2>1 DEF BatchSubmit, BatchGiveUp, channels
    <3>2. AtWork' = AtWork /\ \A w \in AtWork : hand'[w] = hand[w]
      BY <3>1 DEF workers, AtWork
    <3>3. CASE BatchSubmit(b)
      <4>1. PICK p \in BatchState \ {"complete"} :
              batch' = [batch EXCEPT ![b].next = @ + 1, ![b].pc = p]
        BY <3>3 DEF BatchSubmit, BatchState
      <4>2. \A d \in Batches : batch'[d].got = batch[d].got
        BY <1>0, <4>1 DEF TypeOK
      <4>3. \A d \in Batches : batch'[d].pc = "complete" => batch[d].pc = "complete"
        BY <1>0, <4>1 DEF TypeOK
      <4>. QED  BY <3>1, <3>2, <4>2, <4>3, ResultsStay
    <3>4. CASE BatchGiveUp(b)
      <4>1. \A d \in Batches : batch'[d].got = batch[d].got
        BY <1>0, <3>4 DEF BatchGiveUp, TypeOK
      <4>2. \A d \in Batches : batch'[d].pc = "complete" => batch[d].pc = "complete"
        BY <1>0, <3>4 DEF BatchGiveUp, TypeOK
      <4>. QED  BY <3>1, <3>2, <4>1, <4>2, ResultsStay
    <3>. QED  BY <2>1, <3>3, <3>4
  <2>. QED  BY <1>4, <2>1, CollectResults DEF Batch
<1>5. CASE CancelParent \/ Stop \/ UNCHANGED vars
  BY <1>0, <1>1, <1>5 DEF CancelParent, Stop, StopCancel, StopCloseTasks, StopCloseResults, vars, channels, TypeOK
<1>6. ASSUME NEW m \in Async, CountDrop(m) PROVE ResultsInOnePlace'
  BY <1>1, <1>6 DEF CountDrop, channels
<1>. QED  BY <1>2, <1>3, <1>4, <1>5, <1>6 DEF Next

----------------------------------------------------------------------------
(* The invariant.                                                          *)

LEMMA InitPoolInv == Init => PoolInv
<1>. SUFFICES ASSUME Init PROVE PoolInv
  OBVIOUS
<1>1. MessagesInOnePlace
  <2>1. Range(tasks) = {} /\ IsInjective(tasks)
    BY DEF Init, Range, IsInjective
  <2>2. \A w \in Workers : pc[w] = "select" /\ hand[w] = None
    BY DEF Init
  <2>3. \A m \in Message : answer[m] = "none" /\ handled[m] = 0
    BY DEF Init
  <2>. QED  BY <2>1, <2>2, <2>3 DEF MessagesInOnePlace
<1>2. RestOfBatchIsNew
  BY BatchOfType DEF Init, RestOfBatchIsNew, Message
<1>3. StopInOrder
  BY DEF Init, StopInOrder
<1>4. ResultsInOnePlace
  <2>1. AtWork = {} /\ Range(results) = {} /\ IsInjective(results)
    BY DEF Init, AtWork, Range, IsInjective
  <2>2. \A b \in Batches : /\ batch[b].pc = "submit" /\ Range(batch[b].got) = {}
                           /\ OncePerMessage(batch[b].got)
    BY DEF Init, Range, OncePerMessage
  <2>. QED  BY <2>1, <2>2 DEF ResultsInOnePlace
<1>. QED  BY <1>1, <1>2, <1>3, <1>4, InitType DEF PoolInv

\* Messages, results and channels are where PoolInv says, in every behaviour of the
\* pool.
THEOREM PoolInvariance == Spec => []PoolInv
<1>1. PoolInv /\ [Next]_vars => PoolInv'
  BY NextType, NextInOnePlace, NextRestOfBatch, NextStopInOrder, NextResults DEF PoolInv
<1>. QED  BY <1>1, InitPoolInv, PTL DEF Spec

----------------------------------------------------------------------------
(* The safety properties.                                                  *)

\* The variables keep their types, the channels their capacity.
THEOREM TypeCorrect == Spec => []TypeOK
<1>1. PoolInv => TypeOK
  BY DEF PoolInv
<1>. QED  BY <1>1, PoolInvariance, PTL

\* Nobody is left that could send on a closed channel of results.
THEOREM ChannelsAreQuiet == Spec => []ClosedChannelsAreQuiet
<1>1. PoolInv => ClosedChannelsAreQuiet
  BY DEF PoolInv, StopInOrder, MessagesInOnePlace, ClosedChannelsAreQuiet
<1>. QED  BY <1>1, PoolInvariance, PTL

\* An element of a queue without duplicates has one position.
LEMMA CountInjective ==
  ASSUME NEW q \in Seq(Message), IsInjective(q), NEW m \in Message
  PROVE  Count(m, q) = IF m \in Range(q) THEN 1 ELSE 0
<1>. DEFINE P == {i \in DOMAIN q : q[i] = m}
<1>1. CASE m \in Range(q)
  <2>1. PICK i \in DOMAIN q : q[i] = m
    BY <1>1 DEF Range
  <2>2. P = {i}
    BY <2>1 DEF IsInjective
  <2>. QED  BY <1>1, <2>2, FS_Singleton DEF Count
<1>2. CASE m \notin Range(q)
  <2>1. P = {}
    BY <1>2 DEF Range
  <2>. QED  BY <1>2, <2>1, FS_EmptySet DEF Count
<1>. QED  BY <1>1, <1>2

\* A message is held by at most one worker that handles it.
LEMMA HoldersCount ==
  ASSUME PoolInv, NEW m \in Message
  PROVE  Cardinality(Holders(m)) = IF Holders(m) = {} THEN 0 ELSE 1
<1>1. CASE Holders(m) = {}
  BY <1>1, FS_EmptySet
<1>2. CASE Holders(m) # {}
  <2>1. PICK w \in Workers : pc[w] = "handle" /\ hand[w] = m
    BY <1>2 DEF Holders
  <2>2. Holders(m) = {w}
    BY <2>1 DEF Holders, PoolInv, MessagesInOnePlace
  <2>. QED  BY <1>2, <2>2, FS_Singleton
<1>. QED  BY <1>1, <1>2

\* A message Submit said yes to is queued, in one worker's hands or handled, once;
\* one it said no to is nowhere.
THEOREM AcceptedOnce == Spec => []EachAcceptedOnce
<1>1. ASSUME PoolInv PROVE EachAcceptedOnce
  <2>. SUFFICES ASSUME NEW m \in Message
                PROVE  Count(m, tasks) + Cardinality(Holders(m)) + handled[m]
                         = IF answer[m] = "accepted" THEN 1 ELSE 0
    BY DEF EachAcceptedOnce
  <2>0. MessagesInOnePlace /\ TypeOK
    BY <1>1 DEF PoolInv
  <2>1. Count(m, tasks) = IF m \in Range(tasks) THEN 1 ELSE 0
    BY <2>0, CountInjective DEF TypeOK, MessagesInOnePlace
  <2>2. Cardinality(Holders(m)) = IF Holders(m) = {} THEN 0 ELSE 1
    BY <1>1, HoldersCount
  <2>3. handled[m] \in {0, 1}
    BY <2>0 DEF TypeOK, MessagesInOnePlace
  <2>4. CASE answer[m] = "accepted"
    <3>1. m \in Range(tasks) => Holders(m) = {} /\ handled[m] = 0
      BY <2>0 DEF MessagesInOnePlace, Holders
    <3>2. Holders(m) # {} => m \notin Range(tasks) /\ handled[m] = 0
      BY <2>0 DEF MessagesInOnePlace, Holders
    <3>3. m \in Range(tasks) \/ handled[m] = 1 \/ Holders(m) # {}
      BY <2>0, <2>4 DEF MessagesInOnePlace
    <3>. QED  BY <2>1, <2>2, <2>3, <2>4, <3>1, <3>2, <3>3
  <2>5. CASE answer[m] # "accepted"
    <3>1. m \notin Range(tasks) /\ Holders(m) = {} /\ handled[m] = 0
      BY <2>0, <2>3, <2>5 DEF MessagesInOnePlace, Holders
    <3>. QED  BY <2>1, <2>2, <2>5, <3>1
  <2>. QED  BY <2>4, <2>5
<1>. QED  BY <1>1, PoolInvariance, PTL

----------------------------------------------------------------------------
(* The metrics.                                                            *)

LEMMA InitMetrics == Init => MetricsInv
<1>. SUFFICES ASSUME Init PROVE MetricsInv
  OBVIOUS
<1>1. Handled = {} /\ Pending = {} /\ Refused = {}
  BY DEF Init, Handled, Pending, Uncounted, Refused
<1>2. Processed = 0 /\ Errors = 0 /\ Dropped = 0
  BY DEF Init
<1>3. ({} \ {}) \ Failing = {} /\ ({} \ {}) \cap Failing = {}
  OBVIOUS
<1>. QED  BY <1>1, <1>2, <1>3, FS_EmptySet DEF MetricsInv, MetricsAddUp, OutcomesCounted

\* A step that neither handles nor counts a message leaves the outcomes counted.
LEMMA OutcomesStay ==
  ASSUME OutcomesCounted, IsFiniteSet(Handled), UNCHANGED <<handled, Processed, Errors>>,
         Uncounted' = Uncounted, \A w \in Uncounted : hand'[w] = hand[w]
  PROVE  OutcomesCounted' /\ IsFiniteSet(Handled')
<1>1. Handled' = Handled /\ Pending' = Pending
  BY DEF Handled, Pending
<1>. QED  BY <1>1 DEF OutcomesCounted

\* The handler returns: one more message is handled, and not counted yet.
LEMMA HandleCounted ==
  ASSUME PoolInv, OutcomesCounted, IsFiniteSet(Handled), NEW w \in Workers, Handle(w)
  PROVE  OutcomesCounted' /\ IsFiniteSet(Handled')
<1>0. MessagesInOnePlace /\ TypeOK
  BY DEF PoolInv
<1>1. PICK h \in Message : h = hand[w]
  BY HandHasMessage DEF Handle
<1>2. h \notin Handled
  BY <1>0, <1>1 DEF Handle, MessagesInOnePlace, Handled
<1>3. Handled' = Handled \cup {h}
  BY <1>0, <1>1 DEF Handle, Handled, TypeOK
<1>4. Uncounted' = Uncounted \cup {w} /\ UNCHANGED <<hand, Processed, Errors>>
  BY <1>0 DEF Handle, Uncounted, metrics, TypeOK
<1>5. Pending' = Pending \cup {h}
  BY <1>1, <1>4 DEF Pending
<1>6. Handled' \ Pending' = Handled \ Pending /\ Pending' \subseteq Handled'
  BY <1>2, <1>3, <1>5 DEF OutcomesCounted
<1>7. IsFiniteSet(Handled')
  BY <1>3, FS_AddElement
<1>. QED  BY <1>4, <1>6, <1>7 DEF OutcomesCounted

\* The outcome of a message is counted where it belongs.
LEMMA CountOutcomeCounted ==
  ASSUME PoolInv, OutcomesCounted, IsFiniteSet(Handled), NEW w \in Workers, CountOutcome(w)
  PROVE  OutcomesCounted' /\ IsFiniteSet(Handled')
<1>. DEFINE Done == Handled \ Pending
<1>0. TypeOK /\ ResultsInOnePlace
  BY DEF PoolInv
<1>1. PICK h \in Message : h = hand[w]
  BY HandHasMessage DEF CountOutcome
<1>2. UNCHANGED <<handled, hand>> /\ Handled' = Handled /\ w \in Uncounted
  BY DEF CountOutcome, Handled, Uncounted
<1>3. Uncounted' = Uncounted \ {w}
  BY <1>0 DEF CountOutcome, Uncounted, TypeOK
<1>4. \A u \in Uncounted : hand[u] = h => u = w
  <2>1. Uncounted \subseteq AtWork
    BY DEF Uncounted, AtWork
  <2>. QED  BY <1>0, <1>1, <1>2, <2>1 DEF ResultsInOnePlace
<1>5. Pending' = Pending \ {h} /\ h \in Pending
  BY <1>1, <1>2, <1>3, <1>4 DEF Pending
<1>6. h \in Handled /\ h \notin Done /\ Handled' \ Pending' = Done \cup {h}
  BY <1>2, <1>5 DEF OutcomesCounted
<1>7. IsFiniteSet(Done \ Failing) /\ IsFiniteSet(Done \cap Failing)
  BY FS_Difference, FS_Intersection
<1>8. CASE h \in Failing
  <2>1. /\ (Done \cup {h}) \ Failing = Done \ Failing
        /\ (Done \cup {h}) \cap Failing = (Done \cap Failing) \cup {h}
    BY <1>8
  <2>2. Cardinality((Done \cap Failing) \cup {h}) = Cardinality(Done \cap Failing) + 1
    BY <1>6, <1>7, FS_AddElement
  <2>3. Errors' = Errors + 1 /\ Processed' = Processed
    BY <1>1, <1>8 DEF CountOutcome
  <2>. QED  BY <1>2, <1>5, <1>6, <2>1, <2>2, <2>3 DEF OutcomesCounted
<1>9. CASE h \notin Failing
  <2>1. /\ (Done \cup {h}) \ Failing = (Done \ Failing) \cup {h}
        /\ (Done \cup {h}) \cap Failing = Done \cap Failing
    BY <1>9
  <2>2. Cardinality((Done \ Failing) \cup {h}) = Cardinality(Done \ Failing) + 1
    BY <1>6, <1>7, FS_AddElement
  <2>3. Errors' = Errors /\ Processed' = Processed + 1
    BY <1>1, <1>9 DEF CountOutcome
  <2>. QED  BY <1>2, <1>5, <1>6, <2>1, <2>2, <2>3 DEF OutcomesCounted
<1>. QED  BY <1>8, <1>9

LEMMA NextOutcomes ==
  PoolInv /\ MetricsInv /\ [Next]_vars => OutcomesCounted' /\ IsFiniteSet(Handled')
<1>. SUFFICES ASSUME PoolInv, MetricsInv, [Next]_vars
              PROVE  OutcomesCounted' /\ IsFiniteSet(Handled')
  OBVIOUS
<1>0. OutcomesCounted /\ IsFiniteSet(Handled) /\ TypeOK
  BY DEF PoolInv, MetricsInv, MetricsAddUp
<1>1. ASSUME UNCHANGED <<handled, workers, Processed, Errors>>
      PROVE  OutcomesCounted' /\ IsFiniteSet(Handled')
  BY <1>0, <1>1, OutcomesStay DEF workers, Uncounted
<1>2. ASSUME NEW m \in Message, SubmitBlocking(m) \/ DropFull(m)
      PROVE  UNCHANGED <<Processed, Errors>>
  BY <1>2 DEF SubmitBlocking, Send, SendOnClosed, SeeDone, DropFull, metrics
<1>3. ASSUME NEW m \in Async, Submit(m) PROVE OutcomesCounted' /\ IsFiniteSet(Handled')
  <2>1. m \in Message /\ (SubmitBlocking(m) \/ DropFull(m))
    BY <1>3 DEF Submit, SubmitBlocking, Message
  <2>. QED  BY <1>1, <1>2, <1>3, <2>1 DEF Submit
<1>4. ASSUME NEW w \in Workers, Worker(w) PROVE OutcomesCounted' /\ IsFiniteSet(Handled')
  <2>1. CASE Receive(w) \/ Report(w) \/ Leave(w)
    <3>1. /\ UNCHANGED <<handled, Processed, Errors>>
          /\ Uncounted' = Uncounted /\ \A u \in Uncounted : hand'[u] = hand[u]
      BY <1>0, <2>1 DEF Receive, Report, Leave, metrics, Uncounted, TypeOK
    <3>. QED  BY <1>0, <3>1, OutcomesStay
  <2>. QED  BY <1>0, <1>4, <2>1, HandleCounted, CountOutcomeCounted DEF Worker
<1>5. ASSUME NEW b \in Batches, Batch(b) PROVE OutcomesCounted' /\ IsFiniteSet(Handled')
  <2>1. CASE BatchSubmit(b)
    <3>. DEFINE m == BatchOf[b][batch[b].next]
    <3>1. m \in Message /\ SubmitBlocking(m) /\ UNCHANGED <<handled, workers>>
      BY <2>1, BatchSubmitsNew DEF BatchSubmit, Message
    <3>. QED  BY <1>1, <1>2, <3>1
  <2>2. CASE BatchCollect(b) \/ BatchGiveUp(b)
    BY <1>1, <2>2 DEF BatchCollect, BatchGiveUp, metrics
  <2>. QED  BY <1>5, <2>1, <2>2 DEF Batch
<1>6. CASE CancelParent \/ Stop \/ UNCHANGED vars
  BY <1>1, <1>6 DEF CancelParent, Stop, StopCancel, StopCloseTasks, StopCloseResults, vars, metrics
<1>7. ASSUME NEW m \in Async, CountDrop(m) PROVE OutcomesCounted' /\ IsFiniteSet(Handled')
  BY <1>1, <1>7 DEF CountDrop
<1>. QED  BY <1>3, <1>4, <1>5, <1>6, <1>7 DEF Next

\* Nobody is refused by a send before the pool is cancelled: who is to be dropped has
\* yet to count it.
LEMMA SendDrops ==
  ASSUME PoolInv, MetricsInv, NEW m \in Message, answer[m] = "none",
         SubmitBlocking(m) \/ DropFull(m), UNCHANGED cancelled
  PROVE  IsFiniteSet(Refused') /\ (~cancelled => Dropped' = Cardinality(Refused'))
<1>0. TypeOK /\ StopInOrder /\ IsFiniteSet(Refused) /\ (~cancelled => Dropped = Cardinality(Refused))
  BY DEF PoolInv, MetricsInv, MetricsAddUp
<1>1. \A n \in Message : n # m => answer'[n] = answer[n]
  BY <1>0, SendAnswers DEF TypeOK
<1>2. m \notin Refused
  BY DEF Refused
<1>3. CASE Send(m) \/ SendOnClosed(m) \/ DropFull(m)
  <2>1. answer'[m] # "refused" /\ Dropped' = Dropped
    BY <1>0, <1>3 DEF Send, SendOnClosed, DropFull, metrics, TypeOK
  <2>2. Refused' = Refused
    BY <1>1, <1>2, <2>1 DEF Refused
  <2>. QED  BY <1>0, <2>1, <2>2
<1>4. CASE SeeDone(m)
  <2>1. answer'[m] = "refused" /\ cancelled
    BY <1>0, <1>4 DEF SeeDone, TypeOK
  <2>2. Refused' = Refused \cup {m}
    BY <1>1, <2>1 DEF Refused
  <2>. QED  BY <1>0, <2>1, <2>2, FS_AddElement
<1>. QED  BY <1>3, <1>4 DEF SubmitBlocking

LEMMA NextDrops ==
  PoolInv /\ MetricsInv /\ [Next]_vars
    => IsFiniteSet(Refused') /\ (~cancelled' => Dropped' = Cardinality(Refused'))
<1>. SUFFICES ASSUME PoolInv, MetricsInv, [Next]_vars
              PROVE  IsFiniteSet(Refused') /\ (~cancelled' => Dropped' = Cardinality(Refused'))
  OBVIOUS
<1>1. ASSUME UNCHANGED <<answer, Dropped>>, cancelled => cancelled'
      PROVE  IsFiniteSet(Refused') /\ (~cancelled' => Dropped' = Cardinality(Refused'))
  <2>1. Refused' = Refused
    BY <1>1 DEF Refused
  <2>. QED  BY <1>1, <2>1 DEF MetricsInv, MetricsAddUp
<1>2. ASSUME NEW m \in Async, Submit(m)
      PROVE  IsFiniteSet(Refused') /\ (~cancelled' => Dropped' = Cardinality(Refused'))
  <2>1. /\ m \in Message /\ (SubmitBlocking(m) \/ DropFull(m))
        /\ answer[m] = "none" /\ UNCHANGED cancelled
    BY <1>2 DEF Submit, SubmitBlocking, Message
  <2>. QED  BY <2>1, SendDrops
<1>3. ASSUME NEW w \in Workers, Worker(w)
      PROVE  IsFiniteSet(Refused') /\ (~cancelled' => Dropped' = Cardinality(Refused'))
  BY <1>1, <1>3 DEF Worker, Receive, Handle, CountOutcome, Report, Leave, metrics
<1>4. ASSUME NEW b \in Batches, Batch(b)
      PROVE  IsFiniteSet(Refused') /\ (~cancelled' => Dropped' = Cardinality(Refused'))
  <2>1. CASE BatchSubmit(b)
    <3>. DEFINE m == BatchOf[b][batch[b].next]
    <3>1. m \in Message /\ answer[m] = "none" /\ SubmitBlocking(m) /\ UNCHANGED cancelled
      BY <2>1, BatchSubmitsNew DEF BatchSubmit, Message
    <3>. QED  BY <3>1, SendDrops
  <2>2. CASE BatchCollect(b) \/ BatchGiveUp(b)
    BY <1>1, <2>2 DEF BatchCollect, BatchGiveUp, metrics
  <2>. QED  BY <1>4, <2>1, <2>2 DEF Batch
<1>5. CASE CancelParent \/ Stop \/ UNCHANGED vars
  BY <1>1, <1>5 DEF CancelParent, Stop, StopCancel, StopCloseTasks, StopCloseResults, vars, metrics
<1>6. ASSUME NEW m \in Async, CountDrop(m)
      PROVE  IsFiniteSet(Refused') /\ (~cancelled' => Dropped' = Cardinality(Refused'))
  <2>0. TypeOK /\ IsFiniteSet(Refused) /\ (~cancelled => Dropped = Cardinality(Refused))
    BY DEF PoolInv, MetricsInv, MetricsAddUp
  <2>1. /\ m \in Message /\ answer[m] = "dropping" /\ answer'[m] = "refused"
        /\ \A n \in Message : n # m => answer'[n] = answer[n]
        /\ Dropped' = Dropped + 1 /\ UNCHANGED cancelled
    BY <2>0, <1>6, CountDropAnswers
  <2>2. m \notin Refused /\ Refused' = Refused \cup {m}
    BY <2>1 DEF Refused
  <2>3. IsFiniteSet(Refused') /\ Cardinality(Refused') = Cardinality(Refused) + 1
    BY <2>0, <2>2, FS_AddElement
  <2>. QED  BY <2>0, <2>1, <2>3
<1>. QED  BY <1>2, <1>3, <1>4, <1>5, <1>6 DEF Next

\* The metrics add up: a handled message is counted once or about to be, and until
\* the pool is cancelled a refusal is a drop.
THEOREM MetricsCorrect == Spec => []MetricsAddUp
<1>1. PoolInv /\ MetricsInv /\ [Next]_vars => MetricsInv'
  BY NextOutcomes, NextDrops DEF MetricsInv, MetricsAddUp
<1>2. MetricsInv => MetricsAddUp
  BY DEF MetricsInv
<1>. QED  BY <1>1, <1>2, InitMetrics, PoolInvariance, PTL DEF Spec

----------------------------------------------------------------------------
(* The results of a call of Batch.                                         *)

\* There are n numbers up to n.
LEMMA FirstNumbers ==
  ASSUME NEW n \in Nat
  PROVE  IsFiniteSet(1..n) /\ Cardinality(1..n) = n
<1>1. /\ IsFiniteSet(1..n)
      /\ Cardinality(1..n) = IF 1 > n THEN 0 ELSE n - 1 + 1
  BY FS_Interval
<1>. QED  BY <1>1

\* The places of a sequence with distinct elements are as many as its elements.
LEMMA InjectiveCount ==
  ASSUME NEW S, NEW q \in Seq(S), IsInjective(q)
  PROVE  IsFiniteSet(Range(q)) /\ Cardinality(Range(q)) = Len(q)
<1>1. Len(q) \in Nat /\ DOMAIN q = 1..Len(q) /\ q \in [1..Len(q) -> Range(q)]
  BY LenProperties DEF Range
<1>2. q \in Bijection(1..Len(q), Range(q))
  BY <1>1 DEF IsInjective, Range, Bijection, Injection, Surjection
<1>3. IsFiniteSet(1..Len(q)) /\ Cardinality(1..Len(q)) = Len(q)
  BY <1>1, FirstNumbers
<1>. QED  BY <1>2, <1>3, FS_Bijection DEF ExistsBijection

\* Alone in a pool that is not stopped, a call of Batch that is complete has the
\* results of its messages: it read as many different ones as it has messages, and
\* there are no others.
THEOREM LoneBatch == Spec => []LoneBatchGetsItsResults
<1>1. ASSUME PoolInv PROVE LoneBatchGetsItsResults
  <2>. SUFFICES ASSUME NEW b \in Batches, batch[b].pc = "complete", ~cancelled,
                       \A m \in Message \ Range(BatchOf[b]) : answer[m] # "accepted"
                PROVE  Range(batch[b].got) = Range(BatchOf[b])
    BY DEF LoneBatchGetsItsResults
  <2>. DEFINE got == batch[b].got
  <2>0. TypeOK /\ MessagesInOnePlace /\ StopInOrder /\ ResultsInOnePlace
    BY <1>1 DEF PoolInv
  <2>1. ~resultsClosed
    BY <2>0 DEF StopInOrder
  <2>2. got \in Seq(Message \cup {None}) /\ Len(got) = Len(BatchOf[b])
    BY <2>0 DEF TypeOK, ResultsInOnePlace
  <2>3. Range(got) \subseteq Handled /\ None \notin Range(got)
    BY <2>0, <2>1 DEF ResultsInOnePlace
  <2>4. IsInjective(got)
    <3>1. \A i \in DOMAIN got : got[i] # None
      BY <2>3 DEF Range
    <3>2. OncePerMessage(got)
      BY <2>0 DEF ResultsInOnePlace
    <3>. QED  BY <3>1, <3>2 DEF OncePerMessage, IsInjective
  <2>5. Handled \subseteq Range(BatchOf[b])
    BY <2>0 DEF Handled, MessagesInOnePlace
  <2>6. BatchOf[b] \in Seq(Message) /\ IsInjective(BatchOf[b])
    BY BatchOfType, PoolAssumption
  <2>. HIDE DEF got
  <2>7. /\ IsFiniteSet(Range(BatchOf[b])) /\ Cardinality(Range(BatchOf[b])) = Len(BatchOf[b])
        /\ Cardinality(Range(got)) = Len(got)
    BY <2>2, <2>4, <2>6, InjectiveCount
  <2>8. Range(got) \subseteq Range(BatchOf[b])
    BY <2>3, <2>5
  <2>9. Range(got) = Range(BatchOf[b])
    BY <2>2, <2>7, <2>8, FS_Subset
  <2>. QED  BY <2>9 DEF got
<1>. QED  BY <1>1, PoolInvariance, PTL

----------------------------------------------------------------------------
(* The pool implements TaskLedger.                                         *)

\* A queue has no more elements than places.
LEMMA RangeBound ==
  ASSUME NEW q \in Seq(Message)
  PROVE  IsFiniteSet(Range(q)) /\ Cardinality(Range(q)) <= Len(q)
<1>1. q \in Surjection(1..Len(q), Range(q)) /\ Len(q) \in Nat
  BY LenProperties DEF Surjection, Range
<1>2. IsFiniteSet(1..Len(q)) /\ Cardinality(1..Len(q)) = Len(q)
  BY <1>1, FirstNumbers
<1>. QED  BY <1>1, <1>2, FS_Surjection

\* What is accepted and not handled fits into the queue and the hands.
LEMMA WaitingBound ==
  ASSUME PoolInv
  PROVE  /\ IsFiniteSet(Ledger!Waiting)
         /\ Cardinality(Ledger!Waiting) <= Len(tasks) + Cardinality(Workers)
<1>. DEFINE Hands == Range(hand)
<1>0. MessagesInOnePlace /\ TypeOK
  BY DEF PoolInv
<1>1. Ledger!Waiting \subseteq Range(tasks) \cup Hands
  BY <1>0 DEF Ledger!Waiting, MessagesInOnePlace, Holders, Range, TypeOK
<1>2. IsFiniteSet(Range(tasks)) /\ Cardinality(Range(tasks)) <= Len(tasks)
  BY <1>0, RangeBound DEF TypeOK
<1>3. IsFiniteSet(Hands) /\ Cardinality(Hands) <= Cardinality(Workers)
  <2>1. hand \in Surjection(Workers, Hands)
    BY <1>0 DEF Surjection, Range, TypeOK
  <2>. QED  BY <2>1, FS_Surjection, PoolAssumption
<1>4. /\ Cardinality(Range(tasks)) \in Nat /\ Cardinality(Hands) \in Nat
      /\ Cardinality(Range(tasks) \cap Hands) \in Nat
      /\ Cardinality(Workers) \in Nat /\ Len(tasks) \in Nat
  <2>1. IsFiniteSet(Range(tasks) \cap Hands)
    BY <1>2, FS_Intersection
  <2>2. Len(tasks) \in Nat
    BY <1>0 DEF TypeOK
  <2>. HIDE DEF Hands
  <2>. QED  BY <1>2, <1>3, <2>1, <2>2, FS_CardinalityType, PoolAssumption
<1>5. /\ IsFiniteSet(Range(tasks) \cup Hands)
      /\ Cardinality(Range(tasks) \cup Hands)
           = Cardinality(Range(tasks)) + Cardinality(Hands) - Cardinality(Range(tasks) \cap Hands)
  BY <1>2, <1>3, FS_Union
<1>6. /\ IsFiniteSet(Ledger!Waiting)
      /\ Cardinality(Ledger!Waiting) <= Cardinality(Range(tasks) \cup Hands)
  BY <1>1, <1>5, FS_Subset
<1>7. Cardinality(Ledger!Waiting) \in Nat
  BY <1>6, FS_CardinalityType
<1>. QED  BY <1>2, <1>3, <1>4, <1>5, <1>6, <1>7

LEMMA InitLedger == Init => Ledger!Init
<1>. SUFFICES ASSUME Init PROVE Ledger!Init
  OBVIOUS
<1>1. \A m \in Message : answer[m] = "none" /\ handled[m] = 0
  BY DEF Init
<1>2. tasksClosed = FALSE
  BY DEF Init
<1>. QED  BY <1>1, <1>2 DEF Ledger!Init

\* The cardinality TaskLedger speaks of is that of this module.
LEMMA LedgerCardinality ==
  ASSUME NEW S
  PROVE  Ledger!Cardinality(S) = Cardinality(S)
BY DEF Ledger!Cardinality, Cardinality

\* A send is an Accept or a Refuse.
LEMMA SendLedger ==
  ASSUME PoolInv, NEW m \in Message, answer[m] = "none",
         SubmitBlocking(m) \/ DropFull(m), UNCHANGED <<handled, tasksClosed>>
  PROVE  Ledger!Next
<1>0. MessagesInOnePlace /\ TypeOK
  BY DEF PoolInv
<1>1. \A n \in Message : n # m => answer'[n] = answer[n]
  BY <1>0, SendAnswers DEF TypeOK
<1>2. ~(handled[m] > 0) /\ ~(handled'[m] > 0)
  BY <1>0 DEF MessagesInOnePlace, TypeOK
<1>3. CASE Send(m)
  <2>1. answer'[m] = "accepted" /\ ~tasksClosed /\ Len(tasks) < BufferSize
    BY <1>0, <1>3 DEF Send, TypeOK
  <2>2. Cardinality(Ledger!Waiting) < BufferSize + Cardinality(Workers)
    <3>1. /\ Cardinality(Ledger!Waiting) <= Len(tasks) + Cardinality(Workers)
          /\ Cardinality(Ledger!Waiting) \in Nat /\ Len(tasks) \in Nat
          /\ Cardinality(Workers) \in Nat /\ BufferSize \in Nat
      BY <1>0, WaitingBound, FS_CardinalityType, PoolAssumption DEF TypeOK
    <3>. QED  BY <2>1, <3>1
  <2>. DEFINE st == [n \in Message |->
                     IF handled[n] > 0 THEN "handled"
                     ELSE IF answer[n] = "none" THEN "new"
                     ELSE IF answer[n] = "accepted" THEN "accepted"
                     ELSE "refused"]
  <2>3. st[m] = "new" /\ st'[m] = "accepted" /\ \A n \in Message : n # m => st'[n] = st[n]
    BY <1>1, <1>2, <2>1
  <2>4. st' = [st EXCEPT ![m] = "accepted"]
    BY <2>3
  <2>5. Ledger!Accept(m)
    <3>1. (~tasksClosed)' = ~tasksClosed /\ ~tasksClosed
      BY <2>1
    <3>2. st[m] = "new" /\ st' = [st EXCEPT ![m] = "accepted"]
      BY <2>3, <2>4
    <3>3. Ledger!Cardinality(Ledger!Waiting) = Cardinality(Ledger!Waiting)
      BY LedgerCardinality
    <3>4. Ledger!Cardinality(Ledger!Waiting) < BufferSize + Cardinality(Workers)
      BY <2>2, <3>3
    <3>. QED  BY <3>1, <3>2, <3>4 DEF Ledger!Accept
  <2>. QED  BY <2>5 DEF Ledger!Next
<1>4. CASE SendOnClosed(m) \/ SeeDone(m) \/ DropFull(m)
  <2>1. answer'[m] \in {"dropping", "refused", "panicked"}
    BY <1>0, <1>4 DEF SendOnClosed, SeeDone, DropFull, TypeOK
  <2>2. Ledger!Refuse(m)
    BY <1>0, <1>1, <1>2, <2>1 DEF Ledger!Refuse
  <2>. QED  BY <2>2 DEF Ledger!Next
<1>. QED  BY <1>3, <1>4 DEF SubmitBlocking

\* The return of the handler is a Handle.
LEMMA HandleLedger ==
  ASSUME PoolInv, NEW w \in Workers, Handle(w)
  PROVE  Ledger!Next
<1>0. MessagesInOnePlace /\ TypeOK /\ StopInOrder
  BY DEF PoolInv
<1>1. PICK h \in Message : h = hand[w]
  BY HandHasMessage DEF Handle
<1>2. answer[h] = "accepted" /\ handled[h] = 0 /\ ~tasksClosed
  BY <1>0, <1>1 DEF Handle, MessagesInOnePlace, StopInOrder
<1>3. /\ UNCHANGED <<answer, tasksClosed>>
      /\ handled'[h] = 1 /\ \A n \in Message : n # h => handled'[n] = handled[n]
  BY <1>0, <1>1, <1>2 DEF Handle, TypeOK, channels
<1>. DEFINE st == [n \in Message |->
                   IF handled[n] > 0 THEN "handled"
                   ELSE IF answer[n] = "none" THEN "new"
                   ELSE IF answer[n] = "accepted" THEN "accepted"
                   ELSE "refused"]
<1>4. st[h] = "accepted" /\ st'[h] = "handled" /\ \A n \in Message : n # h => st'[n] = st[n]
  BY <1>2, <1>3
<1>5. st' = [st EXCEPT ![h] = "handled"]
  BY <1>4
<1>6. Ledger!Handle(h)
  BY <1>2, <1>3, <1>4, <1>5 DEF Ledger!Handle
<1>. QED  BY <1>6 DEF Ledger!Next

\* The first half of Stop is not seen, the second is a Close.
LEMMA StopLedger == PoolInv /\ Stop => Ledger!Next \/ UNCHANGED Ledger!vars
<1>. SUFFICES ASSUME PoolInv, Stop PROVE Ledger!Next \/ UNCHANGED Ledger!vars
  OBVIOUS
<1>1. UNCHANGED <<answer, handled>>
  BY DEF Stop, StopCancel, StopCloseTasks, StopCloseResults
<1>2. CASE StopCloseTasks
  <2>1. ~tasksClosed /\ tasksClosed'
    BY <1>2 DEF StopCloseTasks, PoolInv, StopInOrder
  <2>. QED  BY <1>1, <2>1 DEF Ledger!Next, Ledger!Close
<1>3. CASE StopCancel \/ StopCloseResults
  BY <1>1, <1>3 DEF StopCancel, StopCloseResults, channels, Ledger!vars
<1>. QED  BY <1>2, <1>3 DEF Stop

LEMMA NextLedger == PoolInv /\ [Next]_vars => [Ledger!Next]_Ledger!vars
<1>. SUFFICES ASSUME PoolInv, [Next]_vars PROVE Ledger!Next \/ UNCHANGED Ledger!vars
  OBVIOUS
<1>0. ASSUME UNCHANGED <<answer, handled, tasksClosed>> PROVE UNCHANGED Ledger!vars
  BY <1>0 DEF Ledger!vars
<1>1. ASSUME NEW m \in Async, Submit(m) PROVE Ledger!Next
  <2>1. /\ SubmitBlocking(m) \/ DropFull(m)
        /\ answer[m] = "none" /\ UNCHANGED <<handled, tasksClosed>> /\ m \in Message
    BY <1>1 DEF Submit, SubmitBlocking, Message
  <2>. QED  BY <2>1, SendLedger
<1>2. ASSUME NEW w \in Workers, Worker(w) PROVE Ledger!Next \/ UNCHANGED Ledger!vars
  <2>1. CASE Handle(w)
    BY <2>1, HandleLedger
  <2>2. CASE Receive(w) \/ CountOutcome(w) \/ Report(w) \/ Leave(w)
    BY <1>0, <2>2 DEF Receive, CountOutcome, Report, Leave, channels
  <2>. QED  BY <1>2, <2>1, <2>2 DEF Worker
<1>3. ASSUME NEW b \in Batches, Batch(b) PROVE Ledger!Next \/ UNCHANGED Ledger!vars
  <2>1. CASE BatchSubmit(b)
    <3>. DEFINE m == BatchOf[b][batch[b].next]
    <3>1. /\ m \in Message /\ answer[m] = "none"
          /\ SubmitBlocking(m) /\ UNCHANGED <<handled, tasksClosed>>
      BY <2>1, BatchSubmitsNew DEF Message, BatchSubmit
    <3>. QED  BY <3>1, SendLedger
  <2>2. CASE BatchCollect(b) \/ BatchGiveUp(b)
    BY <1>0, <2>2 DEF BatchCollect, BatchGiveUp, channels
  <2>. QED  BY <1>3, <2>1, <2>2 DEF Batch
<1>4. CASE CancelParent \/ UNCHANGED vars
  BY <1>0, <1>4 DEF CancelParent, vars, channels
<1>5. CASE Stop
  BY <1>5, StopLedger
<1>6. ASSUME NEW m \in Async, CountDrop(m) PROVE UNCHANGED Ledger!vars
  <2>0. TypeOK
    BY DEF PoolInv
  <2>1. /\ m \in Message /\ answer[m] = "dropping" /\ answer'[m] = "refused"
        /\ \A n \in Message : n # m => answer'[n] = answer[n]
        /\ UNCHANGED <<handled, tasksClosed>>
    BY <2>0, <1>6, CountDropAnswers
  <2>2. \A n \in Message : /\ answer'[n] = "none" <=> answer[n] = "none"
                           /\ answer'[n] = "accepted" <=> answer[n] = "accepted"
    BY <2>1
  <2>. QED  BY <2>1, <2>2 DEF Ledger!vars
<1>. QED  BY <1>1, <1>2, <1>3, <1>4, <1>5, <1>6 DEF Next

\* To its callers the pool is the ledger: every message is answered once, handled at
\* most once and only while the pool is open, within the capacity.
THEOREM PoolImplementsLedger == Spec => ImplementsLedger
BY InitLedger, NextLedger, PoolInvariance, PTL DEF Spec, ImplementsLedger, Ledger!Spec
==============================================================================
