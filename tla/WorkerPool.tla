----------------------------- MODULE WorkerPool ------------------------------
(***************************************************************************)
(* The worker pool of internal/pipeline/worker.go: a bounded channel of    *)
(* tasks, a bounded channel of results, a fixed set of worker goroutines,  *)
(* a context that stops them, callers of Submit and callers of Batch.      *)
(*                                                                         *)
(* A select statement is one step: it takes any one of its ready cases,    *)
(* and the default only if there is none.  A send on a closed channel is a *)
(* ready case, and panics.  Each message of Async stands for one goroutine *)
(* that calls Submit with it at some time, as an HTTP handler does.        *)
(***************************************************************************)
EXTENDS Integers, Sequences, FiniteSets, Functions

CONSTANTS
  Workers,      \* PoolConfig.Workers, as a set of goroutines
  BufferSize,   \* PoolConfig.BufferSize, the capacity of both channels
  Async,        \* the messages handed to Submit
  Batches,      \* the calls of Batch
  BatchOf,      \* the messages of each call, a sequence
  Failing,      \* the messages the handler returns an error for
  None          \* no message: an idle hand, and the result of a closed channel

BatchMessages == UNION {Range(BatchOf[b]) : b \in Batches}
Message == Async \cup BatchMessages

ASSUME PoolAssumption ==
  /\ IsFiniteSet(Workers) /\ Workers # {}
  /\ BufferSize \in Nat \ {0}
  /\ IsFiniteSet(Async)
  /\ BatchOf \in [Batches -> Seq(BatchMessages) \ {<< >>}]
  /\ \A b \in Batches : IsInjective(BatchOf[b])
  /\ \A b, d \in Batches : b # d => Range(BatchOf[b]) \cap Range(BatchOf[d]) = {}
  /\ Async \cap BatchMessages = {}
  /\ None \notin Message
  /\ Failing \subseteq Message

VARIABLES
  tasks, tasksClosed,      \* the channel of messages
  results, resultsClosed,  \* the channel of results
  cancelled,               \* wp.ctx is done
  pc, hand,                \* per worker: where it is, the message it holds
  Processed, Errors, Dropped, \* PoolMetrics
  answer,                  \* per message: what Submit or SubmitBlocking returned, or
                           \* "dropping" while Submit is on its way to count the drop
  handled,                 \* history: how often the handler ran for a message
  batch,                   \* per call of Batch: its progress and its results
  stopper                  \* the call of Stop

channels == <<tasks, tasksClosed, results, resultsClosed>>
metrics  == <<Processed, Errors, Dropped>>
workers  == <<pc, hand>>
vars == <<channels, cancelled, workers, metrics, answer, handled, batch, stopper>>

Init ==
  /\ tasks = << >> /\ tasksClosed = FALSE
  /\ results = << >> /\ resultsClosed = FALSE
  /\ cancelled = FALSE
  /\ pc = [w \in Workers |-> "select"] /\ hand = [w \in Workers |-> None]
  /\ Processed = 0 /\ Errors = 0 /\ Dropped = 0
  /\ answer = [m \in Message |-> "none"]
  /\ handled = [m \in Message |-> 0]
  /\ batch = [b \in Batches |-> [pc |-> "submit", next |-> 1, got |-> << >>]]
  /\ stopper = "none"

----------------------------------------------------------------------------
(* The cases of the select statements of Submit and SubmitBlocking.        *)

Send(m) ==
  /\ ~tasksClosed /\ Len(tasks) < BufferSize
  /\ tasks' = Append(tasks, m)
  /\ answer' = [answer EXCEPT ![m] = "accepted"]
  /\ UNCHANGED metrics

SendOnClosed(m) ==
  /\ tasksClosed
  /\ answer' = [answer EXCEPT ![m] = "panicked"]
  /\ UNCHANGED <<tasks, metrics>>

SeeDone(m) ==
  /\ cancelled
  /\ answer' = [answer EXCEPT ![m] = "refused"]
  /\ UNCHANGED <<tasks, metrics>>

\* The default: the queue is full.
DropFull(m) ==
  /\ ~tasksClosed /\ Len(tasks) >= BufferSize /\ ~cancelled
  /\ answer' = [answer EXCEPT ![m] = "dropping"]
  /\ UNCHANGED <<tasks, metrics>>

Submit(m) ==
  /\ answer[m] = "none"
  /\ Send(m) \/ SendOnClosed(m) \/ SeeDone(m) \/ DropFull(m)
  /\ UNCHANGED <<tasksClosed, results, resultsClosed, cancelled, workers, handled, batch, stopper>>

\* Submit then waits for the mutex of the metrics, whatever happens to the pool.
CountDrop(m) ==
  /\ answer[m] = "dropping"
  /\ answer' = [answer EXCEPT ![m] = "refused"]
  /\ Dropped' = Dropped + 1
  /\ UNCHANGED <<channels, cancelled, workers, Processed, Errors, handled, batch, stopper>>

SubmitBlocking(m) == Send(m) \/ SendOnClosed(m) \/ SeeDone(m)

----------------------------------------------------------------------------
(* The worker goroutine.                                                   *)

\* Mutant: the message is looked at and taken off the queue at the end.
ReceivePeeking(w) ==
  /\ pc[w] = "select" /\ tasks # << >>
  /\ hand' = [hand EXCEPT ![w] = Head(tasks)]
  /\ pc' = [pc EXCEPT ![w] = "handle"]
  /\ UNCHANGED <<channels, cancelled, metrics, answer, handled, batch, stopper>>

Receive(w) ==
  /\ pc[w] = "select" /\ tasks # << >>
  /\ hand' = [hand EXCEPT ![w] = Head(tasks)]
  /\ tasks' = Tail(tasks)
  /\ pc' = [pc EXCEPT ![w] = "handle"]
  /\ UNCHANGED <<tasksClosed, results, resultsClosed, cancelled, metrics, answer, handled, batch, stopper>>

\* The handler returns.
Handle(w) ==
  /\ pc[w] = "handle"
  /\ handled' = [handled EXCEPT ![hand[w]] = @ + 1]
  /\ pc' = [pc EXCEPT ![w] = "count"]
  /\ UNCHANGED <<channels, cancelled, hand, metrics, answer, batch, stopper>>

\* Mutant: Processed is incremented before the error is looked at.
CountBoth(w) ==
  /\ pc[w] = "count"
  /\ Errors' = Errors + (IF hand[w] \in Failing THEN 1 ELSE 0) /\ Processed' = Processed + 1
  /\ pc' = [pc EXCEPT ![w] = "report"]
  /\ UNCHANGED <<channels, cancelled, hand, Dropped, answer, handled, batch, stopper>>

\* Mutant: an error ends the goroutine.
CountOrDie(w) ==
  /\ pc[w] = "count"
  /\ \/ hand[w] \in Failing /\ Errors' = Errors + 1 /\ UNCHANGED Processed
     \/ hand[w] \notin Failing /\ Processed' = Processed + 1 /\ UNCHANGED Errors
  /\ pc' = [pc EXCEPT ![w] = IF hand[w] \in Failing THEN "gone" ELSE "report"]
  /\ UNCHANGED <<channels, cancelled, hand, Dropped, answer, handled, batch, stopper>>

\* The metrics are updated under their mutex.
CountOutcome(w) ==
  /\ pc[w] = "count"
  /\ \/ hand[w] \in Failing /\ Errors' = Errors + 1 /\ UNCHANGED Processed
     \/ hand[w] \notin Failing /\ Processed' = Processed + 1 /\ UNCHANGED Errors
  /\ pc' = [pc EXCEPT ![w] = "report"]
  /\ UNCHANGED <<channels, cancelled, hand, Dropped, answer, handled, batch, stopper>>

\* Mutant: the fullness of the results channel is off by one.
ReportOffByOne(w) ==
  /\ pc[w] = "report"
  /\ \/ Len(results) <= BufferSize /\ results' = Append(results, hand[w])
     \/ Len(results) > BufferSize /\ UNCHANGED results
  /\ pc' = [pc EXCEPT ![w] = "select"]
  /\ hand' = [hand EXCEPT ![w] = None]
  /\ UNCHANGED <<tasks, tasksClosed, resultsClosed, cancelled, metrics, answer, handled, batch, stopper>>

\* Mutant: the send of the result has no default.
ReportBlocking(w) ==
  /\ pc[w] = "report" /\ Len(results) < BufferSize
  /\ results' = Append(results, hand[w])
  /\ pc' = [pc EXCEPT ![w] = "select"]
  /\ hand' = [hand EXCEPT ![w] = None]
  /\ UNCHANGED <<tasks, tasksClosed, resultsClosed, cancelled, metrics, answer, handled, batch, stopper>>

\* The result of a message is identified by the message.  A full results channel
\* loses it.
Report(w) ==
  /\ pc[w] = "report"
  /\ \/ Len(results) < BufferSize /\ results' = Append(results, hand[w])
     \/ Len(results) >= BufferSize /\ UNCHANGED results
  /\ pc' = [pc EXCEPT ![w] = "select"]
  /\ hand' = [hand EXCEPT ![w] = None]
  /\ UNCHANGED <<tasks, tasksClosed, resultsClosed, cancelled, metrics, answer, handled, batch, stopper>>

Leave(w) ==
  /\ pc[w] = "select" /\ cancelled
  /\ pc' = [pc EXCEPT ![w] = "gone"]
  /\ UNCHANGED <<channels, cancelled, hand, metrics, answer, handled, batch, stopper>>

Worker(w) == Receive(w) \/ Handle(w) \/ CountOutcome(w) \/ Report(w) \/ Leave(w)

----------------------------------------------------------------------------
(* Batch: submit everything, then take that many results off the channel.  *)

BatchSubmit(b) ==
  LET m == BatchOf[b][batch[b].next]
  IN  /\ batch[b].pc = "submit"
      /\ SubmitBlocking(m)
      /\ batch' = [batch EXCEPT
           ![b].next = @ + 1,
           ![b].pc = IF answer'[m] = "panicked" THEN "panicked"
                     ELSE IF batch[b].next = Len(BatchOf[b]) THEN "collect" ELSE "submit"]
      /\ UNCHANGED <<tasksClosed, results, resultsClosed, cancelled, workers, handled, stopper>>

\* Mutant: results are read and left in the channel.
BatchCollectPeeking(b) ==
  /\ batch[b].pc = "collect" /\ results # << >>
  /\ LET got == Append(batch[b].got, Head(results))
     IN  batch' = [batch EXCEPT
           ![b].got = got,
           ![b].pc = IF Len(got) = Len(BatchOf[b]) THEN "complete" ELSE "collect"]
  /\ UNCHANGED <<channels, cancelled, workers, metrics, answer, handled, stopper>>

\* One more result; a closed and empty channel yields nil for ever.
BatchCollect(b) ==
  /\ batch[b].pc = "collect"
  /\ \/ results # << >> /\ results' = Tail(results)
     \/ results = << >> /\ resultsClosed /\ UNCHANGED results
  /\ LET got == Append(batch[b].got, IF results = << >> THEN None ELSE Head(results))
     IN  batch' = [batch EXCEPT
           ![b].got = got,
           ![b].pc = IF Len(got) = Len(BatchOf[b]) THEN "complete" ELSE "collect"]
  /\ UNCHANGED <<tasks, tasksClosed, resultsClosed, cancelled, workers, metrics, answer, handled, stopper>>

\* Mutant: no timer, only the context of the pool.
BatchGiveUpCancelled(b) ==
  /\ batch[b].pc = "collect" /\ cancelled
  /\ batch' = [batch EXCEPT ![b].pc = "partial"]
  /\ UNCHANGED <<channels, cancelled, workers, metrics, answer, handled, stopper>>

\* The 30 seconds are over, or the context of the caller is done.
BatchGiveUp(b) ==
  /\ batch[b].pc = "collect"
  /\ batch' = [batch EXCEPT ![b].pc = "partial"]
  /\ UNCHANGED <<channels, cancelled, workers, metrics, answer, handled, stopper>>

Batch(b) == BatchSubmit(b) \/ BatchCollect(b) \/ BatchGiveUp(b)

----------------------------------------------------------------------------
(* Shutting down.                                                          *)

\* The context the pool was made with is cancelled by its owner.
CancelParent ==
  /\ ~cancelled /\ cancelled' = TRUE
  /\ UNCHANGED <<channels, workers, metrics, answer, handled, batch, stopper>>

\* Mutant: Stop waits for the workers without cancelling them.
StopUncancelled ==
  /\ stopper = "none" /\ stopper' = "wait"
  /\ UNCHANGED <<channels, cancelled, workers, metrics, answer, handled, batch>>

StopCancel ==
  /\ stopper = "none" /\ stopper' = "wait" /\ cancelled' = TRUE
  /\ UNCHANGED <<channels, workers, metrics, answer, handled, batch>>

\* Mutant: the channel is closed without waiting for the workers.
StopCloseTasksAtOnce ==
  /\ stopper = "wait"
  /\ tasksClosed' = TRUE /\ stopper' = "close"
  /\ UNCHANGED <<tasks, results, resultsClosed, cancelled, workers, metrics, answer, handled, batch>>

StopCloseTasks ==
  /\ stopper = "wait" /\ \A w \in Workers : pc[w] = "gone"
  /\ tasksClosed' = TRUE /\ stopper' = "close"
  /\ UNCHANGED <<tasks, results, resultsClosed, cancelled, workers, metrics, answer, handled, batch>>

StopCloseResults ==
  /\ stopper = "close"
  /\ resultsClosed' = TRUE /\ stopper' = "stopped"
  /\ UNCHANGED <<tasks, tasksClosed, results, cancelled, workers, metrics, answer, handled, batch>>

Stop == StopCancel \/ StopCloseTasks \/ StopCloseResults

Next ==
  \/ \E m \in Async : Submit(m) \/ CountDrop(m)
  \/ \E w \in Workers : Worker(w)
  \/ \E b \in Batches : Batch(b)
  \/ CancelParent
  \/ Stop

Spec == Init /\ [][Next]_vars

\* The Go scheduler runs every goroutine that can run: the workers, whose handler
\* returns; a call of Batch, whose timer fires; a call of Stop once made.
Fairness ==
  /\ \A w \in Workers : WF_vars(Worker(w))
  /\ \A b \in Batches : WF_vars(Batch(b))
  /\ WF_vars(StopCloseTasks \/ StopCloseResults)

FairSpec == Spec /\ Fairness

----------------------------------------------------------------------------
(* What callers can observe.                                               *)

QueueSize == Len(tasks)

\* int(float64(wp.bufferSize) * 0.9)
IsHealthy == ~cancelled /\ QueueSize < (9 * BufferSize) \div 10

----------------------------------------------------------------------------
(* Properties.                                                             *)

BatchState == {"submit", "collect", "complete", "partial", "panicked"}

\* The variables keep their types and the channels their capacity.
TypeOK ==
  /\ tasks \in Seq(Message) /\ Len(tasks) <= BufferSize
  /\ results \in Seq(Message) /\ Len(results) <= BufferSize
  /\ tasksClosed \in BOOLEAN /\ resultsClosed \in BOOLEAN /\ cancelled \in BOOLEAN
  /\ pc \in [Workers -> {"select", "handle", "count", "report", "gone"}]
  /\ hand \in [Workers -> Message \cup {None}]
  /\ Processed \in Nat /\ Errors \in Nat /\ Dropped \in Nat
  /\ answer \in [Message -> {"none", "dropping", "accepted", "refused", "panicked"}]
  /\ handled \in [Message -> Nat]
  /\ batch \in [Batches -> [pc : BatchState, next : Nat, got : Seq(Message \cup {None})]]
  /\ stopper \in {"none", "wait", "close", "stopped"}

Count(m, seq) == Cardinality({i \in DOMAIN seq : seq[i] = m})

Holders(m) == {w \in Workers : pc[w] = "handle" /\ hand[w] = m}

\* A message Submit said yes to is in one place: in the queue, in the hands of one
\* worker, or handled, once; a message it said no to is nowhere.
EachAcceptedOnce ==
  \A m \in Message :
    Count(m, tasks) + Cardinality(Holders(m)) + handled[m]
      = IF answer[m] = "accepted" THEN 1 ELSE 0

Handled == {m \in Message : handled[m] > 0}
Refused == {m \in Message : answer[m] = "refused"}
Uncounted == {w \in Workers : pc[w] = "count"}
Pending == {hand[w] : w \in Uncounted}

\* A handled message is counted once, by its outcome, or still in the hands of the
\* worker that will count it.
OutcomesCounted ==
  /\ Pending \subseteq Handled
  /\ Processed = Cardinality((Handled \ Pending) \ Failing)
  /\ Errors = Cardinality((Handled \ Pending) \cap Failing)

\* The metrics the service serves add up; until the pool is cancelled each refusal that
\* a caller has got is a drop, counted once.
MetricsAddUp ==
  /\ OutcomesCounted
  /\ ~cancelled => Dropped = Cardinality(Refused)

\* No worker is left that could send on the closed results channel, or hold a
\* message nobody waits for.
ClosedChannelsAreQuiet ==
  tasksClosed \/ resultsClosed =>
    cancelled /\ \A w \in Workers : pc[w] = "gone" /\ hand[w] = None

\* A worker holds a message exactly while it works on it, no two workers handle
\* one, and where a message is agrees with what its sender was told.
MessagesInOnePlace ==
  /\ IsInjective(tasks)
  /\ \A w \in Workers : hand[w] = None <=> pc[w] \in {"select", "gone"}
  /\ \A w, u \in Workers :
       pc[w] = "handle" /\ pc[u] = "handle" /\ hand[w] = hand[u] => w = u
  /\ \A w \in Workers : pc[w] = "handle" =>
       /\ answer[hand[w]] = "accepted" /\ handled[hand[w]] = 0
       /\ hand[w] \notin Range(tasks)
  /\ \A m \in Range(tasks) : answer[m] = "accepted" /\ handled[m] = 0
  /\ \A m \in Message : handled[m] > 0 => handled[m] = 1 /\ answer[m] = "accepted"
  /\ \A m \in Message : answer[m] = "accepted" =>
       m \in Range(tasks) \/ handled[m] = 1 \/ Holders(m) # {}

\* A call of Batch has not submitted the messages it has not come to.
RestOfBatchIsNew ==
  \A b \in Batches :
    /\ batch[b].next >= 1
    /\ batch[b].pc = "submit" => batch[b].next \in DOMAIN BatchOf[b]
    /\ \A i \in DOMAIN BatchOf[b] : i >= batch[b].next => answer[BatchOf[b][i]] = "none"

\* The channels are closed in the order of Stop, after the last worker has left.
StopInOrder ==
  /\ stopper # "none" => cancelled
  /\ tasksClosed <=> stopper \in {"close", "stopped"}
  /\ resultsClosed <=> stopper = "stopped"
  /\ tasksClosed => \A w \in Workers : pc[w] = "gone"

OncePerMessage(seq) == \A i, j \in DOMAIN seq : seq[i] = seq[j] /\ seq[i] # None => i = j
AtWork == {w \in Workers : pc[w] \in {"count", "report"}}

\* The result of a handled message is in one place: with the worker that will report
\* it, in the channel of results, or read by one call of Batch, which reads as many
\* as it has messages and reads nothing else before the channel is closed.
ResultsInOnePlace ==
  /\ \A w \in AtWork : hand[w] \in Handled \ Range(results)
  /\ \A w, u \in AtWork : hand[w] = hand[u] => w = u
  /\ IsInjective(results) /\ Range(results) \subseteq Handled
  /\ \A b \in Batches : LET got == batch[b].got IN
       /\ Range(got) \subseteq Handled \cup {None}
       /\ None \in Range(got) => resultsClosed
       /\ \A w \in AtWork : hand[w] \notin Range(got)
       /\ Range(got) \cap Range(results) = {}
       /\ OncePerMessage(got)
       /\ batch[b].pc = "complete" => Len(got) = Len(BatchOf[b])
  /\ \A b, d \in Batches :
       b # d => Range(batch[b].got) \cap Range(batch[d].got) \subseteq {None}

\* The invariant from which WorkerPoolProofs derives the safety properties.
PoolInv ==
  /\ TypeOK
  /\ MessagesInOnePlace
  /\ RestOfBatchIsNew
  /\ StopInOrder
  /\ ResultsInOnePlace

\* What the metrics count is finite, and they count it once.
MetricsInv == IsFiniteSet(Handled) /\ IsFiniteSet(Refused) /\ MetricsAddUp

\* The pool keeps the promise of TaskLedger.
Ledger ==
  INSTANCE TaskLedger WITH
    Limit  <- BufferSize + Cardinality(Workers),
    open   <- ~tasksClosed,
    status <- [m \in Message |->
                 IF handled[m] > 0 THEN "handled"
                 ELSE IF answer[m] = "none" THEN "new"
                 ELSE IF answer[m] = "accepted" THEN "accepted"
                 ELSE "refused"]

ImplementsLedger == Ledger!Spec

\* Stop returns: the workers see the cancelled context although tasks remain.
StopReturns == stopper = "wait" ~> stopper = "stopped"

\* A call of Batch returns, whoever takes its results.
BatchReturns ==
  \A b \in Batches : <>(batch[b].pc \in {"complete", "partial", "panicked"})

\* worker.go:196, "Stop gracefully shuts down the worker pool.": what was accepted
\* is handled when Stop returns.
StopIsGraceful ==
  stopper = "stopped" => \A m \in Message : answer[m] = "accepted" => handled[m] > 0

\* worker.go:241, "Batch processes a batch of messages and waits for all results.":
\* a call that neither timed out nor was stopped has the results of its messages.
BatchGetsItsResults ==
  \A b \in Batches :
    batch[b].pc = "complete" /\ ~cancelled => Range(batch[b].got) = Range(BatchOf[b])

\* It holds of a call whose messages are the only ones the pool has ever accepted: what
\* a call leaves unread when it times out goes to the next one.
LoneBatchGetsItsResults ==
  \A b \in Batches :
    /\ batch[b].pc = "complete" /\ ~cancelled
    /\ \A m \in Message \ Range(BatchOf[b]) : answer[m] # "accepted"
    => Range(batch[b].got) = Range(BatchOf[b])
==============================================================================
