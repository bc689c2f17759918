------------------------------ MODULE Ingestion ------------------------------
(***************************************************************************)
(* The ingestion service of cmd/ingestion/main.go: HTTP handlers that hand *)
(* log lines to a worker pool, whose workers run the template miner on     *)
(* them, a scraper of /metrics, and the main goroutine that shuts all of   *)
(* it down on a signal.                                                    *)
(*                                                                         *)
(* The pool and the miner are the modules WorkerPool and DrainTree; every  *)
(* step of the service is a step of one of them, of both (the handler of a *)
(* worker calls Parse), or of the HTTP layer beside them.  A request is    *)
(* the message of the pool it turns into.                                  *)
(***************************************************************************)
EXTENDS Integers, Sequences, FiniteSets, Functions

CONSTANTS
  Requests,     \* the HTTP requests clients send
  Form,         \* their method, path and "log" parameter
  NoLog,        \* the parameter is missing or empty
  Scrapes,      \* the requests for /metrics
  Workers, BufferSize, None,
  Word, Variable, Wild, MaxDepth, SimNum, SimDen, Hash(_), NoID

Code == {0, 200, 202, 400, 405, 503}

ASSUME FormAssumption ==
  /\ IsFiniteSet(Requests) /\ IsFiniteSet(Scrapes)
  /\ \A r \in Requests :
       /\ Form[r].method \in {"POST", "GET", "OPTIONS"}
       /\ Form[r].path \in {"/ingest", "/ingest/batch"}

ASSUME PoolAssumption ==
  /\ IsFiniteSet(Workers) /\ Workers # {}
  /\ BufferSize \in Nat \ {0}
  /\ None \notin Requests

Lines == {Form[r].log : r \in Requests} \ {NoLog}

\* A line of blanks passes the check of the handler and has no tokens.
Blank == {r \in Requests : Form[r].log = << >>}

\* The assumptions of the miner about its configuration, its tokens and its hash.
ASSUME ConfigAssumption ==
  /\ MaxDepth \in Nat \ {0}
  /\ SimNum \in Nat /\ SimDen \in Nat \ {0} /\ SimNum <= SimDen

ASSUME TokenAssumption ==
  /\ Wild \notin Word \cup Variable
  /\ Word \cap Variable = {}
  /\ Lines \subseteq Seq(Word \cup Variable \cup {Wild})

VARIABLES
  listening,               \* the server takes new connections
  request,                 \* per request: its progress, time stamp and status code
  scrape,                  \* per request for /metrics: what its handler has read
  main,                    \* the main goroutine
  tasks, tasksClosed, results, resultsClosed, cancelled, pc, hand,
  Processed, Errors, Dropped, answer, handled, batch, stopper,
  heap, clusters, tree, parsed

Pool == INSTANCE WorkerPool
  WITH Async <- Requests, Batches <- {}, BatchOf <- << >>, Failing <- Blank

Miner == INSTANCE DrainTree
  WITH Logs <- Lines, Timestamps <- 1..Cardinality(Requests),
       MaxParses <- Cardinality(Requests)

ASSUME HashAssumption ==
  /\ \A l, m \in Lines : Hash(Miner!Preprocess(l)) = Hash(Miner!Preprocess(m))
                           => Miner!Preprocess(l) = Miner!Preprocess(m)
  /\ \A l \in Lines : Hash(Miner!Preprocess(l)) # NoID

http  == <<listening, request, scrape>>
pool  == <<tasks, tasksClosed, results, resultsClosed, cancelled, pc, hand,
           Processed, Errors, Dropped, answer, handled, batch, stopper>>
miner == <<heap, clusters, tree, parsed>>
vars  == <<http, main, pool, miner>>

Init ==
  /\ listening = TRUE
  /\ request = [r \in Requests |-> [pc |-> "new", stamp |-> 0, code |-> 0]]
  /\ scrape = [s \in Scrapes |-> [pc |-> "new", processed |-> 0, templates |-> 0, total |-> 0]]
  /\ main = "running"
  /\ Pool!Init
  /\ Miner!Init

----------------------------------------------------------------------------
(* Requests.  A handler runs up to the call of Submit, calls it, and writes *)
(* the answer.                                                              *)

\* The code of a request that is answered without Submit; 0 if it is submitted.
EarlyCode(form) ==
  CASE form.method = "OPTIONS" -> 200
    [] form.method = "GET"     -> 405
    [] form.method = "POST" /\ form.path = "/ingest/batch" -> 202
    [] form.method = "POST" /\ form.path = "/ingest" ->
         IF form.log = NoLog THEN 400 ELSE 0

\* time.Now() of the request that is stamped next.
Now == Cardinality({r \in Requests : request[r].stamp > 0}) + 1

AnswerEarly(r) ==
  /\ listening /\ request[r].pc = "new" /\ EarlyCode(Form[r]) # 0
  /\ request' = [request EXCEPT ![r].pc = "writing", ![r].code = EarlyCode(Form[r])]
  /\ UNCHANGED <<listening, scrape, main, pool, miner>>

Stamp(r) ==
  /\ listening /\ request[r].pc = "new" /\ EarlyCode(Form[r]) = 0
  /\ request' = [request EXCEPT ![r].pc = "stamped", ![r].stamp = Now]
  /\ UNCHANGED <<listening, scrape, main, pool, miner>>

\* Submit takes two steps to drop a message; a panic in it is caught by net/http, which
\* closes the connection.
Submit(r) ==
  /\ request[r].pc = "stamped" /\ main # "exited"
  /\ Pool!Submit(r) \/ Pool!CountDrop(r)
  /\ request' = IF answer'[r] = "dropping" THEN request ELSE [request EXCEPT
       ![r].pc = IF answer'[r] = "panicked" THEN "cut" ELSE "writing",
       ![r].code = CASE answer'[r] = "accepted" -> 202
                     [] answer'[r] = "refused"  -> 503
                     [] answer'[r] = "panicked" -> 0]
  /\ UNCHANGED <<listening, scrape, main, miner>>

Write(r) ==
  /\ request[r].pc = "writing" /\ main # "exited"
  /\ request' = [request EXCEPT ![r].pc = "replied"]
  /\ UNCHANGED <<listening, scrape, main, pool, miner>>

Handler(r) == AnswerEarly(r) \/ Stamp(r) \/ Submit(r) \/ Write(r)

----------------------------------------------------------------------------
(* The workers, whose handler is processLog.                               *)

\* Mutant: the miner sees the line when a worker takes it, and again.
ProcessLogTwice(w) ==
  \/ Pool!Receive(w) /\ Miner!Parse(Form[hand'[w]].log, request[hand'[w]].stamp)
  \/ Pool!Handle(w) /\ Miner!Parse(Form[hand[w]].log, request[hand[w]].stamp)

ProcessLog(w) ==
  \/ Pool!Receive(w) /\ UNCHANGED miner
  \/ Pool!Handle(w) /\ Miner!Parse(Form[hand[w]].log, request[hand[w]].stamp)

Worker(w) ==
  /\ main # "exited"
  /\ \/ ProcessLog(w)
     \/ Pool!CountOutcome(w) /\ UNCHANGED miner
     \/ Pool!Report(w) /\ UNCHANGED miner
     \/ Pool!Leave(w) /\ UNCHANGED miner
  /\ UNCHANGED <<http, main>>

----------------------------------------------------------------------------
(* /metrics reads the pool and then the miner, each under its own mutex.   *)

ReadMetrics(s) ==
  /\ listening /\ scrape[s].pc = "new"
  /\ scrape' = [scrape EXCEPT ![s].pc = "half", ![s].processed = Processed]
  /\ UNCHANGED <<listening, request, main, pool, miner>>

ReadStats(s) ==
  /\ scrape[s].pc = "half" /\ main # "exited"
  /\ scrape' = [scrape EXCEPT ![s].pc = "served", ![s].templates = Miner!ClusterCount,
                              ![s].total = Miner!TotalLogs]
  /\ UNCHANGED <<listening, request, main, pool, miner>>

\* Mutant: the miner is read first.
ScrapeStatsFirst(s) ==
  /\ \/ /\ listening /\ scrape[s].pc = "new"
        /\ scrape' = [scrape EXCEPT ![s].pc = "half", ![s].templates = Miner!ClusterCount,
                                    ![s].total = Miner!TotalLogs]
     \/ /\ scrape[s].pc = "half" /\ main # "exited"
        /\ scrape' = [scrape EXCEPT ![s].pc = "served", ![s].processed = Processed]
  /\ UNCHANGED <<listening, request, main, pool, miner>>

Scrape(s) == ReadMetrics(s) \/ ReadStats(s)

----------------------------------------------------------------------------
(* Shutting down.                                                          *)

\* SIGINT or SIGTERM: main cancels the context of the server and the pool.
Signal ==
  /\ main = "running" /\ main' = "stopping"
  /\ Pool!CancelParent
  /\ UNCHANGED <<http, miner>>

\* The goroutine that waits for the context closes the listener.
Shutdown ==
  /\ cancelled /\ listening /\ main # "exited" /\ listening' = FALSE
  /\ UNCHANGED <<request, scrape, main, pool, miner>>

Stop ==
  /\ main = "stopping"
  /\ Pool!Stop
  /\ UNCHANGED <<http, main, miner>>

\* main returns, and with it every goroutine ends.
Exit ==
  /\ main = "stopping" /\ stopper = "stopped" /\ main' = "exited"
  /\ listening' = FALSE
  /\ request' = [r \in Requests |->
       IF request[r].pc \in {"stamped", "writing"} THEN [request[r] EXCEPT !.pc = "cut"]
       ELSE request[r]]
  /\ UNCHANGED <<scrape, pool, miner>>

Next ==
  \/ \E r \in Requests : Handler(r)
  \/ \E w \in Workers : Worker(w)
  \/ \E s \in Scrapes : Scrape(s)
  \/ Signal \/ Shutdown \/ Stop \/ Exit

Spec == Init /\ [][Next]_vars

\* Handlers, workers and main are goroutines the scheduler runs.  Nobody has to send
\* a request or a signal.
Fairness ==
  /\ \A r \in Requests : WF_vars(Submit(r) \/ Write(r))
  /\ \A w \in Workers : WF_vars(Worker(w))
  /\ WF_vars(Stop) /\ WF_vars(Exit)

FairSpec == Spec /\ Fairness

----------------------------------------------------------------------------
(* Properties.                                                             *)

\* The variables of the HTTP layer keep their types; those of the pool and of the
\* miner have the types their modules give them.
TypeOK ==
  /\ listening \in BOOLEAN
  /\ request \in [Requests -> [pc : {"new", "stamped", "writing", "replied", "cut"},
                               stamp : 0..Cardinality(Requests), code : Code]]
  /\ scrape \in [Scrapes -> [pc : {"new", "half", "served"},
                             processed : Nat, templates : Nat, total : Nat]]
  /\ main \in {"running", "stopping", "exited"}
  /\ Pool!TypeOK /\ Miner!TypeOK

\* A request is stamped before it is submitted, and only a request with a line is.
RequestsInOrder ==
  \A r \in Requests :
    /\ request[r].pc = "new" => request[r].stamp = 0 /\ answer[r] = "none"
    /\ request[r].pc = "stamped" \/ answer[r] # "none" =>
         EarlyCode(Form[r]) = 0 /\ request[r].stamp # 0

\* The two halves of the service count alike: the lines the miner holds are those
\* the pool has counted as processed and those between the handler and the count.
MinerMatchesPool ==
  Miner!TotalLogs
    = Processed + Cardinality({w \in Workers : pc[w] = "count" /\ hand[w] \notin Blank})

\* What /metrics serves is consistent although it reads the pool and the miner at
\* two moments: no processed line is missing from total_logs, no template is empty.
ScrapeIsConsistent ==
  \A s \in Scrapes :
    scrape[s].pc = "served" =>
      scrape[s].processed <= scrape[s].total /\ scrape[s].templates <= scrape[s].total

\* Each line is mined once, by its own request: the results of Parse and the
\* requests the pool has handled correspond one to one.
EachLineMinedOnce ==
  \A line \in Lines :
    Cardinality({n \in DOMAIN parsed : parsed[n].log = line})
      = Cardinality({r \in Requests : Form[r].log = line /\ handled[r] > 0})

\* The results of Parse that carry an id are as many as the handled lines that have
\* tokens: processLog returns an error exactly for the others.
MinedAreHandled ==
  Cardinality({n \in DOMAIN parsed : parsed[n].TemplateID # NoID})
    = Cardinality(Pool!Handled \ Blank)

\* Whatever a scrape has read of the pool, the miner has counted before.
ScrapesLagBehind ==
  \A s \in Scrapes : scrape[s].pc = "half" => scrape[s].processed <= Miner!TotalLogs

\* The miner is called once per handled message: the bound on its calls never keeps
\* a worker from its next one.
EachCallHasItsRequest == Len(parsed) = Cardinality(Pool!Handled)

\* The invariant of the service, of its pool and of its miner.
ServiceInv ==
  /\ TypeOK
  /\ Pool!PoolInv /\ Pool!MetricsInv /\ Miner!MinerInv
  /\ RequestsInOrder
  /\ EachCallHasItsRequest
  /\ MinedAreHandled
  /\ ScrapesLagBehind

Dropping == {r \in Requests : answer[r] = "dropping"}

OnlyDropsAreCounted ==
  /\ UNCHANGED <<miner, Processed, Errors>>
  /\ Dropping' \subseteq Dropping
  /\ Dropped' = Dropped + Cardinality(Dropping \ Dropping')

\* Once Stop has closed the pool nothing is mined any more and the numbers of processed
\* lines and of errors it logs are the last.  The number of drops is not: a handler that
\* found the queue full before may still come to count it, once, and no other does.
NothingRunsAfterStop ==
  [][(stopper \in {"close", "stopped"}) => OnlyDropsAreCounted]_vars

\* main returns after the signal, whatever requests are open and lines queued.
ShutdownEnds == main = "stopping" ~> main = "exited"

InTemplate(line) ==
  \E n \in DOMAIN parsed : parsed[n].log = line /\ parsed[n].TemplateID # NoID

\* Unless the service is told to stop, a line that was answered 202 by /ingest gets the
\* id of a template.  A line of blanks is answered 202 as well: it gets none and all
\* that is left of it is the count of an error.
AcceptedIsMined ==
  \A r \in Requests :
    request[r].code = 202 /\ Form[r].path = "/ingest"
      ~> cancelled \/ IF r \in Blank THEN handled[r] = 1 /\ Errors > 0 ELSE InTemplate(Form[r].log)

\* main.go:249, "Stop gracefully shuts down the service.": no request whose handler
\* runs is cut off by it, by the end of the process or by a panic in Submit.
OpenRequestsAreAnswered == \A r \in Requests : request[r].pc # "cut"
==============================================================================
