# Log-Zero: a TLA+ model

Log-Zero is a set of Go services that take log lines in, reduce them to
templates and variables, watch for anomalies and ask a language model for
causes and fixes. This directory holds TLA+ modules of its stateful parts, TLC
configurations that check them on small instances, and TLAPS proofs. Paths below
are relative to `src/`.

## 1. Inventory

| Component | State | Operations | Hard behaviour | Correct when |
|---|---|---|---|---|
| Drain miner, `internal/compression/drain` | prefix tree of clusters, id map, both holding pointers to the same cluster objects | `Parse`, `GetCluster`, `GetAllClusters`, `ClusterCount`, `GetStats` | templates change in place while the tree and the ids were computed from the first line; walks without backtracking; readers keep pointers after the lock | ids are unique and permanent, templates only generalize, never coincide, stay in their leaf, keep covering their lines, results lose nothing |
| Worker pool, `internal/pipeline` | two bounded channels, context, workers, metrics | `Submit`, `SubmitBlocking`, `Batch`, `Start`, `Stop`, `GetMetrics`, `IsHealthy` | select races, shutdown while callers submit, one results channel for all callers | accepted messages are handled once, metrics add up, shutdown and `Batch` terminate |
| Ingestion service, `cmd/ingestion` | one pool, one miner, the open requests | `/ingest`, `/ingest/batch`, `/health`, `/metrics`, `main` | 202 before processing, `/metrics` read at two moments, `main` returns while handlers run | the numbers agree, an accepted line is mined, once, unless the service stops, shutdown ends |
| Compression service, `cmd/compression` | one miner, one redactor | `CompressLog`, `/health`, `/stats`; `GetTemplates`, `GetTemplate` have no caller yet | the template is returned as the miner has it, only variables are redacted, one by one | what is returned is the line with each token redacted |
| PII redactor, `internal/compression/pii` | rule map, enabled flag | `Redact`, `RedactVariables`, `DetectPII` | rules run in map order on each other's output | no rule hides the match of another |
| Anomaly service, `cmd/anomaly` | points, baselines, bounded alert channel | `RecordError`, `RecordVolume`, the alert processor, `main` | a send under the lock, a reader that holds it while it writes to its client, points recorded out of order, a stop between two alerts | a steady source is quiet, alerts stay in order, only that reader holds records up |
| Experience service, `cmd/experience` | map of experiences | `Store`, `SearchSimilar`, `SubmitFeedback`, `GetStats`, `/list`, `main` | a map without lock, memory only | what was answered is kept and read |
| Agent service, `cmd/agent`, and LLM client, `internal/agent/llm` | calls in progress | `Analyze`, `GenerateFix`, `GenerateEmbedding`, `GenerateFixStream` | 60 s calls behind a 30 s proxy, a model that never answers | calls return, 200 means a usable answer |
| Gateway, `cmd/gateway` | requests in progress, a WebSocket | proxying, static answers, `/ws`, `main` | timeouts, connections that break, shutdown | requests are answered once and truly, the process ends |
| Redis client, `internal/storage/redis` | keys in the server, a pool of connections | rate limit, job queue, template cache, counters, publish and subscribe | pipelines that are no transactions, blocking pops, commands that are sent again | the limit holds per window, calls return |
| Postgres client, `internal/storage/postgres` | three tables | schema, experiences, feedback, references, listings, alerts, statistics | lost answers, concurrent installers, paging under inserts by an order with ties, pages cut off without an error | the schema gets complete, an uncut listing misses nothing that has a time of its own |
| ClickHouse client, `internal/storage/clickhouse` | two tables, a view | schema, inserts, batches, queries, statistics | a batch that fails halfway, in one month of two, a view that comes late, rows that expire, answers cut off without an error | batches are whole in each month, the view counts what was stored, queries show what was answered |
| Qdrant client, models, errors, logger, prompts, generator, dashboard, scripts, protos | none | pure or I/O | - | - |

Calls go from the dashboard to the gateway, from the gateway over HTTP to the
ingestion, agent and experience services; ingestion hands
messages to its pool, whose workers call the miner; compression calls a miner of
its own. The storage clients are libraries that no service constructs yet.

The hazards, each at its line and with the properties that guard it, are listed
in `PROJECT.json`.

## 2. Plan

1. `DrainTree`, `DrainTreeProofs` (done): the algorithm everything depends on.
2. `TaskLedger`, `WorkerPool`, `WorkerPoolProofs` (done): the concurrency of
   ingestion, where every message is, the refinement of `TaskLedger`.
3. `Ingestion`, `IngestionProofs` (done): handlers, pool, miner and `main` composed;
   what is proved of the parts holds of them inside the service.
4. `Gateway`, `Experience`, `LLMClient`, `Agent`, `Platform`, `PlatformProofs` (done):
   what a client of the gateway sees of three processes and a language model.
5. `Anomaly`, `Redactor`, `Compression`, `RedisClient`, `PostgresClient`,
   `ClickHouseClient` (done): the parts that work by themselves; `AnomalyProofs`,
   `CompressionProofs`, and `StoresProofs` for the three clients of stores.
6. `Backends`, `BackendsProofs` (done): these parts and `LLMClient` beside one another,
   and the conjunction of their invariants.

Every safety invariant a passing run checks is a theorem. Open is what section 5 lists
as only model-checked.

Which module uses which:

    DrainTree <- DrainTreeProofs, MCDrainTree, Ingestion, Compression
    TaskLedger <- WorkerPool <- WorkerPoolProofs, MCWorkerPool, Ingestion
    Ingestion <- MCIngestion
    Ingestion, DrainTreeProofs, WorkerPoolProofs <- IngestionProofs
    LLMClient <- Agent;  Gateway, Experience, Agent <- Platform
    Platform <- MCPlatform, PlatformProofs
    Redactor, DrainTree <- Compression
    Anomaly, Compression, RedisClient, PostgresClient, ClickHouseClient,
      LLMClient <- Backends <- MCBackends
    Anomaly <- AnomalyProofs;  Compression, DrainTreeProofs <- CompressionProofs
    RedisClient, PostgresClient, ClickHouseClient <- StoresProofs
    Backends, AnomalyProofs, CompressionProofs, StoresProofs <- BackendsProofs

## 3. Modules

### DrainTree

One call of `Parse` is one step, because it holds `dt.mu` throughout. `heap` is
the sequence of all `LogCluster` objects in order of creation, a pointer is an
index into it; `clusters` is `dt.clusters`; `tree` maps the path of a node (the
length of the line, then leading tokens) to its `Clusters`; `parsed` is a
history of what each call returned. `ParseEmpty`, `ParseNew` and `ParseKnown` are
the three ways `Parse` returns. The walk of `treeSearch` is the set of nodes
`Visited`, whose deepest member it ends in; `LeafPath` is where `addToTree`
inserts. Tokens are model values divided into those `isVariable` accepts and
rejects; the template string is the token sequence it joins; the hash is a
constant operator assumed to separate the token sequences that occur.
Similarities of one list have one denominator, so they are compared as counts and
the threshold is a fraction. `Config.MaxClusters` and `MaxChildren` do not appear: the
code stores them and reads neither, so that no list and no map of the tree is bounded
(`drain.go:60` says otherwise).

### WorkerPool and TaskLedger

Each `select` is one step taking any ready case. A goroutine that has not reached
its `select` yet behaves like one parked in it, so parked goroutines are not
modelled apart. Messages of `Async` are requests that call `Submit` at any time;
each member of `Batches` is a call of `Batch` that submits its messages in order
and then collects. `Handle` is the handler, whose outcome depends on the message,
`CountOutcome` the metrics after it; `handled` is a history. A `Submit` that finds the
queue full decides so in `DropFull` and counts it in `CountDrop`, with any steps between,
`Stop` included. `CancelParent` is the cancellation of the
context the pool was made with, `StopCancel`, `StopCloseTasks` and
`StopCloseResults` are the steps of `Stop`. A panic in `Submit` ends the call
(`net/http` recovers it). `TaskLedger` is the pool as its callers see it: a
message is answered once, handled at most once and only while the pool is open.

### Ingestion

Composes the two: `Pool` and `Miner` are instances of `WorkerPool` and `DrainTree`
over the same variables, a request is the message it turns into, and the handler
of a worker is one step of both (`Pool!Handle` and `Miner!Parse`, in `ProcessLog`).
`request` holds each request's progress, the time stamp its handler took (the
order of the stamps is the order of `time.Now()`, the order of parsing need not be)
and its status code; `AnswerEarly` covers the answers given without `Submit`,
`Stamp`, `Submit` and `Write` the others. `ReadMetrics` and `ReadStats` are the two
reads of `/metrics`. `Signal`, `Stop` and `Exit` are `main`; `Shutdown` is the
goroutine that closes the listener, for which `main` does not wait. `Exit` cuts the
requests whose handlers still run. `net/http` recovers a panic of a handler and
closes its connection. `/health` is `IsHealthy` of `WorkerPool`; redaction rewrites
a result that nobody stores.

### Gateway, Experience, LLMClient, Agent and their composition, Platform

`wire` is the HTTP exchange between the gateway and a service: the request was sent,
the status line has come, the body too, or the connection broke before or after the
status line, or the gateway hung up. It is the one variable all three processes
write. `conn` is the request as the gateway's client sees it, with what was
answered before it was sent (`after`), `call` and `task` are the handlers of the two
services.

`Forward`, `Resend`, `BadGateway` and `Relay` are `proxyRequest`: 502 when nobody
listens, the connection breaks or the 30 s are over before the status; otherwise the
status of the service with whatever `io.ReadAll` read, for its error is dropped.
`net/http` may send a GET again on a reused connection, never a POST whose body was
read. `RefuseUpload` is the fate of an upload: the gateway sends it on as JSON, and
`/ingest` takes its line from a form parameter. `Signal` and `ShutdownReturns` are
the goroutine of `main`; there is no step that ends the process but `Kill`.

`Experience` separates entering the map from the access to it, so that handlers
overlap. Two that overlap, one of them a store, race: the runtime may end the
process (`Fatal`), a reader may see any part of the map (`Collect`), two stores may
lose any entry (`Store`). `raced` records the pairs, and the properties leave out
the answers of those that met a race, and all of a process in which stores raced
(`Clobbered`), because the code promises nothing then. `Encode` happens after the
handler has left the map, from live pointers. `End` takes the memory along; `Start`
is the next process. `Contains` is the filter of a search: it compares lengths, so that a
longer signature contains every shorter one.

`LLMClient` is an exchange per call. Only the two chat calls have a timeout of their
own; the model answers, fails or stays silent. `Agent` calls it under the context of the
request, which `net/http` ends when a connection it watches is closed. It watches once
the body is read to its end, which the decoder may not have done: the gateway's body
goes out in chunks of unknown length. Hence `watched`.

One tick of `Platform` is 30 s: the timeout of the proxy is one, that of the model
two. What the platform assumes of them is `ProxyTimeout < LLMTimeout`.

### Anomaly

A handler takes the time of its point, waits for the mutex (`handlers`, a bag) and
records under it, so that points come in any order of their times. `Record` is one
step: append, compute the baseline at the first check, compare, send with a default.
A baseline is kept as count, sum and sum of squares, and compared by
cross-multiplication: exact where the code has `float64`, and therefore stated of
whole-number volumes only. `Process` and `ProcessorEnds` are the two cases of the
processor's `select`. `BeginRead` and `EndRead` are `/baselines`, which keeps the mutex for
reading while it writes to its client: no time limit ends that, and `EndRead` is not fair.
A record may wait so long that no point is recent when it is checked; the code takes that
for a volume of 0. `late` remembers the series this happened to.

### Redactor and Compression

A text is a value of which one thing matters: what each rule makes of it
(`Rewrite`). Each call runs the rules in any order, each once and on the result of the
last; `Turns` is the text after each turn of that loop.
`CompressLog` is a step of the miner of `DrainTree` followed by the redaction of its
variables; the template is returned as it is. The instance has tokens that one rule
finds inside what another one rewrites, and one in which a rule finds something only
after the other has rewritten it (`a@b.co5551234567`: no number begins inside a word).
A text of the last kind is why `RedactionIsExact` has an exception (`LaidBare`: by another
rule, after the rule's own turn), and why `redaction_order` refutes the statement without it.
Rules see one variable at a time. The patterns for phones and cards match spaces
(`redactor.go:48`, `redactor.go:57`), at which the miner splits a line: a number written so
is several tokens in which no rule detects anything (`Spread`), and it is stored as it
stands (`SpreadIsStored`).

### RedisClient, PostgresClient, ClickHouseClient

A command or a statement is atomic in its server; what a client call makes of
several is not, its answer may be lost, and the libraries below send again.
`RedisClient`: `Incr` and `Expire` are the two commands of a pipeline, `ExpireLost` a
connection that breaks between them, `IncrAgain` the pipeline sent again, which go-redis does up
to three times (`MaxRetries` is left at its default); `PushAgain` and `PopAgain` are the
same of the queue, so that a job may be there more than once or be lost; `Dequeue`
holds one of `PoolSize` connections until a job or its timeout comes, `Push` waits
for a free one, `PoolTimeout` ends that wait. One kind of calls is used in a
behaviour (`mode`): their keys have nothing in common. `PostgresClient`: `Create` and
`CreateFails` are the statements of `InitSchema`, run by several processes; `rows`
are in the order of their inserts; `created_at` has few values, in any order, so that rows
share one. A page is any that `ORDER BY created_at` allows (`Pages`), and the next page may
break the ties another way.
`ListPage` reads page after page while other calls go on; a connection lost in a page ends
it like its last row, because `rows.Err` is not asked (`cut`). `ClickHouseClient`:
`Insert` is done and answered, done and not answered, done in the table only and there in
some of its months, or not done; `AppendRow` and `SendBatch` are the two halves of a
batch, `Retry` is its caller. `TimePasses` and `ExpireRows` are the 90 days of the table,
which the view does not have. `QueryLogs` is the set of answers the code may return, those
cut off without an error among them.

`Backends` puts one instance of each of the parts that work alone side by side: a
behaviour is a behaviour of one of them (`part`), so that their states add up and do not
multiply. It extends their modules, so that a run and a theorem name the
same definition; what each of those modules has in common with the others is therefore
named for it (`RedisInit`, `PostgresNext`, `AnomalyAssumption`). `MCBackends` holds the
tables of the instance: lines, texts, rewrites.

## 4. Runs

| Run | Shows | Instance |
|---|---|---|
| `drain_tree` | the agreement of tree, id map, templates, results and `GetStats` (`MinerInv`, of which `TypeOK`, `UniqueIDs`, `PathAgreesWithTemplate` and `StatsAddUp` are parts), and that every step keeps it | 8 lines of 0, 1 and 3 tokens over 3 words and 2 variables, 5 calls, depth 3, threshold 1/2; 37,449 states |
| `drain_grouping` | violation: the second line of `drain_test.go:30-34` is new | the three lines of the test |
| `pool` | conservation and order of closing (`PoolInv`), metrics, a lone `Batch` gets its own results, refinement of `TaskLedger`, `Stop` and `Batch` return | 2 workers, buffers of 1, 2 calls of `Submit`, a batch of 2, 2 failing messages; 74,826 states |
| `pool_two_batches` | violation: two calls of `Batch` return each other's results | batches of 2 and 1 |
| `pool_graceful_stop` | violation: `Stop` leaves accepted messages unhandled | 1 worker, 2 messages |
| `ingestion_safety` | the invariants of the parts and of the requests (`ServiceInv`), pool and miner agree, `/metrics` is consistent, each line is mined once, after `Stop` nothing but drops decided before is counted | 3 lines (2 of one template, 1 blank), 2 workers, buffers of 1, 1 scrape; 1,838,809 states |
| `ingestion_liveness` | the process ends after a signal; until then an accepted line gets a template, a blank one, which is answered 202 too, an error | a line, a blank line, an empty form, a batch request; 1 worker; 32,166 states |
| `ingestion_cut` | violation: the end of the service cuts open requests, by a panic in `Submit` or by the return of `main` | 2 lines, 1 worker |
| `platform` | processes and exchanges agree (`PlatformInv`), an answered store is kept, clients read what they wrote, nothing but a GET is run twice, 200 means that the service did the work and a whole answer that its handler returned, no upload is told 200, the model is not waited for on behalf of nobody, each request is answered | seven mixes of up to four requests and events, `TopK` 1, two processes one after the other; 105,929 states |
| `gateway_stop` | violation: after SIGTERM the gateway stays | a static answer or a fix in progress, and a signal |
| `backends` | the types of the parts and what they rely on (`BackendsInv`), and the properties of each, liveness included | see below; 205,170 states |
| `redaction_order` | violation: a stored value holds what a rule detects, when the rules ran in the other order | the instance of `backends` |

Bounds. Five calls of `Parse` suffice to found a cluster, generalize it twice, meet
it over the wildcard child and found a second one in a leaf the first was reachable
from; three tokens suffice for a wildcard that is a key of the tree and one that is
not. With a buffer of one and more messages than buffer and hands together, every
`select` of the pool meets each of its cases; two results in a buffer of one are
what blocks a worker whose send had no default.

The mixes of `platform` are chosen for a case each: two stores that race and a full
search, a store with feedback or a restart between it and the listing that reads
both, refusals and an upload, a signal under a store and under a call of the model,
an agent that dies during one. A request of each kind suffices because requests of
a kind share nothing but the map, whose accesses the mixes pair up.

`backends`: anomaly, two series, four records over two instants, a baseline of
three points, a window of one tick and a channel of one alert, so that points are
out of order, fall out of the window, also while they wait for the mutex, and alerts meet a
full channel; compression,
lines of up to three tokens, one of them with a number written with spaces, three calls, two
rules; Redis, three callers on two connections, five commands, copies included, a limit of
one; Postgres, two installers, two rows over two values of `created_at`, pages of one, one
failure or cut page; ClickHouse, two logs over two months, one by one or as a batch, two
sends, answers of one row;
the model, a chat call, an embedding and a stream of two tokens.

`CHECK_DEADLOCK FALSE` is set because histories are bounded and requests finite: the
systems stop when all is done.

Fairness. Only liveness needs it. `pool`: every worker, every call of `Batch` and a
call of `Stop` is scheduled again and again, the handler returns, the 30 s timer
fires; nobody is obliged to call `Submit` or `Stop` or to cancel.
`ingestion_liveness`: handlers past their first checks, workers and `main` are
scheduled; nobody is obliged to send a request or a signal. `platform`: handlers of
the gateway and the agent are scheduled, timers go off, a watched connection is seen
to close, `Shutdown` returns when nothing is in progress; nothing is assumed of
clients, of the model, of the experience service, which may stop inside any
handler, or of whoever starts and stops processes. `backends`: a Go mutex keeps new
readers out while a writer waits, so that it is granted to the records that wait whenever
it is free again and again (strong fairness), but no reader has to let go of it; the
processor is scheduled; Redis answers commands,
pops and timeouts; whoever failed to install the schema tries again; timers and done
contexts are seen. The model owes no answer, nobody is obliged to begin a call.

What the violation runs refute is quoted, with its line, in the findings of
`PROJECT.json`.

## 5. Proofs

Every invariant that is proved is one that a run checks first, as it stands
or as a part of the run's `...Inv`. What the proofs assume of the constants are the named
`ASSUME`s of the modules, which TLC evaluates in every run. They ask for finite sets
and positive sizes, and bound nothing.

### The miner

`DrainTreeProofs` proves `Spec => []IndInv` for every set of lines, every depth
and every threshold of at most one, assuming that the hash separates the token
sequences that occur. `IndInv` adds to the properties what they rest on:

- `TreeIsPrefixClosed`: every node hangs below its prefixes, so that an existing
  leaf is reached by exact keys (`ExistingLeafIsReached`, by a least differing
  position);
- `ClustersFounded`: a cluster's template still covers the line its id hashes, and
  has the leaf of that line;
- `PathAgreesWithTemplate`: an exact edge of the walk has the token of the
  template, a wildcard edge a wildcard of it, so generalizing changes neither
  (`GeneralizeKeepsLeaf`).

`ParseNew` cannot meet a cluster founded by the same tokens: it would sit in the
leaf the walk ends in, cover the tokens and be a candidate at any threshold
(`NewTokensAreUncovered`); hence ids are unique. `ParseKnown` cannot make twins:
the twin would cover the line, so the best match covers it too, and merging
changes nothing (`BestMatchProperties`, `GeneralizeCoveredIsIdentity`).

From `IndInv` follow four more, each by its own induction: `TemplatesGeneralize`
(an id names one cluster for ever; `NewIDIsUnused`), `LinesCovered` (what an update
generalizes still covers what it covered; `StepKeepsCover`), `NothingIsLost` (the
numbers of wildcards are cardinalities of growing sets; `VarNumberIncreases`) and
`RepeatsFindTheirCluster` (the first cluster that covers the tokens is the best
match, and after `Parse` that is the cluster it answered from; `FirstCoverIsBest`).

`StatsCorrect` adds what `GetStats` reads: a cluster's `Size` is the number of lines
that were given its id, so that the sum over the id map counts each line once.
`SumOfCounts` is the sum: a function that counts the members of disjoint classes adds up to
the number of all members. It avoids an induction rule by the least set of classes
for which the sum would be wrong.

### The pool

`WorkerPoolProofs` proves `Spec => []PoolInv` for any finite set of messages, any
workers, batches and buffer sizes (`PoolAssumption`). `PoolInv` adds to the types:

- `MessagesInOnePlace`: a message whose call succeeded is in the queue, in one hand
  or handled, one that was not accepted is nowhere. Without it a worker could
  receive, and handle, what another one holds;
- `RestOfBatchIsNew`: what a batch has yet to submit is still new, the guard
  `SubmitBlocking` does not state because the loop of `Batch` implies it;
- `StopInOrder`: each step of `Stop` finds done what the earlier ones did, so no
  worker is left when the results channel closes.

From it follow `EachAcceptedOnce` (`AcceptedOnce`), the silence of a stopped pool's
channels (`ChannelsAreQuiet`) and `PoolImplementsLedger`: every step of the pool is
a step or a stutter of `TaskLedger`. The last needs a bound on the messages
accepted and not handled, which is the queue plus one per worker: `WaitingBound`
maps each waiting message to its place.

`MetricsCorrect` counts: the handled messages are those counted and those in hands
past the handler, and each step moves one message from a set to another.
`LoneBatch` is a pigeonhole: a complete call of `Batch` has read as many different
results as it has messages, and the results of others do not exist.

### The ingestion service

`IngestionProofs` proves no fact of pool or miner again. It shows that each step of
the service is a step of `WorkerPool` or leaves it alone (`PoolSteps`), the same of
`DrainTree`, and that the assumptions of both follow from those of
`Ingestion` (`PoolAssumed`, `MinerAssumed`); the theorems of the two modules then hold
inside the service (`PoolInside`, `MinerInside`). What joins them is `LinesCounted`:

- `EachLineMinedOnce`: results of `Parse` and handled requests correspond, line by
  line. Proved by counting the two sides of one step (`StepMines`,
  `GrowTogether`), for any number of equal lines;
- `MinedAreHandled`: blank lines excepted, the results with an id are the handled
  requests. With the sum of the miner and the metrics of the pool this gives
  `MinerMatchesPool`;
- `EachCallHasItsRequest`: the bound on calls of `Parse` never keeps a worker
  from its next line, so the composition restricts neither part.

`ScrapesAddUp` needs of the past only `ScrapesLagBehind`: what was read of the pool
was below the miner's total then, and that total never falls (`TotalGrows`).
`StopIsTheEnd` is an action property, from `StopInOrder` of the pool: of what `Stop` logs only
the number of drops may still grow, by one for each handler that had found the queue full.

### The platform

`PlatformProofs` proves `PlatformInv` for any finite set of requests of any form, any
mix of them, any timeouts with `ProxyTimeout < LLMTimeout`, any number of processes of
the experience service one after the other. `IdAssumption` says that a client has the id of an
experience from the answer of its store (ids are fresh UUIDs). The invariant relates
where a request is in the gateway, on the wire and in the handler:

- `ExchangesAgree`: a status on the wire was written by a handler that had got that
  far, and says 200 just when its request is valid or the model answered;
- `RunsInProcesses`: a handler runs in the process that runs, and runs again only in a
  later one, for a GET; hence `PostsRunOnce`;
- `AnswersAreFinal`: a handler whose answer was relayed does not run again; hence
  `OkMeansDone`, which asks for the work of the handler, for its return if the answer is whole,
  and for the effect of feedback;
- `CallsAgree`: a watched call of the model has not waited longer than the gateway;
  hence `ModelWaitIsBounded`;
- `AnswersInOrder`, `StoresAreKept`, `StoresAreCollected`, `FeedbackIsKept`: what was in
  the map when a request was sent is in what its handler collected; hence
  `AnsweredStoreIsKept` and `ReadYourWrites`.

Steps are first reduced to their effect on one request (`GatewayEffect`,
`HandlerEffect`, `TaskEffect` and others), so that each invariant of one request is shown
per effect and not per action; the order of answers and the contents of the map are
shown afterwards, from effects again (`MapEffect`).

### The clients of the stores

`StoresProofs` proves one inductive invariant for each of the three, a lemma per
action, and derives its theorems from it.

- `RedisInv`: an admission is counted, and a key with a count has an expiry, or a caller
  between its two commands, or is the key whose connection broke (`KeysExpire`).
  `EffectsAreSent` bounds what retries may multiply by the commands sent. The
  connections in use are a set of callers, whose cardinality moves by one
  (`TakesConnection`). Hence `LimitIsKept`, and `QuietKeysExpire`, the safety half of
  `QuietKeyExpires`.
- `PostgresInv`: `SchemaInOrder`, each installer's statements so far are done and no
  table is there before the one it refers to (`InstalledMeansReady`); `PagesCover`, the
  rows a listing has passed it has read, because the rank of a row by `created_at` never
  falls, and a row without ties is in every page its rank falls into, whatever the order
  of the others (`PagesAreBounded`); hence `PagesAreComplete`, for listings without a
  cut page.
- `ClickHouseInv`: `RowsAreCopies` and `BatchHasItsNumbers`, so that an insert adds one
  new copy to each log of a batch in one month or to none of them (`BatchesAreAtomic`),
  and to the view at most what it adds to the table (`ViewIsFaithful`, about everything
  ever stored, because the view forgets nothing). `TableKeepsRows`: only what is 90 days
  old has left the table. `QueriesShowAnswered` is the choice of an answer, cut or not:
  the newest of finitely many rows.

### The anomaly service

`AnomalyProofs` proves three invariants, of which the second and third use the first.

- `AlertsInv`: the numbers of alerts ascend from the first one
  processed to the last one in the channel. Each step leaves the sequence of
  alerts or appends one (`Grown`); `AlertsKeepTheirOrder` is the action property.
- `SteadyInv`: of equal points a baseline has that one as its mean and no
  deviation, however old it is (`BaselinesFollowPoints`); if a point is recent when the
  series is checked, the mean of the recent ones is the same one. Hence
  `SteadySourcesAreQuiet`, but for series that were `late`: a reader of `/baselines` may hold the
  mutex, and a handler wait for it, for longer than the window. `Volumes` are whole numbers
  (`AnomalyAssumption`). The sum of equal numbers (`SumOfConstant`) is shown by the least
  set of indices for which it would be wrong, as `SumOfCounts` is.
- `AnomalyTypeInv`: the types, of which `raised <= MaxRequests` is no matter of one
  step. `RequestsCover` counts instead of summing the bag: its copies, numbered, are a
  set of `Tickets` that grows by one with a request and shrinks by one with a record, and
  alerts and tickets together are no more than the requests (`AnomalyTypes`).

### Compression and redaction

`CompressionProofs` shows that the service takes steps of `DrainTree`, so that the
theorems of the miner hold inside it (`MinerInside`), and from the invariant of the
miner that a result has one variable for each wildcard of its template
(`WildcardsAreNumbered`). The loop of `Redact` is a recursive function over its turns,
of which two facts are shown by the least turn for which they would be wrong:

- `RedactKeeps`: a text in which no rule detects anything comes out as it went in;
- `LeftIsBare`: if a rule detects something at the end, then some turn laid it bare
  (`LaidBare`): right after its own turn the rule detects nothing, so there is a first
  later turn after which it does.

Hence `RedactionLeavesTheRest`, for any lines, finite set of rules and table of
rewrites. `SpreadAssumption` says of numbers written with spaces that no rule detects
anything in one of their tokens: they are what redaction by token does not reach.
`RulesAssumption` says of the rules what the regular expressions give: a rule detects
nothing in what it has itself rewritten, because a placeholder's brackets belong to no
pattern; and a token in which a rule of the default configuration (`redactor.go:27-36`)
detects something is a variable of the miner, because each such match holds an address,
or digits between word boundaries, which `isVariable` matches too (`drain.go:115`,
`drain.go:121`). The second is what keeps personal data out of the templates, which
nobody redacts.

### The parts beside one another

`BackendsProofs` shows that a step of `Backends` is a step or a stutter of every part
(`PartsMove`), so that what is proved of the parts alone holds here, and proves what has
no module of its own: the types of `LLMClient` and that outcomes have reasons
(`LLMInv`), call by call (`OneCall`). `BackendsInv` takes from each part what it restores
and what has no theorem of its own; that it holds is `BackendsInvariance`.

### What is only model-checked, and why

- All liveness: the prover has no rules for fairness or `ENABLED`.
- That the two statements of `RulesAssumption` hold of the regular expressions of
  `redactor.go` and `drain.go`: an argument about text, made above; TLC evaluates them on
  the table of the instance.

## 6. Not modelled

- Qdrant client: its operations log and return, the cosine is floating point.
- Prompt templates, models, errors, logger: text and records without state.
- Log generator, dashboard, scripts, manifests, protocol files: processes that are
  started and stopped appear as the events `signal` and `crash` of `Platform`, and as
  `Signal` of `Ingestion`; no generated gRPC server is registered.
- `PublishAlert` and `SubscribeAlerts` of Redis keep nothing and have no subscriber;
  `FlushDB`, `Enable`, `Disable`, `Mask` and `MaskEmail` have no caller.
- The statistics of Postgres and ClickHouse: one aggregate query each.
- `/stats` of the compression service writes its counts with `string(rune(n))`, a
  conversion within one expression.
- Regular expressions, hashing, string formatting, logging, timing metrics and SQL
  text. Floating point: similarity is exact for the default threshold; the deviation
  of a series of equal fractions may come out above zero in the code
  (`cmd/anomaly/main.go:243`), which the exact model does not show.
- A `DequeueJob` with timeout 0, which waits for ever, and the wait of a pop for a connection of
  the pool: a pop begins here once one is free. `QueryLogs` without a limit.
- What the code does not promise and a property therefore leaves out: processes in which
  two stores raced, listings after a cut page or among rows of one time, a rate-limited client
  that keeps trying, embeddings and streams whose caller waits on a silent model, jobs lost with
  an answer or pushed twice. The hazards of `PROJECT.json` say which property stops where.
- The gateway that cannot listen on its port logs the error and waits as after a
  signal.
- Clocks: the stamps of requests are as fine as the models need; those of points and
  `created_at` have few values, so that they coincide.
