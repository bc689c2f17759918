----------------------------- MODULE RedisClient ------------------------------
(***************************************************************************)
(* The Redis client of internal/storage/redis/client.go: a rate limit, a   *)
(* job queue, a template cache with counters.                              *)
(* Each command is atomic in the server, the calls of the client are not:  *)
(* they take a connection of a pool, they are pipelines of two commands,   *)
(* their answer may be lost.  NewClient leaves MaxRetries at its default:  *)
(* go-redis sends a command whose answer it lost up to three times more.   *)
(* The server and go-redis are external; what is modelled of them is what  *)
(* the client relies on.                                                   *)
(***************************************************************************)
EXTENDS Integers, FiniteSets

CONSTANTS
  Callers,        \* goroutines, one call at a time each
  Limit, Expiry,  \* of CheckRateLimit: calls per window, the window in ticks
  PopTimeout,     \* the timeout of DequeueJob, in ticks
  PoolSize,       \* 10 connections
  MaxCalls        \* bound on the commands that are sent, copies included

Kinds == {"limit", "enqueue", "dequeue", "update", "cache"}

\* The bounds are numbers; what the proofs need of the constants.
ASSUME RedisAssumption ==
  /\ IsFiniteSet(Callers) /\ Expiry > 0
  /\ {Limit, Expiry, PopTimeout, PoolSize, MaxCalls} \subseteq Nat

VARIABLES
  mode,           \* the kinds of calls of this behaviour
  pc,             \* caller -> idle, or the call it is in
  waited,         \* caller -> ticks inside a blocking pop
  calls,          \* the number of commands sent so far
  rate,           \* the key of the limit: count, ttl (0: no expiry), calls let in so far
  stuck,          \* history: the last EXPIRE of the key was lost
  jobs,           \* the length of the list logzero:jobs
  cached,         \* whether the template is in the cache
  count           \* the counter of the template

limiting   == <<rate, stuck>>
templating == <<cached, count>>
redisVars  == <<mode, pc, waited, calls, limiting, jobs, templating>>

NoKey == [count |-> 0, ttl |-> 0, letIn |-> 0]

RedisInit ==
  /\ mode \in {{"limit"}, {"enqueue", "dequeue"}, {"update", "cache"}}
  /\ pc = [c \in Callers |-> "idle"] /\ waited = [c \in Callers |-> 0] /\ calls = 0
  /\ rate = NoKey /\ stuck = FALSE
  /\ jobs = 0 /\ cached = FALSE /\ count = 0

Connected == {c \in Callers : pc[c] \notin {"idle", "pushing"}}
Free == Cardinality(Connected) < PoolSize

Goes(c, where) == pc' = [pc EXCEPT ![c] = where]

\* Mutant: a pool without bound.
BeginUnpooled(c, kind) ==
  /\ kind \in mode /\ pc[c] = "idle" /\ calls < MaxCalls
  /\ calls' = calls + 1

Begin(c, kind) ==
  /\ kind \in mode /\ pc[c] = "idle" /\ Free /\ calls < MaxCalls
  /\ calls' = calls + 1

----------------------------------------------------------------------------
(* CheckRateLimit: INCR and EXPIRE in one pipeline, which is not a         *)
(* transaction.                                                            *)

\* Mutant: the count is read, then incremented.
IncrAfterGet(c) ==
  /\ Begin(c, "limit")
  /\ rate' = [rate EXCEPT !.count = @ + 1,
                          !.letIn = @ + IF rate.count <= Limit THEN 1 ELSE 0]
  /\ Goes(c, "incremented")
  /\ UNCHANGED <<mode, waited, stuck, jobs, templating>>

\* The answer of INCR decides, though the caller sees it only with that of EXPIRE.
Incr(c) ==
  /\ Begin(c, "limit")
  /\ rate' = [rate EXCEPT !.count = @ + 1,
                          !.letIn = @ + IF rate.count + 1 <= Limit THEN 1 ELSE 0]
  /\ Goes(c, "incremented")
  /\ UNCHANGED <<mode, waited, stuck, jobs, templating>>

\* go-redis sends the pipeline again: the call counts twice.
IncrAgain(c) ==
  /\ pc[c] = "incremented" /\ calls < MaxCalls /\ calls' = calls + 1
  /\ rate' = [rate EXCEPT !.count = @ + 1,
                          !.letIn = @ + IF rate.count + 1 <= Limit THEN 1 ELSE 0]
  /\ UNCHANGED <<mode, pc, waited, stuck, jobs, templating>>

\* Mutant: the window is set when the key is new.
ExpireNew(c) ==
  /\ pc[c] = "incremented" /\ Goes(c, "idle")
  /\ rate' = IF rate.count = 1 THEN [rate EXCEPT !.ttl = Expiry] ELSE rate
  /\ stuck' = FALSE
  /\ UNCHANGED <<mode, waited, calls, jobs, templating>>

\* EXPIRE starts the window anew, for a refused call too; on no key it does nothing.
Expire(c) ==
  /\ pc[c] = "incremented" /\ Goes(c, "idle")
  /\ rate' = IF rate.count > 0 THEN [rate EXCEPT !.ttl = Expiry] ELSE rate
  /\ stuck' = FALSE
  /\ UNCHANGED <<mode, waited, calls, jobs, templating>>

\* The connection breaks between the two commands: the call returns an error, and a
\* key without expiry may stay behind.
ExpireLost(c) ==
  /\ pc[c] = "incremented" /\ Goes(c, "idle")
  /\ stuck' = (rate.count > 0 /\ rate.ttl = 0)
  /\ UNCHANGED <<mode, waited, calls, rate, jobs, templating>>

----------------------------------------------------------------------------
(* The job queue.                                                          *)

\* EnqueueJob first asks the pool for a connection.
Enqueue(c) ==
  /\ "enqueue" \in mode /\ pc[c] = "idle" /\ calls < MaxCalls
  /\ calls' = calls + 1 /\ Goes(c, "pushing")
  /\ UNCHANGED <<mode, waited, limiting, jobs, templating>>

\* LPUSH.
Push(c) ==
  /\ pc[c] = "pushing" /\ Free
  /\ jobs' = jobs + 1
  /\ Goes(c, "idle")
  /\ UNCHANGED <<mode, waited, calls, limiting, templating>>

\* The server has the job, its answer is lost, and the command is sent again: every
\* copy that arrives is one more job.
PushAgain(c) ==
  /\ pc[c] = "pushing" /\ Free /\ calls < MaxCalls /\ calls' = calls + 1
  /\ jobs' = jobs + 1
  /\ UNCHANGED <<mode, pc, waited, limiting, templating>>

\* All connections are in blocking pops: after its pool timeout the call fails.
PoolTimeout(c) ==
  /\ pc[c] = "pushing" /\ ~Free
  /\ Goes(c, "idle")
  /\ UNCHANGED <<mode, waited, calls, limiting, jobs, templating>>

\* DequeueJob: BRPOP holds its connection until there is a job or the time is over.
Dequeue(c) ==
  /\ Begin(c, "dequeue")
  /\ Goes(c, "popping") /\ waited' = [waited EXCEPT ![c] = 0]
  /\ UNCHANGED <<mode, limiting, jobs, templating>>

\* The job is gone from the list, whether or not its caller lives to get it.
Pop(c) ==
  /\ pc[c] = "popping" /\ jobs > 0 /\ jobs' = jobs - 1
  /\ Goes(c, "idle")
  /\ UNCHANGED <<mode, waited, calls, limiting, templating>>

\* The job goes with a lost answer, and the command is sent again.
PopAgain(c) ==
  /\ pc[c] = "popping" /\ jobs > 0 /\ jobs' = jobs - 1
  /\ waited' = [waited EXCEPT ![c] = 0]
  /\ UNCHANGED <<mode, pc, calls, limiting, templating>>

\* Mutant: the timeout is not passed on.
PopOnlyJobs(c) == FALSE /\ UNCHANGED redisVars

\* redis.Nil: no job, no error.
PopNothing(c) ==
  /\ pc[c] = "popping" /\ jobs = 0 /\ waited[c] >= PopTimeout
  /\ Goes(c, "idle")
  /\ UNCHANGED <<mode, waited, calls, limiting, jobs, templating>>

----------------------------------------------------------------------------
(* Templates.                                                              *)

\* UpdateTemplateCount: INCR of a key of its own, which never expires.  A copy that is
\* sent again counts like another call: it is another step of the caller.
UpdateTemplateCount(c) ==
  /\ Begin(c, "update")
  /\ count' = count + 1
  /\ UNCHANGED <<mode, pc, waited, cached, limiting, jobs>>

\* CacheTemplate: SET of the whole template, with a LogCount of its own.
CacheTemplate(c) ==
  /\ Begin(c, "cache")
  /\ cached' = TRUE
  /\ UNCHANGED <<mode, pc, waited, count, limiting, jobs>>

\* templateTTL is over; GetTemplate answers nil, nil.
CacheExpires ==
  /\ cached /\ cached' = FALSE
  /\ UNCHANGED <<mode, pc, waited, calls, count, limiting, jobs>>

----------------------------------------------------------------------------

\* Time passes for the key of the limit and for the blocking pops.
RedisTick ==
  /\ rate.ttl > 0 \/ \E c \in Callers : pc[c] = "popping" /\ waited[c] < PopTimeout
  /\ rate' = IF rate.ttl = 0 THEN rate
             ELSE IF rate.ttl = 1 THEN NoKey ELSE [rate EXCEPT !.ttl = @ - 1]
  /\ waited' = [c \in Callers |-> IF pc[c] = "popping" /\ waited[c] < PopTimeout
                                   THEN waited[c] + 1 ELSE waited[c]]
  /\ UNCHANGED <<mode, pc, calls, stuck, jobs, templating>>

Returns(c) == Expire(c) \/ Push(c) \/ PoolTimeout(c) \/ Pop(c) \/ PopNothing(c)

RedisNext ==
  \/ \E c \in Callers :
       \/ Incr(c) \/ IncrAgain(c) \/ ExpireLost(c) \/ Returns(c)
       \/ Enqueue(c) \/ PushAgain(c) \/ Dequeue(c) \/ PopAgain(c)
       \/ UpdateTemplateCount(c) \/ CacheTemplate(c)
  \/ CacheExpires \/ RedisTick

RedisSpec == RedisInit /\ [][RedisNext]_redisVars

----------------------------------------------------------------------------
(* Properties.                                                             *)

RedisTypeOK ==
  /\ mode \subseteq Kinds /\ calls \in 0..MaxCalls
  /\ pc \in [Callers -> {"idle", "incremented", "pushing", "popping"}]
  /\ waited \in [Callers -> 0..PopTimeout]
  /\ rate \in [count : 0..MaxCalls, ttl : 0..Expiry, letIn : Nat] /\ stuck \in BOOLEAN
  /\ jobs \in 0..MaxCalls /\ cached \in BOOLEAN /\ count \in 0..MaxCalls
  /\ Cardinality(Connected) <= PoolSize

\* In the life of a key no more calls are let in than the limit, however the pipelines
\* of several callers interleave and whatever breaks between their commands.
RateLimitHolds == rate.letIn <= Limit

\* A refused caller is let in again in the end, if all are quiet for a while: the key
\* goes, unless the last connection broke before EXPIRE.
QuietKeyExpires ==
  rate.count > 0 /\ ~stuck ~> (rate.count = 0 \/ stuck)

\* No call of the queue hangs: not a pop without jobs, not a push while blocking pops
\* hold every connection.
QueueCallsReturn ==
  \A c \in Callers : pc[c] # "idle" ~> pc[c] = "idle"

\* A key of the limit has an expiry, or a call that is about to set it, or it is stuck.
KeysExpire ==
  /\ rate.count > 0 => rate.ttl > 0 \/ stuck \/ \E c \in Callers : pc[c] = "incremented"
  /\ stuck => rate.count > 0
  /\ rate.ttl > 0 => rate.count > 0 /\ ~stuck

\* Every effect is that of a command sent: no count and no job comes from nowhere, and
\* calls are let in as long as the count that answers them is within the limit.
EffectsAreSent ==
  /\ rate.count <= calls /\ rate.letIn = IF rate.count <= Limit THEN rate.count ELSE Limit
  /\ jobs + Cardinality({c \in Callers : pc[c] = "pushing"}) <= calls
  /\ count <= calls

\* The inductive invariant.
RedisInv == RedisTypeOK /\ KeysExpire /\ EffectsAreSent
==============================================================================
