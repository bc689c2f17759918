------------------------------- MODULE Anomaly --------------------------------
(***************************************************************************)
(* The anomaly service of cmd/anomaly/main.go: handlers append points to   *)
(* time series under one mutex and check them against a baseline; alerts   *)
(* go through a bounded channel to one processor.                          *)
(*                                                                         *)
(* A handler takes the time of its point before it waits for the mutex, so *)
(* that points may be recorded out of order, and late: a reader of the     *)
(* baselines holds the mutex while it writes to its client, who may not    *)
(* read, and the server has no time limit for a write.  Means and          *)
(* deviations are compared exactly, by cross-multiplication, where the     *)
(* code has float64.                                                       *)
(***************************************************************************)
EXTENDS Integers, Sequences, FiniteSets, Bags, SequencesExt

CONSTANTS
  Templates, Sources,     \* the series of errors, of volumes
  Volumes,                \* the counts clients report
  MinPoints,              \* 10: fewer points are not checked
  Window,                 \* 5 minutes, in ticks
  ErrorThreshold, VolumeThreshold,
  AlertCapacity,          \* 100: the buffer of alertChan
  MaxRequests, MaxTime    \* bounds on the requests and on the clock

\* What the proofs need of the constants.
ASSUME AnomalyAssumption ==
  /\ AlertCapacity \in Nat /\ MaxRequests \in Nat /\ MaxTime \in Nat
  /\ Templates \cap Sources = {} /\ Volumes \subseteq Int
  /\ VolumeThreshold \in Int /\ Window \in Nat

Series == Templates \cup Sources
Counts == Volumes \cup {1}    \* an error counts 1

VARIABLES
  now, service,           \* the clock; running, stopping (ctx done), exited
  requests,               \* the number of requests so far
  handlers,               \* the bag of records that wait for metrics.mu: [key, at, value]
  reading,                \* whether /baselines holds metrics.mu for reading
  points,                 \* key -> the series, in the order of recording
  baselines,              \* key -> none, or a pointer to its first points, below
  alertChan,              \* the channel
  processor,              \* whether its goroutine runs
  raised, processed,      \* history: alerts detected (sent or dropped), alerts handled
  late                    \* history: series that were checked without a recent point

metrics     == <<points, baselines, late>>
alerting    == <<alertChan, raised>>
anomalyVars ==
  <<now, service, requests, handlers, reading, metrics, alerting, processor, processed>>

AnomalyInit ==
  /\ now = 0 /\ service = "running" /\ requests = 0 /\ handlers = EmptyBag
  /\ reading = FALSE /\ late = {}
  /\ points = [k \in Series |-> << >>]
  /\ baselines = [k \in Series |-> [count |-> 0, sum |-> 0, squares |-> 0]]
  /\ alertChan = << >> /\ processor = TRUE
  /\ raised = 0 /\ processed = << >>

----------------------------------------------------------------------------
(* Statistics.  A baseline is kept as the count, the sum and the sum of    *)
(* squares of its points: Mean = sum / count, and StdDev is the root of    *)
(* Variance over count^2, 1 in its place when it is zero.                  *)

ValuesOf(series) == [i \in DOMAIN series |-> series[i].value]

CalculateBaseline(series) ==
  [count |-> Len(series), sum |-> SumFunction(ValuesOf(series)),
   squares |-> SumFunction([i \in DOMAIN series |-> series[i].value * series[i].value])]

Variance(b) ==
  LET v == b.count * b.squares - b.sum * b.sum
  IN  IF v = 0 THEN b.count * b.count ELSE v

\* "Get or create": a baseline is computed at the first check and never again.
BaselineOf(k, series) == IF baselines[k].count > 0 THEN baselines[k] ELSE CalculateBaseline(series)

\* The points after the cutoff, and the sum of their values.
Recent(series) == {i \in DOMAIN series : series[i].at > now - Window}
RecentTotal(series) == SumFunctionOnSet(ValuesOf(series), Recent(series))

\* How far the value total / count is from the mean, times count and b.count.
Distance(total, count, b) == b.count * total - count * b.sum

Exceeds(distance, count, threshold, b) ==
  distance * distance > threshold * threshold * count * count * Variance(b)

\* Errors: the number of recent points, against the mean of their values.
ErrorAnomaly(series, b) ==
  LET d == Distance(Cardinality(Recent(series)), 1, b)
  IN  d > 0 /\ Exceeds(d, 1, ErrorThreshold, b)

\* Mutant: the recent volume is not divided by the number of points.
VolumeOfSum(series, b) ==
  Exceeds(Distance(RecentTotal(series), 1, b), 1, VolumeThreshold, b)

\* Volumes: the mean of the recent points, above or below.
VolumeAnomaly(series, b) ==
  LET found == Cardinality(Recent(series))
      count == IF found > 0 THEN found ELSE 1
  IN  Exceeds(Distance(RecentTotal(series), count, b), count, VolumeThreshold, b)

Anomalous(k, series, b) ==
  Len(series) >= MinPoints /\ IF k \in Templates THEN ErrorAnomaly(series, b) ELSE VolumeAnomaly(series, b)

----------------------------------------------------------------------------
(* Requests.                                                               *)

Waiting == BagToSet(handlers)

\* time.Now() in the handler, before the lock.
Receive(k, v) ==
  /\ service # "exited" /\ requests < MaxRequests
  /\ requests' = requests + 1
  /\ handlers' = handlers (+) SetToBag({[key |-> k, at |-> now, value |-> v]})
  /\ UNCHANGED <<now, service, reading, metrics, alerting, processor, processed>>

\* Mutant: the send has no default.
SendOrWait(k) ==
  Len(alertChan) < AlertCapacity /\ alertChan' = Append(alertChan, [n |-> raised + 1, key |-> k])

\* Mutant: the newest alert takes the place of the oldest.
SendEvicting(k) ==
  alertChan' = Append(IF Len(alertChan) < AlertCapacity THEN alertChan ELSE Front(alertChan),
                      [n |-> raised + 1, key |-> k])

\* select with a default: a full channel drops the alert.
Send(k) ==
  alertChan' = IF Len(alertChan) < AlertCapacity
               THEN Append(alertChan, [n |-> raised + 1, key |-> k]) ELSE alertChan

\* Only a point that has waited for the lock as long as the window can be checked so.
CheckedLate(series) == Len(series) >= MinPoints /\ Recent(series) = {}

\* RecordError and RecordVolume: append and check, under the lock.
Record(h) ==
  LET k == h.key
      series == Append(points[k], [at |-> h.at, value |-> h.value])
      baseline == BaselineOf(k, series)
  IN  /\ service # "exited" /\ ~reading /\ BagIn(h, handlers)
      /\ handlers' = handlers (-) SetToBag({h})
      /\ points' = [points EXCEPT ![k] = series]
      /\ baselines' = IF Len(series) >= MinPoints THEN [baselines EXCEPT ![k] = baseline] ELSE baselines
      /\ IF Anomalous(k, series, baseline)
         THEN Send(k) /\ raised' = raised + 1
         ELSE UNCHANGED alerting
      /\ late' = IF CheckedLate(series) THEN late \cup {k} ELSE late
      /\ UNCHANGED <<now, service, requests, reading, processor, processed>>

\* /baselines: the lock is shared by readers, one of which is enough to keep it.
BeginRead ==
  /\ service # "exited" /\ ~reading /\ reading' = TRUE
  /\ UNCHANGED <<now, service, requests, handlers, metrics, alerting, processor, processed>>

\* The client has taken the answer: it may never do so.
EndRead ==
  /\ service # "exited" /\ reading /\ reading' = FALSE
  /\ UNCHANGED <<now, service, requests, handlers, metrics, alerting, processor, processed>>

----------------------------------------------------------------------------
(* The processor and the process.                                          *)

\* Mutant: the goroutine ends after an alert.
ProcessOne ==
  /\ service # "exited" /\ processor /\ alertChan # << >>
  /\ processed' = Append(processed, Head(alertChan)) /\ alertChan' = Tail(alertChan)
  /\ processor' = FALSE
  /\ UNCHANGED <<now, service, requests, handlers, reading, metrics, raised>>

\* Mutant: the alert stays in the channel.
ProcessPeek ==
  /\ service # "exited" /\ processor /\ alertChan # << >>
  /\ processed' = Append(processed, Head(alertChan))
  /\ UNCHANGED <<now, service, requests, handlers, reading, metrics, alerting, processor>>

Process ==
  /\ service # "exited" /\ processor /\ alertChan # << >>
  /\ processed' = Append(processed, Head(alertChan)) /\ alertChan' = Tail(alertChan)
  /\ UNCHANGED <<now, service, requests, handlers, reading, metrics, raised, processor>>

\* The other case of its select: a done context may win over a waiting alert.
ProcessorEnds ==
  /\ service = "stopping" /\ processor /\ processor' = FALSE
  /\ UNCHANGED <<now, service, requests, handlers, reading, metrics, alerting, processed>>

Signal ==
  /\ service = "running" /\ service' = "stopping"
  /\ UNCHANGED <<now, requests, handlers, reading, metrics, alerting, processor, processed>>

\* main returns, and everything with it.
Exit ==
  /\ service = "stopping" /\ service' = "exited" /\ processor' = FALSE
  /\ UNCHANGED <<now, requests, handlers, reading, metrics, alerting, processed>>

Tick ==
  /\ now < MaxTime /\ service # "exited"
  /\ now' = now + 1
  /\ UNCHANGED <<service, requests, handlers, reading, metrics, alerting, processor, processed>>

AnomalyNext ==
  \/ \E k \in Templates : Receive(k, 1)
  \/ \E k \in Sources, v \in Volumes : Receive(k, v)
  \/ \E h \in Waiting : Record(h)
  \/ BeginRead \/ EndRead
  \/ Process \/ ProcessorEnds \/ Signal \/ Exit \/ Tick

AnomalySpec == AnomalyInit /\ [][AnomalyNext]_anomalyVars

----------------------------------------------------------------------------
(* Properties.                                                             *)

AnomalyTypeOK ==
  /\ now \in 0..MaxTime /\ service \in {"running", "stopping", "exited"}
  /\ requests \in 0..MaxRequests
  /\ IsABag(handlers) /\ \A h \in Waiting : h.key \in Series /\ h.at \in 0..now
  /\ Len(alertChan) <= AlertCapacity
  /\ raised \in 0..MaxRequests /\ processor \in BOOLEAN /\ reading \in BOOLEAN

Values(k) == {points[k][i].value : i \in DOMAIN points[k]}

\* A source whose volume never changes raises no alert, at whatever times its points
\* came and in whatever order they were recorded, unless it was once checked when none of
\* them was recent: no recent point counts as a volume of 0.  (Volumes are whole numbers
\* here, on which float64 is exact; a constant 0.1 has a deviation above zero in the code.)
SteadyVolumeIsQuiet ==
  \A k \in Sources \ late :
    (\E i \in DOMAIN alertChan : alertChan[i].key = k) \/ (\E i \in DOMAIN processed : processed[i].key = k)
      => Cardinality(Values(k)) > 1

\* Of points that are all the same a baseline has that one as its mean, and no deviation,
\* however many points came after it.
BaselinesFollowPoints ==
  \A k \in Series : \A v \in Counts :
    Values(k) \subseteq {v} =>
      /\ baselines[k].sum = baselines[k].count * v
      /\ baselines[k].squares = baselines[k].count * (v * v)

\* What a quiet source rests on.
SteadyInv ==
  /\ now \in Int /\ \A h \in Waiting : h.at \in Int /\ h.value \in Counts
  /\ points \in [Series -> Seq([at : Int, value : Counts])]
  /\ DOMAIN baselines = Series /\ \A k \in Series : baselines[k].count \in Nat
  /\ BaselinesFollowPoints
  /\ SteadyVolumeIsQuiet

Seen == processed \o alertChan

Alert == [n : Nat, key : Series]

\* Alerts have the numbers of the anomalies they tell of, in ascending order from the
\* first one processed to the last one in the channel: none is there twice.
AlertsNumbered ==
  /\ \A i \in 1..Len(Seen) : Seen[i].n <= raised
  /\ \A i, j \in 1..Len(Seen) : i < j => Seen[i].n < Seen[j].n

\* The channel never exceeds its buffer, its alerts are numbered, and the processor is
\* there until the service is told to stop.
AlertsInv ==
  /\ raised \in Nat /\ processor \in BOOLEAN
  /\ \A h \in Waiting : h.key \in Series
  /\ alertChan \in Seq(Alert) /\ processed \in Seq(Alert)
  /\ Len(alertChan) <= AlertCapacity
  /\ AlertsNumbered
  /\ ~processor => service # "running"

\* The processor takes alerts in the order in which they were raised, none twice; an
\* alert that found room is not lost again while the process runs, and one that did
\* not get in found the channel full.
AlertsInOrder ==
  [][/\ IsPrefix(Seen, Seen')
     /\ \A i \in (Len(Seen) + 1)..Len(Seen') : Seen'[i].n > raised
     /\ raised' > raised /\ Seen' = Seen => Len(alertChan) = AlertCapacity]_anomalyVars

\* Records and alerts do not hold each other up.  All handlers that wait get the lock
\* and finish, also when the channel is full or the processor gone, unless a client of
\* /baselines does not read its answer: no time limit ends that.  An alert in the channel
\* is taken out of it, such a reader or not, unless the service is stopped first.
RecordsGoThrough ==
  /\ <>[]reading \/ []<>(handlers = EmptyBag \/ service = "exited")
  /\ alertChan # << >> ~> (alertChan = << >> \/ service # "running")
==============================================================================
