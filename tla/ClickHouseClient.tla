--------------------------- MODULE ClickHouseClient ---------------------------
(***************************************************************************)
(* The ClickHouse client of internal/storage/clickhouse/client.go: the     *)
(* table of compressed logs, which is partitioned by month and drops rows  *)
(* 90 days old, the materialized view that counts them as they are         *)
(* inserted, and drops none, single inserts and batches, and a filtered    *)
(* query.                                                                  *)
(* A statement may fail, in some of the months only, or succeed and lose   *)
(* its answer; the caller cannot tell and may insert again.                *)
(***************************************************************************)
EXTENDS Integers, Sequences, FiniteSets

CONSTANTS
  LogTemplates, Times, \* of logs, and of queries
  Month,            \* time -> toYYYYMM of it
  BatchSize,        \* the number of logs of a batch
  QueryLimit,       \* QueryRequest.Limit
  MaxLogs,          \* bound on the logs callers have
  MaxSends          \* bound on the inserts and attempts

\* The bounds are numbers; what the proofs need of the constants.
ASSUME ClickHouseAssumption ==
  BatchSize \in Nat /\ QueryLimit \in Nat \ {0} /\ MaxLogs \in Nat /\ MaxSends \in Nat

VARIABLES
  schema,           \* what exists: "logs", "templates", "view"
  early,            \* history: the view was there before the first log
  batch,            \* InsertLogsBatch in progress: pc, logs, appended so far
  table,            \* compressed_logs: the rows [n, template, time, copy]
  everStored,       \* history: the rows that ever were in the table
  past,             \* the times that are 90 days ago
  view,             \* template -> the count of logs_by_template_mv
  acknowledged,     \* history: the numbers n of logs whose insert returned nil
  next, sends       \* the number of the next log; the inserts so far

inserted       == <<table, everStored, view, acknowledged>>
clickHouseVars == <<schema, early, batch, inserted, past, next, sends>>

NoBatch  == [pc |-> "none", logs |-> << >>, appended |-> 0]

ClickHouseInit ==
  /\ schema = {} /\ early = FALSE /\ batch = NoBatch
  /\ table = {} /\ everStored = {} /\ past = {}
  /\ view = [t \in LogTemplates |-> 0]
  /\ acknowledged = {} /\ next = 1 /\ sends = 0

----------------------------------------------------------------------------
(* InitSchema: two tables and the view, IF NOT EXISTS each.                *)

CreateTables ==
  /\ schema' \in {{"logs"}, {"logs", "templates"}} /\ schema \subseteq schema' /\ schema # schema'
  /\ UNCHANGED <<early, batch, inserted, past, next, sends>>

\* Mutant: the view is dropped and created anew at every start.
CreateViewAnew ==
  /\ {"logs", "templates"} \subseteq schema /\ schema' = schema \cup {"view"}
  /\ view' = [t \in LogTemplates |-> 0] /\ early' = (early \/ everStored = {})
  /\ UNCHANGED <<batch, table, everStored, acknowledged, past, next, sends>>

\* The view counts what is inserted from now on.  A failure is logged and InitSchema
\* returns nil: the program may run for ever without a view.
CreateView ==
  /\ schema = {"logs", "templates"} /\ schema' = schema \cup {"view"} /\ early' = (everStored = {})
  /\ UNCHANGED <<batch, inserted, past, next, sends>>

----------------------------------------------------------------------------
(* Inserts.                                                                *)

Copy(r) == [n |-> r.n, template |-> r.template, time |-> r.time,
            copy |-> Cardinality({s \in everStored : s.n = r.n})]

Store(rows) ==
  /\ table' = table \cup {Copy(r) : r \in rows}
  /\ everStored' = everStored \cup {Copy(r) : r \in rows}

\* The view takes the block after the table did.
Count(rows) ==
  view' = IF "view" \in schema
          THEN [t \in LogTemplates |-> view[t] + Cardinality({r \in rows : r.template = t})]
          ELSE view

\* The rows of some months, a part of the table each.
OfMonths(rows, months) == {r \in rows : Month[r.time] \in months}

\* The statement is done and acknowledged, or done and its answer lost; or it fails after
\* the table has the rows of some months, of all or of none, and the view has nothing.
Insert(rows) ==
  /\ sends < MaxSends /\ sends' = sends + 1
  /\ \/ /\ Store(rows) /\ Count(rows)
        /\ acknowledged' \in {acknowledged, acknowledged \cup {r.n : r \in rows}}
     \/ /\ \E months \in SUBSET {Month[r.time] : r \in rows} : Store(OfMonths(rows, months))
        /\ UNCHANGED <<view, acknowledged>>

NewLog(n) == {[n |-> n, template |-> t, time |-> at] : t \in LogTemplates, at \in Times}

InsertLog ==
  /\ "logs" \in schema /\ next <= MaxLogs /\ next' = next + 1
  /\ \E log \in NewLog(next) : Insert({log})
  /\ UNCHANGED <<schema, early, batch, past>>

PrepareBatch ==
  /\ "logs" \in schema /\ batch.pc = "none" /\ next + BatchSize <= MaxLogs + 1
  /\ \E logs \in [1..BatchSize -> [template : LogTemplates, time : Times]] :
       batch' = [pc |-> "appending", appended |-> 0,
                 logs |-> [i \in 1..BatchSize |-> [n |-> next + i - 1, template |-> logs[i].template,
                                                   time |-> logs[i].time]]]
  /\ next' = next + BatchSize
  /\ UNCHANGED <<schema, early, inserted, past, sends>>

BatchRows(n) == {batch.logs[i] : i \in 1..n}

\* Mutant: each row is sent on its own.
AppendSending ==
  /\ batch.pc = "appending" /\ batch.appended < BatchSize
  /\ \/ /\ sends < MaxSends
        /\ batch' = [batch EXCEPT !.appended = @ + 1]
        /\ Store({batch.logs[batch.appended + 1]}) /\ Count({batch.logs[batch.appended + 1]})
     \/ batch' = [batch EXCEPT !.pc = "failed"] /\ UNCHANGED <<table, everStored, view>>
  /\ UNCHANGED <<schema, early, acknowledged, past, next, sends>>

\* batch.Append only fills a block; a row it refuses ends the call.
AppendRow ==
  /\ batch.pc = "appending" /\ batch.appended < BatchSize
  /\ batch' \in {[batch EXCEPT !.appended = @ + 1], [batch EXCEPT !.pc = "failed"]}
  /\ UNCHANGED <<schema, early, inserted, past, next, sends>>

SendBatch ==
  /\ batch.pc = "appending" /\ batch.appended = BatchSize /\ Insert(BatchRows(BatchSize))
  /\ batch' = [batch EXCEPT !.pc = "sent"]
  /\ UNCHANGED <<schema, early, past, next>>

\* A caller whose batch returned an error sends all of it again.
Retry ==
  /\ \/ batch.pc = "failed"
     \/ batch.pc = "sent" /\ ~({r.n : r \in BatchRows(BatchSize)} \subseteq acknowledged)
  /\ batch' = [batch EXCEPT !.pc = "appending", !.appended = 0]
  /\ UNCHANGED <<schema, early, inserted, past, next, sends>>

----------------------------------------------------------------------------
(* QueryLogs.                                                              *)

Selected(r, template, from) == (template = "any" \/ r.template = template) /\ r.time >= from

\* ORDER BY timestamp DESC LIMIT n: which of several equal times is left to the server.
Newest(S, n) ==
  {T \in SUBSET S :
     /\ Cardinality(T) = IF Cardinality(S) < n THEN Cardinality(S) ELSE n
     /\ \A r \in T, s \in S \ T : r.time >= s.time}

\* Mutant: the limit is taken before the filter.
LimitThenFilter(template, from, n) ==
  {{r \in T : Selected(r, template, from)} : T \in Newest(table, n)}

FilterThenLimit(template, from, n) == Newest({r \in table : Selected(r, template, from)}, n)

\* What QueryLogs may return.  The loop over the rows ends when the connection is lost,
\* too, and rows.Err is not asked: the logs that have arrived are returned without an
\* error, as if they were all.
QueryLogs(template, from) ==
  [rows : FilterThenLimit(template, from, QueryLimit), cut : {FALSE}] \cup
  UNION {[rows : FilterThenLimit(template, from, n), cut : {TRUE}] : n \in 0..(QueryLimit - 1)}

----------------------------------------------------------------------------
(* Time.                                                                   *)

\* Another time is 90 days ago.
TimePasses ==
  /\ \E t \in Times \ past : (\A u \in Times \ past : t <= u) /\ past' = past \cup {t}
  /\ UNCHANGED <<schema, early, batch, inserted, next, sends>>

\* The table's TTL: a merge drops rows that are past it, one sooner, another later.
ExpireRows ==
  /\ \E r \in table : r.time \in past /\ table' = table \ {r}
  /\ UNCHANGED <<schema, early, batch, everStored, view, acknowledged, past, next, sends>>

ClickHouseNext ==
  \/ CreateTables \/ CreateView \/ InsertLog
  \/ PrepareBatch \/ AppendRow \/ SendBatch \/ Retry
  \/ TimePasses \/ ExpireRows

ClickHouseSpec == ClickHouseInit /\ [][ClickHouseNext]_clickHouseVars

----------------------------------------------------------------------------
(* Properties.                                                             *)

ClickHouseTypeOK ==
  /\ schema \subseteq {"logs", "templates", "view"}
  /\ batch \in [pc : {"none", "appending", "failed", "sent"}, appended : 0..BatchSize,
                logs : Seq([n : Nat, template : LogTemplates, time : Times])]
  /\ \A r \in everStored : r.n \in 1..(next - 1) /\ r.template \in LogTemplates /\ r.copy \in 0..MaxSends
  /\ view \in [LogTemplates -> 0..Cardinality(everStored)]
  /\ past \subseteq Times

\* How often a log was stored.
Copies(n) == Cardinality({r \in everStored : r.n = n})

\* The logs of a batch that fall into one month are stored all or none, as often as each
\* other: a row refused halfway leaves nothing behind, and a retry adds whole copies.
\* A batch over several months may be stored in part, when its send failed.
BatchIsAtomic ==
  \A i, j \in DOMAIN batch.logs :
    Month[batch.logs[i].time] = Month[batch.logs[j].time] =>
      Copies(batch.logs[i].n) = Copies(batch.logs[j].n)

\* The view counts nothing that was not stored, duplicates included, and if it was there
\* in time it counts every log whose insert was answered, all of which were stored.  Rows
\* that have expired it goes on counting.
ViewFollowsInserts ==
  \A t \in LogTemplates :
    LET Of(S) == {r \in S : r.template = t}
    IN  /\ view[t] <= Cardinality(Of(everStored)) /\ \A n \in acknowledged : Copies(n) > 0
        /\ early => Cardinality({r.n : r \in Of(everStored)} \cap acknowledged) <= view[t]

\* A query shows every log that matches, whose insert was answered and whose 90 days are
\* not over, unless the answer is full or was cut: then the logs it shows are at least as
\* new.
AnsweredIsThere ==
  \A template \in LogTemplates \cup {"any"}, from \in Times :
    \A answer \in QueryLogs(template, from) :
      \A r \in {s \in everStored : s.n \in acknowledged /\ s.time \notin past} :
        Selected(r, template, from) =>
          \/ \E s \in answer.rows : s.n = r.n
          \/ /\ answer.cut \/ Cardinality(answer.rows) = QueryLimit
             /\ \A s \in answer.rows : s.time >= r.time

\* Only what is past its time has left the table.
TableKeepsRows == table \subseteq everStored /\ \A r \in everStored \ table : r.time \in past

\* The rows of one number are copies of one log, at most as many as there were inserts,
\* and number themselves by those before.
RowsAreCopies ==
  /\ IsFiniteSet(everStored)
  /\ \A r \in everStored : r.copy < Copies(r.n) /\ \A s \in everStored : r.n = s.n => r.template = s.template
  /\ \A n \in 1..(next - 1) : Copies(n) <= sends

\* A batch has numbers of its own, and what is stored under them are its logs.
BatchHasItsNumbers ==
  /\ DOMAIN batch.logs = IF batch.pc = "none" THEN {} ELSE 1..BatchSize
  /\ \A i, j \in DOMAIN batch.logs : batch.logs[i].n = batch.logs[j].n => i = j
  /\ \A i \in DOMAIN batch.logs :
       /\ batch.logs[i].n \in 1..(next - 1) /\ batch.logs[i].template \in LogTemplates
       /\ \A r \in everStored : r.n = batch.logs[i].n => r.template = batch.logs[i].template

\* The inductive invariant.
ClickHouseInv ==
  /\ ClickHouseTypeOK /\ RowsAreCopies /\ BatchHasItsNumbers /\ TableKeepsRows
  /\ BatchIsAtomic /\ ViewFollowsInserts
  /\ next \in 1..(MaxLogs + 1) /\ sends \in 0..MaxSends
  /\ early => "view" \in schema
==============================================================================
