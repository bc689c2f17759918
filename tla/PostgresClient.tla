---------------------------- MODULE PostgresClient ----------------------------
(***************************************************************************)
(* The Postgres client of internal/storage/postgres/client.go: the schema  *)
(* in three statements, experiences with feedback and a reference counter, *)
(* alerts.  Every call is one statement of its own transaction, and its    *)
(* answer may be lost; what takes several calls, the schema and the pages  *)
(* of a listing, is interleaved with everything else.                      *)
(***************************************************************************)
EXTENDS Integers, Sequences, FiniteSets

CONSTANTS
  Installers,   \* the processes that call InitSchema
  PageLimit, OnlySuccessful, \* of ListExperiences
  Scores,       \* the scores of feedback
  Instants,     \* the values of created_at
  MaxRows,      \* bound on the experiences
  MaxAlerts,    \* bound on the alerts
  MaxUpdates,   \* bound on the updates of one row
  MaxFailures   \* bound on the statements that fail or lose their answer

Tables == {"experiences", "alerts", "fix_history"}

\* The bounds are numbers; what the proofs need of the constants.
ASSUME PostgresAssumption ==
  /\ OnlySuccessful \in BOOLEAN /\ Instants \subseteq Nat
  /\ {PageLimit, MaxRows, MaxAlerts, MaxUpdates, MaxFailures} \subseteq Nat

VARIABLES
  tables,       \* the tables that exist
  installer,    \* installer -> the step it is at, 4: returned nil, 0: returned an error
  rows,         \* the experiences in the order of their INSERTs:
                \* [success, score, refs, created, updated]
  alerts,       \* the statuses of the alerts in that order
  clock,        \* numbers the updates: updated_at
  pager,        \* a reader of all pages: offset, ids read, ids there when it began,
                \* whether a page was cut
  failures

database     == <<rows, alerts, clock>>
postgresVars == <<tables, installer, database, pager, failures>>

PostgresInit ==
  /\ tables = {} /\ installer = [i \in Installers |-> 1]
  /\ rows = << >> /\ alerts = << >> /\ clock = 0
  /\ pager = [pc |-> "idle", offset |-> 0, read |-> {}, there |-> {}, cut |-> FALSE]
  /\ failures = 0

Ready == Tables \subseteq tables

----------------------------------------------------------------------------
(* InitSchema.                                                             *)

\* Mutant: the table with the references comes first.
TableReversed(step) == <<"fix_history", "alerts", "experiences">>[step]

Table(step) == <<"experiences", "alerts", "fix_history">>[step]

\* fix_history references the other two.
References(table) == IF table = "fix_history" THEN {"experiences", "alerts"} ELSE {}

\* CREATE TABLE IF NOT EXISTS: the next installer, or the next attempt, finds what the
\* last one has left.
Create(i) ==
  /\ installer[i] \in 1..3
  /\ References(Table(installer[i])) \subseteq tables
  /\ tables' = tables \cup {Table(installer[i])}
  /\ installer' = [installer EXCEPT ![i] = @ + 1]
  /\ UNCHANGED <<database, pager, failures>>

\* Any statement may fail, a reference to a table that is missing always does:
\* InitSchema returns at once, the statements before it stay done.
CreateFails(i) ==
  /\ installer[i] \in 1..3
  /\ \/ failures < MaxFailures /\ failures' = failures + 1
     \/ ~(References(Table(installer[i])) \subseteq tables) /\ UNCHANGED failures
  /\ installer' = [installer EXCEPT ![i] = 0]
  /\ UNCHANGED <<tables, database, pager>>

InitSchemaAgain(i) ==
  /\ installer[i] = 0 /\ installer' = [installer EXCEPT ![i] = 1]
  /\ UNCHANGED <<tables, database, pager, failures>>

----------------------------------------------------------------------------
(* Experiences.                                                            *)

\* INSERT ... RETURNING id.  created_at is the time at which the transaction began: rows
\* may share it, and may come in another order.  An answer that is lost is an error, and
\* the row is there; a caller that tries again has two.
CreateExperience ==
  /\ Ready /\ Len(rows) < MaxRows
  /\ \E success \in BOOLEAN, created \in Instants :
       rows' = Append(rows, [success |-> success, score |-> 0, refs |-> 0,
                             created |-> created, updated |-> clock + 1])
  /\ clock' = clock + 1
  /\ \/ UNCHANGED failures
     \/ failures < MaxFailures /\ failures' = failures + 1
  /\ UNCHANGED <<tables, installer, alerts, pager>>

Touch(id, row) == rows' = [rows EXCEPT ![id] = [row EXCEPT !.updated = clock + 1]] /\ clock' = clock + 1

UpdateFeedback(id) ==
  /\ Ready /\ clock < MaxRows + MaxUpdates
  /\ \E score \in Scores : Touch(id, [rows[id] EXCEPT !.score = score])
  /\ UNCHANGED <<tables, installer, alerts, pager, failures>>

\* times_referenced = times_referenced + 1 is done by the server.
IncrementReferences(id) ==
  /\ Ready /\ clock < MaxRows + MaxUpdates
  /\ Touch(id, [rows[id] EXCEPT !.refs = @ + 1])
  /\ UNCHANGED <<tables, installer, alerts, pager, failures>>

----------------------------------------------------------------------------
(* ListExperiences, page after page, by a caller that stops at a short one. *)

Listed == {id \in DOMAIN rows : OnlySuccessful => rows[id].success}

\* Mutant: ORDER BY updated_at DESC.
ComesBeforeByUpdate(j, id) == rows[j].updated > rows[id].updated

\* ORDER BY created_at DESC, and nothing else.
ComesBefore(j, id) == rows[j].created > rows[id].created

\* The first n rows of the order, in one of the orders of the rows with equal times.
FirstRows(n) ==
  {S \in SUBSET Listed :
     /\ Cardinality(S) = IF n < Cardinality(Listed) THEN n ELSE Cardinality(Listed)
     /\ \A id \in S, j \in Listed : ComesBefore(j, id) => j \in S}

\* LIMIT n OFFSET offset.
Pages(offset, n) == {P \in SUBSET Listed :
  \E S \in FirstRows(offset) : P \cap S = {} /\ P \cup S \in FirstRows(offset + n)}

BeginListing ==
  /\ Ready /\ pager.pc = "idle"
  /\ pager' = [pager EXCEPT !.pc = "paging", !.there = Listed]
  /\ UNCHANGED <<tables, installer, database, failures>>

\* The reader stops at a page that is not full.
Read(page, cut) ==
  pager' = [pager EXCEPT !.offset = @ + PageLimit, !.read = @ \cup page, !.cut = cut,
                         !.pc = IF Cardinality(page) < PageLimit THEN "done" ELSE @]

\* Rows created meanwhile move the others back: the next page repeats some.  The loop
\* ends when the connection is lost, too, and rows.Err is not asked: what has arrived of
\* the page is returned without an error.
ListPage ==
  /\ pager.pc = "paging"
  /\ \/ (\E page \in Pages(pager.offset, PageLimit) : Read(page, FALSE)) /\ UNCHANGED failures
     \/ /\ failures < MaxFailures /\ failures' = failures + 1
        /\ \E n \in 0..(PageLimit - 1) : \E page \in Pages(pager.offset, n) : Read(page, TRUE)
  /\ UNCHANGED <<tables, installer, database>>

----------------------------------------------------------------------------
(* Alerts.                                                                 *)

CreateAlert ==
  /\ Ready /\ Len(alerts) < MaxAlerts
  /\ alerts' = Append(alerts, "open")
  /\ UNCHANGED <<tables, installer, rows, clock, pager, failures>>

\* Resolving twice moves resolved_at; an id without row is accepted.
ResolveAlert(id) ==
  /\ Ready
  /\ alerts' = IF id \in DOMAIN alerts THEN [alerts EXCEPT ![id] = "resolved"] ELSE alerts
  /\ UNCHANGED <<tables, installer, rows, clock, pager, failures>>

Installs(i) == Create(i) \/ CreateFails(i) \/ InitSchemaAgain(i)

PostgresNext ==
  \/ \E i \in Installers : Installs(i)
  \/ CreateExperience
  \/ \E id \in DOMAIN rows : UpdateFeedback(id) \/ IncrementReferences(id)
  \/ BeginListing \/ ListPage
  \/ CreateAlert \/ \E id \in 1..(MaxAlerts + 1) : ResolveAlert(id)

PostgresSpec == PostgresInit /\ [][PostgresNext]_postgresVars

----------------------------------------------------------------------------
(* Properties.                                                             *)

PostgresTypeOK ==
  /\ tables \subseteq Tables /\ installer \in [Installers -> 0..4]
  /\ Len(rows) <= MaxRows /\ Len(alerts) <= MaxAlerts /\ clock \in Nat
  /\ rows \in Seq([success : BOOLEAN, score : Scores \cup {0}, refs : Nat,
                    created : Instants, updated : 1..clock])
  /\ alerts \in Seq({"open", "resolved"})
  /\ pager \in [pc : {"idle", "paging", "done"}, offset : Nat,
                read : SUBSET DOMAIN rows, there : SUBSET DOMAIN rows, cut : BOOLEAN]
  /\ failures \in 0..MaxFailures

\* The schema comes to be complete, whoever installs it and whichever statement fails:
\* each attempt goes on where the last one stopped.
SchemaGetsReady == <>[]Ready

\* Another row has the same created_at: their order is open, and may be another one for
\* the next page.
Tied(id) == \E j \in Listed \ {id} : rows[j].created = rows[id].created

\* A listing read in pages shows every experience that was there when it began, while
\* others are created and updated: unless the experience shares its created_at with
\* another, or the connection was lost in a page, which the reader cannot tell from the
\* last one.
ListingIsComplete ==
  pager.pc = "done" /\ ~pager.cut => \A id \in pager.there : id \in pager.read \/ Tied(id)

\* The order of the statements is that of the references: InitSchema returns nil only
\* when the schema is complete, and nothing is stored before.
SchemaInOrder ==
  /\ \A i \in Installers : \A step \in 1..(installer[i] - 1) : Table(step) \in tables
  /\ \A table \in tables : References(table) \subseteq tables
  /\ rows # << >> \/ alerts # << >> \/ pager.pc # "idle" => Ready

\* How many rows come before one.
Rank(id) == Cardinality({j \in Listed : ComesBefore(j, id)})

\* What a listing has passed over it has read: rows only move back.
PagesCover ==
  /\ pager.there \subseteq Listed /\ (pager.pc = "idle" => pager.offset = 0)
  /\ pager.cut => pager.pc = "done"
  /\ pager.pc = "paging" =>
       \A id \in pager.there : Rank(id) < pager.offset => id \in pager.read \/ Tied(id)

\* The inductive invariant.
PostgresInv ==
  PostgresTypeOK /\ ListingIsComplete /\ SchemaInOrder /\ PagesCover
==============================================================================
