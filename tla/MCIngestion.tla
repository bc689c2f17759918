----------------------------- MODULE MCIngestion -----------------------------
(***************************************************************************)
(* Instances of Ingestion for TLC.                                         *)
(***************************************************************************)
EXTENDS Ingestion, TLC

CONSTANTS r1, r2, r3, r4, r5, s1, w1, w2, a, b, v

MCHash(tokens) == <<"tmpl", tokens>>

Post(path, log) == [method |-> "POST", path |-> path, log |-> log]

\* Two lines of one template, a line of blanks, and requests that are answered
\* without the pool.
RequestForm ==
  r1 :> Post("/ingest", <<a, b>>) @@ r2 :> Post("/ingest", <<a, v>>)
    @@ r3 :> Post("/ingest", << >>) @@ r4 :> Post("/ingest", NoLog)
    @@ r5 :> Post("/ingest/batch", NoLog)

WorkersAlike == Permutations({w1, w2})
==============================================================================
