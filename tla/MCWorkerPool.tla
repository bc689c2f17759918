---------------------------- MODULE MCWorkerPool -----------------------------
(***************************************************************************)
(* Instances of WorkerPool for TLC.                                        *)
(***************************************************************************)
EXTENDS WorkerPool, TLC

CONSTANTS w1, w2, m1, m2, b1, b2, n1, n2, n3

NoBatch    == << >>
OneBatch   == b1 :> <<n1, n2>>
TwoBatches == b1 :> <<n1, n2>> @@ b2 :> <<n3>>
==============================================================================
