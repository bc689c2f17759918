----------------------------- MODULE MCDrainTree -----------------------------
(***************************************************************************)
(* Instances of DrainTree for TLC.  The hash is the token sequence itself, *)
(* the one injective function that needs no table.                         *)
(***************************************************************************)
EXTENDS DrainTree

CONSTANTS a, b, c, v, w  \* words a, b, c and variables v, w

MCHash(tokens) == <<"tmpl", tokens>>

\* Lines of two and three tokens that share leaves, reach each other's leaves
\* over the wildcard child and generalize one another's templates.
MCLogs ==
  {<< >>, <<a>>, <<v>>, <<a, b, c>>, <<a, c, c>>, <<a, v, b>>, <<a, w, a>>, <<v, b, c>>}

CONSTANTS User, john, jane, logged, in, from, Server, started, on, port

\* The three lines of drain_test.go:30-32, v and w for the addresses.
John == <<User, john, logged, in, from, v>>
Jane == <<User, jane, logged, in, from, w>>
GroupingLogs == {John, Jane, <<Server, started, on, port, v>>}

\* drain_test.go:34 expects IsNew=false of the line that differs from an earlier
\* one in the user name and the address only.
SecondUserIsKnown ==
  \A m, n \in DOMAIN parsed :
    m < n /\ parsed[m].log = John /\ parsed[n].log = Jane => ~parsed[n].IsNew
==============================================================================
