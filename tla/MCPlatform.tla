------------------------------ MODULE MCPlatform ------------------------------
(***************************************************************************)
(* Instances of Platform for TLC.  A behaviour sends one of a few mixes of *)
(* requests, each chosen for a case: racing stores and a reader, feedback, *)
(* a search that is full, refusals and requests that go nowhere, calls of  *)
(* the model.                                                              *)
(***************************************************************************)
EXTENDS Platform

Ask(service, kind) ==
  [service |-> service, kind |-> kind, valid |-> TRUE, success |-> TRUE,
   about |-> "none", follows |-> {}, signature |-> [text |-> "", length |-> 0]]

With(form, text, length) == [form EXCEPT !.signature = [text |-> text, length |-> length]]

After1(kind) == [Ask("experience", kind) EXCEPT !.about = "store1", !.follows = {"store1"}]

\* The signature of store1 is the one that is searched for, that of store2 a longer one,
\* that of other another one of the same length.
MCForm ==
  [r \in {"store1", "store2", "other", "feedback", "list", "search", "badstore",
          "analyze", "fix", "badfix", "upload", "static"} |->
     CASE r = "store1" -> With(Ask("experience", "store"), "nil", 3)
       [] r = "store2" -> With(Ask("experience", "store"), "panic", 5)
       [] r = "other"  -> With(Ask("experience", "store"), "oom", 3)
       [] r = "search" -> With(After1("search"), "nil", 3)
       [] r = "feedback" -> After1("feedback")
       [] r = "list" -> Ask("experience", "list")
       [] r = "badstore" -> [Ask("experience", "store") EXCEPT !.valid = FALSE]
       [] r = "badfix"   -> [Ask("agent", "fix") EXCEPT !.valid = FALSE]
       [] r \in {"analyze", "fix"} -> Ask("agent", r)
       [] r = "upload" -> Ask("ingestion", "upload")
       [] OTHER -> Ask("gateway", r)]

MCRequests == DOMAIN MCForm

\* The mixes of the safety and liveness run.
MCMixes == {{"store1", "feedback", "list"}, {"store1", "store2", "search"},
            {"store1", "other", "search"}, {"store1", "feedback", "crash"},
            {"store1", "list", "crash"}, {"badstore", "upload", "static", "socket"},
            {"store1", "signal"}, {"analyze", "signal"}, {"fix", "badfix", "crash"}}

\* The mixes of the run about the end of the gateway.
StopMixes == {{"static", "signal"}, {"fix", "signal"}}
==============================================================================
