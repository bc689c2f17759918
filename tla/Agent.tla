-------------------------------- MODULE Agent --------------------------------
(***************************************************************************)
(* The agent service of cmd/agent/main.go: /analyze and /fix decode a      *)
(* request, call the language model under the context of the request and   *)
(* encode the answer.  It keeps nothing between requests.                  *)
(***************************************************************************)
EXTENDS Integers

CONSTANTS
  Requests,
  Form,         \* service, kind (analyze or fix), valid
  LLMTimeout    \* the timeout NewAgentService gives its client, in ticks

VARIABLES
  asked, up, wire,
  task,         \* per request: where its handler is
  watched,      \* the requests whose connection net/http watches
  chat, ctx, sent, got

Served == {r \in Requests : Form[r].service = "agent"}
Running == "agent" \in up

LLM == INSTANCE LLMClient WITH
  Calls <- Served, Kind <- [r \in Served |-> Form[r].kind], Timeout <- LLMTimeout, Tokens <- 0

llm == <<chat, ctx, sent, got>>

Init ==
  /\ task = [r \in Served |-> "none"]
  /\ watched = {}
  /\ LLM!Init

Received(r) == Running /\ task[r] = "none" /\ wire[r].pc \in {"sent", "closed"}

Refuse(r) ==
  /\ Received(r) /\ ~Form[r].valid
  /\ task' = [task EXCEPT ![r] = "done"]
  /\ wire' = IF wire[r].pc = "sent" THEN [wire EXCEPT ![r] = [pc |-> "whole", code |-> 400]] ELSE wire
  /\ UNCHANGED <<up, watched, llm>>

\* Analyze and GenerateFix.  net/http watches the connection once the body is read to
\* its end; the decoder stops at the closing brace, and of a chunked body, which is how
\* the gateway sends it, the last chunk may not have arrived by then.
Ask(r) ==
  /\ Received(r) /\ Form[r].valid
  /\ watched' \in {watched, watched \cup {r}}
  /\ task' = [task EXCEPT ![r] = "asking"]
  /\ LLM!Call(r)
  /\ UNCHANGED <<up, wire>>

\* The context of a request is done when its watched connection is closed.
Disconnect(r) ==
  /\ Running /\ task[r] = "asking" /\ r \in watched /\ wire[r].pc = "closed"
  /\ LLM!CallerLeaves(r)
  /\ UNCHANGED <<up, wire, task, watched>>

ModelReturns(r) ==
  /\ Running /\ task[r] = "asking"
  /\ LLM!Finish(r)
  /\ UNCHANGED <<up, wire, task, watched>>

Timers(r) ==
  /\ Running /\ task[r] = "asking"
  /\ LLM!Timers(r)
  /\ UNCHANGED <<up, wire, task, watched>>

\* Mutant: the error of the call is only logged.
EncodeAnyway(r) ==
  /\ Running /\ task[r] = "asking" /\ chat[r].pc = "returned"
  /\ task' = [task EXCEPT ![r] = "writing"]
  /\ wire' = IF wire[r].pc = "sent" THEN [wire EXCEPT ![r] = [pc |-> "head", code |-> 200]] ELSE wire
  /\ UNCHANGED <<up, watched, llm>>

Encode(r) ==
  /\ Running /\ task[r] = "asking" /\ chat[r].pc = "returned"
  /\ task' = [task EXCEPT ![r] = "writing"]
  /\ wire' = IF wire[r].pc = "sent"
             THEN [wire EXCEPT ![r] = [pc |-> "head",
                                       code |-> IF chat[r].outcome = "ok" THEN 200 ELSE 500]]
             ELSE wire
  /\ UNCHANGED <<up, watched, llm>>

Write(r) ==
  /\ Running /\ task[r] = "writing"
  /\ task' = [task EXCEPT ![r] = "done"]
  /\ wire' = IF wire[r].pc = "head" THEN [wire EXCEPT ![r].pc = "whole"] ELSE wire
  /\ UNCHANGED <<up, watched, llm>>

Handler(r) == Refuse(r) \/ Ask(r) \/ Disconnect(r) \/ ModelReturns(r) \/ Encode(r) \/ Write(r)

Break(r) == CASE wire[r].pc \in {"sent", "closed"} -> [wire[r] EXCEPT !.pc = "broken"]
              [] wire[r].pc = "head" -> [wire[r] EXCEPT !.pc = "torn"]
              [] OTHER -> wire[r]

\* SIGTERM: main cancels its context, which no handler looks at, and returns.  The
\* open calls of the model go with the process.
Terminate ==
  /\ "crash" \in asked /\ Running /\ up' = up \ {"agent"}
  /\ wire' = [r \in Requests |-> IF r \in Served THEN Break(r) ELSE wire[r]]
  /\ task' = [r \in Served |-> IF task[r] \in {"asking", "writing"} THEN "cut" ELSE task[r]]
  /\ chat' = [r \in Served |->
       IF chat[r].pc = "waiting" THEN [chat[r] EXCEPT !.pc = "returned", !.outcome = "cancelled"]
       ELSE chat[r]]
  /\ UNCHANGED <<watched, ctx, sent, got>>

Next == (\E r \in Served : Handler(r)) \/ Terminate

TypeOK ==
  /\ watched \subseteq Served
  /\ task \in [Served -> {"none", "asking", "writing", "done", "cut"}]
  /\ LLM!TypeOK
==============================================================================
