------------------------------ MODULE Platform -------------------------------
(***************************************************************************)
(* The gateway, the experience service and the agent service together:     *)
(* clients talk to the gateway, the gateway to the two services over       *)
(* `wire', the agent to the language model.  Every step is a step of one   *)
(* of the modules, or time passing for all of them.                        *)
(***************************************************************************)
EXTENDS Integers, FiniteSets

CONSTANTS
  Requests, Form, ProxyTimeout, LLMTimeout, TopK, MaxStarts,
  Mixes      \* what may happen in one behaviour: requests, and events of Gateway

ASSUME TimeoutAssumption ==
  /\ ProxyTimeout \in Nat \ {0} /\ LLMTimeout \in Nat \ {0}
  /\ ProxyTimeout < LLMTimeout

ASSUME FormAssumption ==
  /\ IsFiniteSet(Requests) /\ \A m \in Mixes : m \subseteq Requests \cup {"socket", "signal", "crash"}
  /\ TopK \in Nat \ {0} /\ MaxStarts \in Nat \ {0}
  /\ \A r \in Requests : Form[r].follows \subseteq Requests \ {r}

\* Ids are fresh UUIDs: to give feedback on an experience a client has read its id in
\* the answer of the store.
ASSUME IdAssumption ==
  \A r \in Requests :
    Form[r].kind = "feedback" /\ Form[r].about \in Requests => Form[r].about \in Form[r].follows

VARIABLES
  asked, up, wire, conn, socket, gateway,
  experiences, score, call, raced, starts,
  task, watched, chat, ctx, sent, got

G == INSTANCE Gateway
X == INSTANCE Experience
A == INSTANCE Agent

gateways    == <<asked, conn, socket, gateway>>
experienced == <<experiences, score, call, raced, starts>>
agents      == <<task, watched, chat, ctx, sent, got>>
vars  == <<up, wire, gateways, experienced, agents>>

Init == asked \in Mixes /\ G!Init /\ X!Init /\ A!Init

\* POST /ingest of the ingestion service takes the line from a form parameter: the JSON
\* body that the gateway forwards has none, and is refused.
RefuseUpload(r) ==
  /\ Form[r].service = "ingestion" /\ wire[r].pc = "sent"
  /\ wire' = [wire EXCEPT ![r] = [pc |-> "whole", code |-> 400]]
  /\ UNCHANGED <<up, gateways, experienced, agents>>

\* One tick is 30 s: the timeout of the proxy is one, that of the model two.  A
\* connection that was closed is noticed within it.
Tick ==
  /\ \E r \in Requests : G!InProgress(r) \/ (r \in A!Served /\ A!LLM!Waiting(r))
  /\ G!MayTick /\ A!LLM!MayTick
  /\ \A r \in A!Served : wire[r].pc \in {"sent", "closed"} /\ "agent" \in up =>
       task[r] # "none" /\ ~(wire[r].pc = "closed" /\ r \in watched /\ A!LLM!Waiting(r))
  /\ G!Wait /\ A!LLM!Wait
  /\ UNCHANGED <<asked, up, wire, socket, gateway, experienced, task, watched, ctx, sent, got>>

Next ==
  \/ G!Next /\ UNCHANGED <<experienced, agents>>
  \/ X!Next /\ UNCHANGED <<gateways, agents>>
  \/ A!Next /\ UNCHANGED <<gateways, experienced>>
  \/ \E r \in Requests : RefuseUpload(r)
  \/ Tick

Spec == Init /\ [][Next]_vars

\* The handlers of the gateway and of the agent are scheduled, timers go off, Shutdown
\* returns.  Nothing is assumed of clients, of the model, of the experience service
\* and of those who start and stop processes.
Fairness ==
  /\ \A r \in Requests : WF_vars(G!Handler(r) /\ UNCHANGED <<experienced, agents>>)
  /\ \A r \in A!Served :
       /\ WF_vars((A!Ask(r) \/ A!Refuse(r)) /\ UNCHANGED <<gateways, experienced>>)
       /\ WF_vars(A!Disconnect(r) /\ UNCHANGED <<gateways, experienced>>)
       /\ WF_vars(A!Timers(r) /\ UNCHANGED <<gateways, experienced>>)
  /\ WF_vars(G!ShutdownReturns /\ UNCHANGED <<experienced, agents>>)
  /\ WF_vars(Tick)

FairSpec == Spec /\ Fairness

----------------------------------------------------------------------------
(* Properties.                                                             *)

TypeOK == G!TypeOK /\ X!TypeOK /\ A!TypeOK

\* The status line of the answer has left the service.
Answering(r) == wire[r].pc \in {"head", "whole", "torn"}

OK(r) == conn[r].pc = "replied" /\ conn[r].code = 200

\* Answered by the process of the experience service that runs now, or ran last.
Current(r) == OK(r) /\ call[r].start = starts

\* A client that was told 200 for a store finds it kept, whatever else the gateway and
\* the service do meanwhile: until the process ends, and unless two stores raced.
AnsweredStoreIsKept ==
  \A r \in X!Stores :
    Current(r) /\ ~X!Clobbered /\ "experience" \in up => r \in experiences

\* The answers a client may compare: of one process of the service, without data race.
Comparable(R) == ~X!Clobbered /\ \A r \in R : Current(r) /\ ~X!Racing(r)

\* A search may leave out the experience r: it is not a successful one whose signature
\* matches, or there are enough others.
LeavesOut(q, r) ==
  /\ Form[q].kind = "search"
  /\ Form[r].success /\ X!Matches(r, q) => Cardinality(call[q].ids) = TopK

\* A listing sent after the answer of a store shows the experience; so does a search that
\* its signature matches, unless the search is full.
StoresAreShown ==
  \A q \in X!Served, r \in X!Stores :
    /\ G!IsGet(q) /\ Current(r) /\ Comparable({q}) /\ conn[q].whole
    /\ r \in conn[q].after
    => r \in call[q].ids \/ LeavesOut(q, r)

\* Feedback that was answered is in every later listing of its experience.
FeedbackIsShown ==
  \A f, q \in X!Served :
    /\ Form[f].kind = "feedback" /\ Form[f].about \in X!Stores
    /\ Form[q].kind = "list" /\ f \in conn[q].after
    /\ Current(Form[f].about) /\ Comparable({f, q})
    => call[q].scores[Form[f].about] = 1

\* A client reads what it wrote, a store or feedback, if its request is sent after the
\* answer and no request of the three met a data race.
ReadYourWrites == StoresAreShown /\ FeedbackIsShown

\* A request that changes something is run at most once, whatever breaks under it: only
\* a GET is ever sent again.
PostsRunOnce == \A r \in X!Served : ~G!IsGet(r) => call[r].runs <= 1

\* The service of r has run its handler as far as the answer: the experience service has
\* left its map, the model has given a usable answer.
Answers(r) ==
  \/ r \in X!Served /\ Form[r].valid /\ call[r].start > 0 /\ call[r].pc \in {"write", "done", "cut"}
  \/ r \in A!Served /\ chat[r].outcome = "ok" /\ task[r] \in {"writing", "done", "cut"}

\* The handler has returned, its answer is out to the last byte.
Returned(r) == IF r \in X!Served THEN call[r].pc = "done" ELSE r \in A!Served /\ task[r] = "done"

\* Feedback on an experience of the process that answered it has set the score.
ScoreIsSet(f) ==
  Form[f].about \in X!Stores /\ Current(Form[f].about) /\ Comparable({f})
  => score[Form[f].about] = 1

\* A client that is told 200 can rely on it: the service has done the work and got to its
\* answer, even if the process died before the end of it; an answer that is complete came
\* from a handler that returned; feedback has taken effect, unless its experience went
\* with an earlier process or was lost in a data race (the handler accepts it all the
\* same).  No upload is ever told 200: the gateway sends what /ingest does not read.
OkMeansDone ==
  \A r \in Requests : G!Proxied(r) /\ OK(r) =>
    /\ Answers(r)
    /\ conn[r].whole => Returned(r)
    /\ r \in X!Served /\ Form[r].kind = "feedback" => ScoreIsSet(r)

\* The status a client was given is the one the service decided on, or 502.
StatusIsReal(r) ==
  conn[r].pc = "replied" /\ G!Proxied(r) /\ conn[r].code # 502 =>
    /\ r \in X!Served => IF conn[r].code = 200 THEN Form[r].valid /\ call[r].start > 0
                         ELSE ~Form[r].valid
    /\ r \in A!Served => conn[r].code = 200 <=> chat[r].outcome = "ok"
    /\ Form[r].service = "ingestion" => conn[r].code = 400

StatusesAreReal == \A r \in Requests : StatusIsReal(r)

\* The model is asked no longer than the gateway waits, if the connection is watched: a
\* client that was told 502 costs no further call.  (If it is not watched, the call goes
\* on for the timeout of the model.)
ModelWaitIsBounded ==
  \A r \in watched : chat[r].waited <= ProxyTimeout

\* What the exchange says of the request: it is open only while the gateway waits, and
\* the handler is where the answer says.
ExchangeAgrees(r) ==
  /\ conn[r].pc = "new" => wire[r].pc = "none"
  /\ wire[r].pc \in {"sent", "head"} => G!InProgress(r)
  /\ Answering(r) => wire[r].code # 0
  /\ r \in X!Served =>
       /\ wire[r].pc = "none" => call[r].pc = "none"
       /\ wire[r].pc = "head" => call[r].pc = "write"
       /\ wire[r].pc = "whole" => call[r].pc = "done"
       /\ wire[r].pc = "torn" => call[r].pc = "cut"
       /\ Answering(r) => IF wire[r].code = 200 THEN Form[r].valid ELSE ~Form[r].valid
  /\ r \in A!Served =>
       /\ wire[r].pc = "head" => task[r] = "writing"
       /\ wire[r].pc = "whole" => task[r] = "done"
       /\ wire[r].pc = "torn" => task[r] = "cut"
       /\ Answering(r) => wire[r].code = 200 <=> chat[r].outcome = "ok"
  /\ Form[r].service = "ingestion" => wire[r].pc # "head" /\ (Answering(r) => wire[r].code = 400)

ExchangesAgree == \A r \in Requests : ExchangeAgrees(r)

\* A handler runs in the process that runs; a second run is one in a later process, of
\* a request that was sent again.
RunsInProcess(r) ==
  /\ call[r].pc \in {"inside", "encode", "write"} =>
       X!Running /\ Form[r].valid /\ call[r].start = starts
  /\ call[r].pc = "none" => call[r].start = 0 /\ call[r].runs = 0
  /\ call[r].pc # "none" => call[r].start > 0
  /\ call[r].runs <= call[r].start /\ call[r].start <= starts
  /\ call[r].pc = "cut" =>
       /\ X!Running => call[r].start < starts
       /\ ~G!IsGet(r) => wire[r].pc \notin {"sent", "closed"}

RunsInProcesses == \A r \in X!Served : RunsInProcess(r)

\* What was answered stays so: the handler does not run again.
AnswerIsFinal(r) ==
  conn[r].pc = "replied" /\ G!Proxied(r) /\ conn[r].code # 502 =>
    /\ r \in X!Served =>
         /\ call[r].pc \in {"write", "done", "cut"}
         /\ conn[r].whole => call[r].pc = "done"
         /\ call[r].pc = "cut" => wire[r].pc # "closed"
    /\ r \in A!Served =>
         /\ task[r] \in {"writing", "done", "cut"}
         /\ conn[r].whole => task[r] = "done"

AnswersAreFinal == \A r \in Requests : AnswerIsFinal(r)

\* The model is asked while the handler waits for it, and a watched call has not waited
\* longer than the gateway has.
CallAgrees(r) ==
  /\ task[r] = "none" => chat[r].pc = "none"
  /\ chat[r].pc = "none" => chat[r].waited = 0 /\ chat[r].outcome = "none" /\ r \notin watched
  /\ A!LLM!Waiting(r) =>
       /\ task[r] = "asking" /\ A!Running /\ wire[r].pc \in {"sent", "closed"}
       /\ wire[r].pc = "sent" /\ r \in watched => chat[r].waited <= conn[r].waited

CallsAgree == \A r \in A!Served : CallAgrees(r)

\* A client sends what follows after the answers it needs.
AnswersInOrder ==
  /\ \A r \in Requests : conn[r].pc # "new" =>
       \A p \in Form[r].follows : OK(p) /\ conn[p].whole
  /\ \A q \in Requests : \A r \in conn[q].after :
       conn[r].pc = "replied" /\ Form[r].follows \subseteq conn[q].after

\* A store whose handler has left the map is kept while the process runs.
StoreIsKept(r) ==
  /\ call[r].pc \in {"encode", "write", "done"} /\ Form[r].valid
  /\ call[r].start = starts /\ X!Running /\ ~X!Clobbered
  => r \in experiences

StoresAreKept == \A r \in X!Stores : StoreIsKept(r)

\* The handler of a request has left the map, and its answer is under way or out.
HasRun(r) ==
  /\ call[r].pc \in {"encode", "write", "done"} \/ wire[r].pc = "torn" \/ OK(r)
  /\ Form[r].valid /\ call[r].start = starts /\ ~X!Clobbered /\ ~X!Racing(r)

\* It has collected the stores that were answered before it was sent.
StoresAreCollected ==
  \A q \in X!Served, r \in X!Stores :
    HasRun(q) /\ G!IsGet(q) /\ r \in conn[q].after /\ Current(r)
    => r \in call[q].ids \/ LeavesOut(q, r)

\* Feedback has set the score, and a listing that came later has encoded it.
FeedbackIsKept ==
  \A f \in X!Served :
    Form[f].kind = "feedback" /\ Form[f].about \in X!Stores /\ Current(Form[f].about) /\ HasRun(f)
    => /\ score[Form[f].about] = 1
       /\ \A q \in X!Served :
            Form[q].kind = "list" /\ HasRun(q) /\ call[q].pc # "encode"
              /\ f \in conn[q].after /\ OK(f)
            => Form[f].about \in DOMAIN call[q].scores /\ call[q].scores[Form[f].about] = 1

\* The invariant from which PlatformProofs derives the safety properties.
PlatformInv ==
  /\ TypeOK
  /\ ExchangesAgree
  /\ RunsInProcesses
  /\ AnswersAreFinal
  /\ CallsAgree
  /\ AnswersInOrder
  /\ PostsRunOnce /\ StatusesAreReal /\ ModelWaitIsBounded
  /\ StoresAreKept
  /\ StoresAreCollected
  /\ FeedbackIsKept

\* Each request that has reached the gateway is answered, whatever the services do.
RequestsAreAnswered ==
  \A r \in Requests : G!InProgress(r) ~> ~G!InProgress(r)

\* scripts/stop.sh:27, "All services stopped.": a gateway that was sent SIGTERM ends.
GatewayStops == gateway = "stopping" ~> gateway = "exited"
==============================================================================
