------------------------------- MODULE Gateway -------------------------------
(***************************************************************************)
(* The API gateway of cmd/gateway/main.go: handlers that answer by         *)
(* themselves, handlers that forward to a service and wait at most 30 s,   *)
(* one WebSocket, and main with its goroutine that shuts the server down.  *)
(*                                                                         *)
(* `wire' is the HTTP exchange between the gateway and a service: sent,    *)
(* head (the status line has arrived), whole (the body too), broken and    *)
(* torn (the service died before or after the status line), closed (the    *)
(* gateway hung up).                                                       *)
(***************************************************************************)
EXTENDS Integers, FiniteSets

CONSTANTS
  Requests,      \* the requests clients send, each once
  Form,          \* what each asks for: service, the requests it has to follow
  ProxyTimeout   \* http.Client.Timeout of proxyRequest, in ticks

Services == {"experience", "agent", "ingestion"}

Events == {"socket", "signal", "crash"}

VARIABLES
  asked,         \* the requests that are sent and the events that happen in this
                 \* behaviour: "socket", "signal", "crash"
  up,            \* the services whose process runs
  wire,          \* per request: the exchange with its service
  conn,          \* per request: progress, status, time waited, what it came after
  socket,        \* the WebSocket
  gateway        \* the process: serving, stopping, stopped, exited

Proxied(r)    == Form[r].service \in Services
IsGet(r)      == Form[r].kind \in {"list", "search", "stats"}
InProgress(r) == conn[r].pc = "proxy"
Answered      == {r \in Requests : conn[r].pc = "replied"}
Expired(r)    == conn[r].waited >= ProxyTimeout

Init ==
  /\ up = Services
  /\ wire = [r \in Requests |-> [pc |-> "none", code |-> 0]]
  /\ conn = [r \in Requests |->
               [pc |-> "new", code |-> 0, whole |-> TRUE, waited |-> 0, after |-> {}]]
  /\ socket = "none"
  /\ gateway = "serving"

----------------------------------------------------------------------------
(* Requests.                                                               *)

\* A client that needs an id out of an earlier answer has waited for it.
Arrives(r) ==
  /\ r \in asked /\ conn[r].pc = "new" /\ gateway = "serving"
  /\ \A q \in Form[r].follows : q \in Answered /\ conn[q].code = 200 /\ conn[q].whole

Reply(r, code, whole) ==
  conn' = [conn EXCEPT ![r].pc = "replied", ![r].code = code, ![r].whole = whole,
                       ![r].waited = 0, ![r].after = IF conn[r].pc = "new" THEN Answered ELSE @]

\* Mutant: the request goes on after the gateway has given it up.
LeaveOpen(r) == wire' = wire

HangUp(r) ==
  wire' = IF wire[r].pc \in {"sent", "head"} THEN [wire EXCEPT ![r].pc = "closed"] ELSE wire

\* The handlers that answer from constants.
AnswerStatic(r) ==
  /\ Arrives(r) /\ ~Proxied(r)
  /\ Reply(r, 200, TRUE)
  /\ UNCHANGED <<asked, up, wire, socket, gateway>>

\* proxyRequest sends the request; nobody listening is an error at once.
Forward(r) ==
  /\ Arrives(r) /\ Proxied(r)
  /\ \/ /\ Form[r].service \in up
        /\ wire' = [wire EXCEPT ![r].pc = "sent"]
        /\ conn' = [conn EXCEPT ![r].pc = "proxy", ![r].after = Answered]
     \/ /\ Form[r].service \notin up
        /\ Reply(r, 502, TRUE)
        /\ UNCHANGED wire
  /\ UNCHANGED <<asked, up, socket, gateway>>

\* Mutant: any request is sent again.
ResendAny(r) ==
  /\ conn[r].pc = "proxy" /\ wire[r].pc = "broken" /\ Form[r].service \in up
  /\ wire' = [wire EXCEPT ![r].pc = "sent"]
  /\ UNCHANGED <<asked, up, conn, socket, gateway>>

\* http.Transport may send a GET again when a reused connection broke before the
\* status arrived; a POST whose body has been read it does not.
Resend(r) ==
  /\ conn[r].pc = "proxy" /\ wire[r].pc = "broken" /\ IsGet(r) /\ Form[r].service \in up
  /\ wire' = [wire EXCEPT ![r].pc = "sent"]
  /\ UNCHANGED <<asked, up, conn, socket, gateway>>

\* Mutant: the client has no timeout.
BadGatewayBroken(r) ==
  /\ conn[r].pc = "proxy" /\ wire[r].pc = "broken"
  /\ Reply(r, 502, TRUE) /\ HangUp(r)
  /\ UNCHANGED <<asked, up, socket, gateway>>

\* Mutant: the error of client.Do is not looked at.
BadGatewayUnseen(r) ==
  /\ conn[r].pc = "proxy" /\ (wire[r].pc = "broken" \/ Expired(r))
  /\ Reply(r, wire[r].code, TRUE) /\ HangUp(r)
  /\ UNCHANGED <<asked, up, socket, gateway>>

\* The connection fails or the 30 s are over before client.Do has the status.
BadGateway(r) ==
  /\ conn[r].pc = "proxy" /\ (wire[r].pc = "broken" \/ Expired(r))
  /\ Reply(r, 502, TRUE) /\ HangUp(r)
  /\ UNCHANGED <<asked, up, socket, gateway>>

\* Mutant: the status of the service is not looked at.
RelayOK(r) ==
  /\ conn[r].pc = "proxy"
  /\ \/ wire[r].pc = "whole" /\ Reply(r, 200, TRUE) /\ UNCHANGED wire
     \/ /\ wire[r].pc = "torn" \/ (wire[r].pc = "head" /\ Expired(r))
        /\ Reply(r, 200, FALSE) /\ HangUp(r)
  /\ UNCHANGED <<asked, up, socket, gateway>>

\* io.ReadAll reads to the end, or fails: its error is dropped, and what was read
\* goes out under the status of the service.
Relay(r) ==
  /\ conn[r].pc = "proxy"
  /\ \/ wire[r].pc = "whole" /\ Reply(r, wire[r].code, TRUE) /\ UNCHANGED wire
     \/ /\ wire[r].pc = "torn" \/ (wire[r].pc = "head" /\ Expired(r))
        /\ Reply(r, wire[r].code, FALSE) /\ HangUp(r)
  /\ UNCHANGED <<asked, up, socket, gateway>>

Handler(r) == Resend(r) \/ BadGateway(r) \/ Relay(r)

----------------------------------------------------------------------------
(* The WebSocket: the handler ends when a write of its ticker fails.       *)

WebSocket ==
  /\ "socket" \in asked /\ gateway # "exited"
  /\ \/ socket = "none" /\ gateway = "serving" /\ socket' = "open"
     \/ socket = "open" /\ socket' = "left"
     \/ socket = "left" /\ socket' = "closed"
  /\ UNCHANGED <<asked, up, wire, conn, gateway>>

----------------------------------------------------------------------------
(* The process.                                                            *)

\* SIGTERM: a goroutine of main calls Shutdown, which closes the listener...
Signal ==
  /\ "signal" \in asked /\ gateway = "serving" /\ gateway' = "stopping"
  /\ UNCHANGED <<asked, up, wire, conn, socket>>

\* ... and returns when no request is in progress; hijacked connections do not count.
\* main waits for a context that only its own return would cancel.
ShutdownReturns ==
  /\ gateway = "stopping" /\ \A r \in Requests : ~InProgress(r)
  /\ gateway' = "stopped"
  /\ UNCHANGED <<asked, up, wire, conn, socket>>

\* SIGKILL, from an operator or an orchestrator that has lost patience.
Kill ==
  /\ gateway \in {"stopping", "stopped"} /\ gateway' = "exited"
  /\ socket' = IF socket = "none" THEN "none" ELSE "closed"
  /\ conn' = [r \in Requests |-> IF InProgress(r) THEN [conn[r] EXCEPT !.pc = "cut"] ELSE conn[r]]
  /\ wire' = [r \in Requests |-> IF wire[r].pc \in {"sent", "head"}
                                  THEN [wire[r] EXCEPT !.pc = "closed"] ELSE wire[r]]
  /\ UNCHANGED <<asked, up>>

Next ==
  \/ \E r \in Requests : AnswerStatic(r) \/ Forward(r) \/ Handler(r)
  \/ WebSocket \/ Signal \/ ShutdownReturns \/ Kill

\* Time passes for the requests in progress; a timer that is due goes off first.
MayTick == \A r \in Requests : InProgress(r) => ~Expired(r)

Wait ==
  conn' = [r \in Requests |->
             IF InProgress(r) THEN [conn[r] EXCEPT !.waited = @ + 1] ELSE conn[r]]

TypeOK ==
  /\ asked \subseteq Requests \cup Events /\ up \subseteq Services
  /\ wire \in [Requests -> [pc : {"none", "sent", "head", "whole", "broken", "torn", "closed"},
                            code : {0, 200, 400, 500}]]
  /\ conn \in [Requests -> [pc : {"new", "proxy", "replied", "cut"},
                            code : {0, 200, 400, 500, 502}, whole : BOOLEAN,
                            waited : 0..ProxyTimeout, after : SUBSET Requests]]
  /\ \A r \in Answered : conn[r].code # 0
  /\ socket \in {"none", "open", "left", "closed"}
  /\ gateway \in {"serving", "stopping", "stopped", "exited"}
==============================================================================
