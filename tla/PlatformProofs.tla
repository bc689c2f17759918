---------------------------- MODULE PlatformProofs ----------------------------
(***************************************************************************)
(* Proofs about Platform, for every finite set of requests of every form,  *)
(* every mix of them, every pair of timeouts and every number of processes *)
(* of the experience service that satisfy the assumptions of that module.  *)
(***************************************************************************)
EXTENDS Platform, FiniteSetTheorems, TLAPS

----------------------------------------------------------------------------
(* Initial states.                                                         *)

LEMMA InitType == Init => TypeOK
<1>. SUFFICES ASSUME Init PROVE TypeOK
  OBVIOUS
<1>1. A!LLM!TypeOK
  BY TimeoutAssumption DEF Init, A!Init, A!LLM!Init, A!LLM!TypeOK
<1>2. A!TypeOK
  BY <1>1 DEF Init, A!Init, A!TypeOK
<1>3. X!NoScores \in X!Scores
  <2>1. X!NoScores \in [{} -> {0, 1}]
    BY DEF X!NoScores
  <2>. QED  BY <2>1 DEF X!Scores
<1>4. X!TypeOK
  BY <1>3, FormAssumption DEF Init, X!Init, X!TypeOK
<1>5. G!TypeOK
  BY TimeoutAssumption, FormAssumption DEF Init, G!Init, G!TypeOK, G!Services, G!Events, G!Answered
<1>. QED  BY <1>2, <1>4, <1>5 DEF TypeOK

LEMMA InitInv == Init => PlatformInv
<1>. SUFFICES ASSUME Init PROVE PlatformInv
  OBVIOUS
<1>1. \A r \in Requests :
        /\ conn[r].pc = "new" /\ conn[r].after = {} /\ wire[r].pc = "none"
        /\ ~OK(r) /\ ~Answering(r)
  BY DEF Init, G!Init, OK, Answering
<1>2. \A r \in X!Served : /\ r \in Requests /\ call[r].pc = "none"
                          /\ call[r].runs = 0 /\ call[r].start = 0 /\ starts = 1
  BY DEF Init, X!Init, X!Served
<1>3. \A r \in A!Served : /\ r \in Requests /\ task[r] = "none" /\ chat[r].pc = "none"
                          /\ chat[r].waited = 0 /\ chat[r].outcome = "none"
  BY DEF Init, A!Init, A!LLM!Init, A!Served
<1>4. \A r \in X!Served : ~HasRun(r)
  BY <1>1, <1>2 DEF HasRun
<1>5. ExchangesAgree
  BY <1>1, <1>2, <1>3 DEF ExchangesAgree, ExchangeAgrees
<1>6. RunsInProcesses /\ PostsRunOnce
  BY <1>2 DEF RunsInProcesses, RunsInProcess, PostsRunOnce
<1>7. AnswersAreFinal /\ StatusesAreReal
  BY <1>1 DEF AnswersAreFinal, AnswerIsFinal, StatusesAreReal, StatusIsReal
<1>8. CallsAgree /\ ModelWaitIsBounded
  <2>1. watched = {}
    BY DEF Init, A!Init
  <2>. QED  BY <1>3, <2>1 DEF CallsAgree, CallAgrees, ModelWaitIsBounded, A!LLM!Waiting
<1>9. AnswersInOrder
  BY <1>1 DEF AnswersInOrder
<1>10. StoresAreKept
  BY <1>2 DEF StoresAreKept, StoreIsKept, X!Stores
<1>11. StoresAreCollected /\ FeedbackIsKept
  BY <1>4 DEF StoresAreCollected, FeedbackIsKept
<1>. QED  BY InitType, <1>5, <1>6, <1>7, <1>8, <1>9, <1>10, <1>11 DEF PlatformInv

----------------------------------------------------------------------------
(* Types.                                                                  *)

ConnPc   == {"new", "proxy", "replied", "cut"}
ConnCode == {0, 200, 400, 500, 502}
Status   == {200, 400, 500, 502}
Waits    == 0..ProxyTimeout
ConnRec  == [pc : ConnPc, code : ConnCode, whole : BOOLEAN, waited : Waits,
             after : SUBSET Requests]
ConnType == [Requests -> ConnRec]

WirePc   == {"none", "sent", "head", "whole", "broken", "torn", "closed"}
WireCode == {0, 200, 400, 500}
WireRec  == [pc : WirePc, code : WireCode]
WireType == [Requests -> WireRec]

Replies(r, code) == G!Reply(r, code, TRUE) \/ G!Reply(r, code, FALSE)

\* The type invariant of the gateway in these words.
LEMMA GatewayTypes ==
  G!TypeOK <=>
    /\ asked \subseteq Requests \cup G!Events /\ up \subseteq G!Services
    /\ wire \in WireType /\ conn \in ConnType
    /\ \A r \in G!Answered : conn[r].code # 0
    /\ socket \in {"none", "open", "left", "closed"}
    /\ gateway \in {"serving", "stopping", "stopped", "exited"}
BY DEF G!TypeOK, WireType, WireRec, WirePc, WireCode, ConnType, ConnRec, ConnPc, ConnCode, Waits

\* Where a request may be, what it may be answered.
LEMMA PcFacts ==
  /\ "new" \in ConnPc /\ "proxy" \in ConnPc /\ "replied" \in ConnPc /\ "cut" \in ConnPc
  /\ 0 \in Waits /\ WireCode \subseteq ConnCode
  /\ Status = ConnCode \ {0} /\ WireCode \ {0} \subseteq Status
  /\ 200 \in Status /\ 502 \in Status /\ 200 \in WireCode /\ 400 \in WireCode /\ 500 \in WireCode
  /\ \A pc \in {"none", "sent", "head", "whole", "broken", "torn", "closed"} : pc \in WirePc
BY TimeoutAssumption DEF ConnPc, ConnCode, Status, Waits, WirePc, WireCode

\* A change of a field leaves a connection a connection.
LEMMA ConnUpdate ==
  ASSUME NEW c \in ConnRec, NEW pc \in ConnPc, NEW code \in ConnCode, NEW whole \in BOOLEAN,
         NEW waited \in Waits, NEW after \in SUBSET Requests
  PROVE  /\ [c EXCEPT !.pc = pc, !.code = code, !.whole = whole, !.waited = waited,
                      !.after = after] \in ConnRec
         /\ [c EXCEPT !.pc = pc, !.after = after] \in ConnRec
         /\ [c EXCEPT !.pc = pc] \in ConnRec
         /\ [c EXCEPT !.waited = waited] \in ConnRec
BY DEF ConnRec

\* A change of a field, or a new exchange, leaves the wire its type.
LEMMA WireUpdate ==
  ASSUME NEW c \in WireRec, NEW pc \in WirePc, NEW code \in WireCode
  PROVE  /\ [c EXCEPT !.pc = pc] \in WireRec
         /\ [pc |-> pc, code |-> code] \in WireRec
BY DEF WireRec

\* A reply has a status and is the one entry of conn that changes.
LEMMA ReplyType ==
  ASSUME G!TypeOK, NEW r \in Requests, NEW code \in Status, Replies(r, code)
  PROVE  /\ conn' \in ConnType
         /\ \A q \in G!Answered' : conn'[q].code # 0
<1>0. /\ conn \in ConnType /\ \A q \in G!Answered : conn[q].code # 0
      /\ conn \in [Requests -> ConnRec] /\ conn[r] \in ConnRec
  BY GatewayTypes DEF ConnType
<1>1. PICK whole \in BOOLEAN, after \in SUBSET Requests :
        conn' = [conn EXCEPT ![r].pc = "replied", ![r].code = code, ![r].whole = whole,
                             ![r].waited = 0, ![r].after = after]
  <2>1. G!Answered \in SUBSET Requests
    BY DEF G!Answered
  <2>2. (IF conn[r].pc = "new" THEN G!Answered ELSE conn[r].after) \in SUBSET Requests
    BY <1>0, <2>1 DEF ConnRec
  <2>. QED  BY <2>2 DEF G!Reply, Replies
<1>2. PICK c \in ConnRec : conn' = [conn EXCEPT ![r] = c] /\ c.code = code
  <2>. DEFINE c == [conn[r] EXCEPT !.pc = "replied", !.code = code, !.whole = whole,
                                   !.waited = 0, !.after = after]
  <2>1. c \in ConnRec
    BY <1>0, ConnUpdate, PcFacts
  <2>2. c.code = code
    BY <1>0 DEF ConnRec
  <2>3. conn' = [conn EXCEPT ![r] = c]
    BY <1>0, <1>1
  <2>. QED  BY <2>1, <2>2, <2>3
<1>3. conn' \in ConnType
  BY <1>0, <1>2 DEF ConnType
<1>4. conn'[r].code = code /\ \A q \in Requests : q # r => conn'[q] = conn[q]
  BY <1>0, <1>2
<1>5. code # 0
  BY PcFacts
<1>. QED  BY <1>0, <1>3, <1>4, <1>5 DEF G!Answered

\* Hanging up is such a change.
LEMMA HangUpType ==
  ASSUME wire \in WireType, NEW r \in Requests, G!HangUp(r)
  PROVE  wire' \in WireType
BY PcFacts, WireUpdate DEF WireType, WireRec, G!HangUp

\* The gateway keeps its types.
LEMMA GatewayType ==
  ASSUME G!TypeOK, ExchangesAgree, G!Next
  PROVE  G!TypeOK'
<1>0. conn \in ConnType /\ wire \in WireType /\ \A q \in G!Answered : conn[q].code # 0
  BY GatewayTypes
<1>1. ASSUME conn' \in ConnType, wire' \in WireType,
             \A q \in G!Answered' : conn'[q].code # 0,
             UNCHANGED <<asked, up, socket, gateway>>
      PROVE  G!TypeOK'
  BY <1>1 DEF G!TypeOK, ConnType, WireType, ConnRec, WireRec, ConnPc, ConnCode, Waits, WirePc, WireCode
<1>2. ASSUME UNCHANGED <<asked, up, wire, conn>>,
             socket' \in {"none", "open", "left", "closed"},
             gateway' \in {"serving", "stopping", "stopped", "exited"}
      PROVE  G!TypeOK'
  BY <1>2 DEF G!TypeOK, G!Answered
<1>3. ASSUME NEW r \in Requests, NEW code \in Status,
             Replies(r, code), UNCHANGED wire \/ G!HangUp(r),
             UNCHANGED <<asked, up, socket, gateway>>
      PROVE  G!TypeOK'
  <2>1. conn' \in ConnType /\ \A q \in G!Answered' : conn'[q].code # 0
    BY <1>3, ReplyType
  <2>2. wire' \in WireType
    BY <1>0, <1>3, HangUpType
  <2>. QED  BY <1>1, <1>3, <2>1, <2>2
<1>4. ASSUME NEW r \in Requests, G!AnswerStatic(r) PROVE G!TypeOK'
  BY <1>3, <1>4, PcFacts DEF G!AnswerStatic, Replies
<1>5. ASSUME NEW r \in Requests, G!Forward(r) PROVE G!TypeOK'
  <2>1. CASE Form[r].service \in up
    <3>1. wire' \in WireType
      <4>1. wire' = [wire EXCEPT ![r].pc = "sent"]
        BY <1>5, <2>1 DEF G!Forward
      <4>. QED  BY <1>0, <4>1, PcFacts DEF WireType, WireRec
    <3>2. G!Answered \in SUBSET Requests
      BY DEF G!Answered
    <3>3. conn' = [conn EXCEPT ![r].pc = "proxy", ![r].after = G!Answered]
      BY <1>5, <2>1 DEF G!Forward
    <3>4. PICK c \in ConnRec : conn' = [conn EXCEPT ![r] = c] /\ c.pc = "proxy"
      <4>. DEFINE c == [conn[r] EXCEPT !.pc = "proxy", !.after = G!Answered]
      <4>1. conn[r] \in ConnRec /\ conn \in [Requests -> ConnRec]
        BY <1>0 DEF ConnType
      <4>2. c \in ConnRec
        BY <4>1, <3>2, ConnUpdate, PcFacts
      <4>3. c.pc = "proxy"
        BY <4>1 DEF ConnRec
      <4>4. conn' = [conn EXCEPT ![r] = c]
        BY <4>1, <3>3
      <4>. QED  BY <4>2, <4>3, <4>4
    <3>5. /\ conn' \in ConnType /\ conn'[r].pc = "proxy"
          /\ \A q \in Requests : q # r => conn'[q] = conn[q]
      BY <1>0, <3>4 DEF ConnType
    <3>6. \A q \in G!Answered' : conn'[q].code # 0
      BY <1>0, <3>5 DEF G!Answered
    <3>. QED  BY <1>1, <1>5, <3>1, <3>5, <3>6 DEF G!Forward
  <2>2. CASE Form[r].service \notin up
    <3>1. Replies(r, 502) /\ UNCHANGED <<asked, up, socket, gateway, wire>>
      BY <1>5, <2>2 DEF G!Forward, Replies
    <3>. QED  BY <1>3, <3>1, PcFacts
  <2>. QED  BY <2>1, <2>2
<1>6. ASSUME NEW r \in Requests, G!Resend(r) PROVE G!TypeOK'
  <2>1. wire' \in WireType
    BY <1>0, <1>6, PcFacts DEF G!Resend, WireType, WireRec
  <2>. QED  BY <1>0, <1>1, <1>6, <2>1 DEF G!Resend, G!Answered
<1>7. ASSUME NEW r \in Requests, G!BadGateway(r) PROVE G!TypeOK'
  <2>1. Replies(r, 502) /\ G!HangUp(r) /\ UNCHANGED <<asked, up, socket, gateway>>
    BY <1>7 DEF G!BadGateway, Replies
  <2>. QED  BY <1>3, <2>1, PcFacts
<1>8. ASSUME NEW r \in Requests, G!Relay(r) PROVE G!TypeOK'
  <2>1. wire[r].code \in Status
    BY <1>0, <1>8, PcFacts DEF G!Relay, Answering, ExchangesAgree, ExchangeAgrees, WireType, WireRec
  <2>. QED  BY <1>3, <1>8, <2>1 DEF G!Relay, Replies
<1>9. CASE G!WebSocket \/ G!Signal \/ G!ShutdownReturns
  <2>1. socket \in {"none", "open", "left", "closed"} /\ gateway \in {"serving", "stopping", "stopped", "exited"}
    BY DEF G!TypeOK
  <2>. QED  BY <1>2, <1>9, <2>1 DEF G!WebSocket, G!Signal, G!ShutdownReturns
<1>10. CASE G!Kill
  <2>1. conn' \in ConnType
    <3>1. \A r \in Requests : [conn[r] EXCEPT !.pc = "cut"] \in ConnRec
      BY <1>0, PcFacts DEF ConnType, ConnRec
    <3>. QED  BY <1>0, <1>10, <3>1 DEF G!Kill, ConnType
  <2>2. wire' \in WireType
    <3>1. \A r \in Requests : [wire[r] EXCEPT !.pc = "closed"] \in WireRec
      BY <1>0, PcFacts DEF WireType, WireRec
    <3>. QED  BY <1>0, <1>10, <3>1 DEF G!Kill, WireType
  <2>3. \A q \in G!Answered' : q \in G!Answered /\ conn'[q] = conn[q]
    BY <1>0, <1>10 DEF G!Kill, G!Answered, G!InProgress, ConnType
  <2>4. socket' \in {"none", "open", "left", "closed"} /\ gateway' = "exited" /\ UNCHANGED <<asked, up>>
    BY <1>10 DEF G!Kill, G!TypeOK
  <2>5. \A q \in G!Answered' : conn'[q].code # 0
    BY <1>0, <2>3
  <2>. QED  BY <2>1, <2>2, <2>4, <2>5 DEF G!TypeOK, ConnType, WireType, ConnRec, WireRec, ConnPc, ConnCode, Waits, WirePc, WireCode
<1>. QED  BY <1>4, <1>5, <1>6, <1>7, <1>8, <1>9, <1>10 DEF G!Next, G!Handler

CallPc   == {"none", "inside", "encode", "write", "done", "cut"}
Runs     == 0..MaxStarts
CallRec  == [pc : CallPc, runs : Runs, ids : SUBSET X!Stores, scores : X!Scores, start : Runs]
CallType == [X!Served -> CallRec]

\* The type invariant of the experience service in these words.
LEMMA ExperienceTypes ==
  X!TypeOK <=>
    /\ experiences \subseteq X!Stores /\ score \in [X!Stores -> {0, 1}]
    /\ call \in CallType
    /\ \A p \in raced : p \subseteq X!Served /\ p \cap X!Stores # {}
    /\ starts \in 1..MaxStarts
BY DEF X!TypeOK, CallType, CallRec, CallPc, Runs

\* Where a handler of the experience service may be, in which process.
LEMMA CallFacts ==
  /\ \A pc \in {"none", "inside", "encode", "write", "done", "cut"} : pc \in CallPc
  /\ \A n \in 1..MaxStarts : n \in Runs
BY FormAssumption DEF CallPc, Runs

\* A handler of the experience service changes the call and the exchange of its request:
\* as fields, and with their types.
CallStep(r, pc, runs, start) ==
  /\ call' \in CallType
  /\ call'[r].pc = pc /\ call'[r].runs = runs /\ call'[r].start = start
  /\ \A q \in X!Served : q # r => call'[q] = call[q]

\* What each form of assignment to call does to the call of r, and to no other.
LEMMA CallUpdate ==
  ASSUME call \in CallType, NEW r \in X!Served, NEW pc \in CallPc
  PROVE  /\ call' = [call EXCEPT ![r].pc = pc] =>
              /\ CallStep(r, pc, call[r].runs, call[r].start)
              /\ call'[r].ids = call[r].ids /\ call'[r].scores = call[r].scores
         /\ \A ids \in SUBSET X!Stores : call' = [call EXCEPT ![r].pc = pc, ![r].ids = ids] =>
              /\ CallStep(r, pc, call[r].runs, call[r].start)
              /\ call'[r].ids = ids
         /\ \A scores \in X!Scores : call' = [call EXCEPT ![r].pc = pc, ![r].scores = scores] =>
              /\ CallStep(r, pc, call[r].runs, call[r].start)
              /\ call'[r].ids = call[r].ids /\ call'[r].scores = scores
         /\ \A start \in Runs : call' = [call EXCEPT ![r].pc = pc, ![r].start = start] =>
              CallStep(r, pc, call[r].runs, start)
         /\ \A runs, start \in Runs :
              call' = [call EXCEPT ![r].pc = pc, ![r].runs = runs, ![r].start = start] =>
                CallStep(r, pc, runs, start)
<1>0. call \in [X!Served -> CallRec] /\ call[r] \in CallRec
  BY DEF CallType
<1>1. ASSUME NEW c \in CallRec, call' = [call EXCEPT ![r] = c]
      PROVE  CallStep(r, c.pc, c.runs, c.start) /\ call'[r] = c
  BY <1>0, <1>1 DEF CallStep, CallType
<1>2. ASSUME call' = [call EXCEPT ![r].pc = pc]
      PROVE  /\ CallStep(r, pc, call[r].runs, call[r].start)
             /\ call'[r].ids = call[r].ids /\ call'[r].scores = call[r].scores
  <2>. DEFINE c == [call[r] EXCEPT !.pc = pc]
  <2>1. c \in CallRec /\ c.pc = pc /\ c.runs = call[r].runs /\ c.start = call[r].start
        /\ c.ids = call[r].ids /\ c.scores = call[r].scores
    BY <1>0 DEF CallRec
  <2>2. call' = [call EXCEPT ![r] = c]
    BY <1>0, <1>2
  <2>. HIDE DEF c
  <2>. QED  BY <1>1, <2>1, <2>2
<1>3. ASSUME NEW ids \in SUBSET X!Stores, call' = [call EXCEPT ![r].pc = pc, ![r].ids = ids]
      PROVE  CallStep(r, pc, call[r].runs, call[r].start) /\ call'[r].ids = ids
  <2>. DEFINE c == [call[r] EXCEPT !.pc = pc, !.ids = ids]
  <2>1. c \in CallRec /\ c.pc = pc /\ c.runs = call[r].runs /\ c.start = call[r].start /\ c.ids = ids
    BY <1>0 DEF CallRec
  <2>2. call' = [call EXCEPT ![r] = c]
    BY <1>0, <1>3
  <2>. HIDE DEF c
  <2>. QED  BY <1>1, <2>1, <2>2
<1>4. ASSUME NEW scores \in X!Scores, call' = [call EXCEPT ![r].pc = pc, ![r].scores = scores]
      PROVE  /\ CallStep(r, pc, call[r].runs, call[r].start)
             /\ call'[r].ids = call[r].ids /\ call'[r].scores = scores
  <2>. DEFINE c == [call[r] EXCEPT !.pc = pc, !.scores = scores]
  <2>1. c \in CallRec /\ c.pc = pc /\ c.runs = call[r].runs /\ c.start = call[r].start
        /\ c.ids = call[r].ids /\ c.scores = scores
    BY <1>0 DEF CallRec
  <2>2. call' = [call EXCEPT ![r] = c]
    BY <1>0, <1>4
  <2>. HIDE DEF c
  <2>. QED  BY <1>1, <2>1, <2>2
<1>5. ASSUME NEW start \in Runs, call' = [call EXCEPT ![r].pc = pc, ![r].start = start]
      PROVE  CallStep(r, pc, call[r].runs, start)
  <2>. DEFINE c == [call[r] EXCEPT !.pc = pc, !.start = start]
  <2>1. c \in CallRec /\ c.pc = pc /\ c.runs = call[r].runs /\ c.start = start
    BY <1>0 DEF CallRec
  <2>2. call' = [call EXCEPT ![r] = c]
    BY <1>0, <1>5
  <2>. HIDE DEF c
  <2>. QED  BY <1>1, <2>1, <2>2
<1>6. ASSUME NEW runs \in Runs, NEW start \in Runs,
             call' = [call EXCEPT ![r].pc = pc, ![r].runs = runs, ![r].start = start]
      PROVE  CallStep(r, pc, runs, start)
  <2>. DEFINE c == [call[r] EXCEPT !.pc = pc, !.runs = runs, !.start = start]
  <2>1. c \in CallRec /\ c.pc = pc /\ c.runs = runs /\ c.start = start
    BY <1>0 DEF CallRec
  <2>2. call' = [call EXCEPT ![r] = c]
    BY <1>0, <1>6
  <2>. HIDE DEF c
  <2>. QED  BY <1>1, <2>1, <2>2
<1>. QED  BY <1>2, <1>3, <1>4, <1>5, <1>6

\* The exchange of one request changes.
WireStep(r, pc, code) ==
  /\ wire' \in WireType
  /\ wire'[r].pc = pc /\ wire'[r].code = code
  /\ \A q \in Requests : q # r => wire'[q] = wire[q]

\* The same of the assignments to wire.
LEMMA WireSteps ==
  ASSUME wire \in WireType, NEW r \in Requests, NEW pc \in WirePc, NEW code \in WireCode
  PROVE  /\ wire' = [wire EXCEPT ![r].pc = pc] => WireStep(r, pc, wire[r].code)
         /\ wire' = [wire EXCEPT ![r] = [pc |-> pc, code |-> code]] => WireStep(r, pc, code)
         /\ UNCHANGED wire => WireStep(r, wire[r].pc, wire[r].code)
BY DEF WireStep, WireType, WireRec

----------------------------------------------------------------------------
(* What a step of the experience service does to one request.              *)

\* A handler, as the call and the exchange see it.
HandlerEffect(r) ==
  \/ UNCHANGED <<call[r], wire[r]>>
  \/ /\ X!Received(r) /\ ~Form[r].valid
     /\ call'[r].pc = "done" /\ call'[r].runs = call[r].runs /\ call'[r].start = starts
     /\ IF wire[r].pc = "sent" THEN wire'[r].pc = "whole" /\ wire'[r].code = 400
                               ELSE wire'[r] = wire[r]
  \/ /\ X!Received(r) /\ Form[r].valid
     /\ call'[r].pc = "inside" /\ call'[r].runs = call[r].runs + 1 /\ call'[r].start = starts
     /\ wire'[r] = wire[r]
  \/ /\ call'[r].runs = call[r].runs /\ call'[r].start = call[r].start
     /\ \/ /\ call[r].pc = "inside" /\ call'[r].pc = "encode" /\ wire'[r] = wire[r]
        \/ /\ call[r].pc = "encode" /\ call'[r].pc = "write"
           /\ IF wire[r].pc = "sent" THEN wire'[r].pc = "head" /\ wire'[r].code = 200
                                     ELSE wire'[r] = wire[r]
        \/ /\ call[r].pc = "write" /\ call'[r].pc = "done" /\ wire'[r].code = wire[r].code
           /\ wire'[r].pc = IF wire[r].pc = "head" THEN "whole" ELSE wire[r].pc

\* The end of the process.
EndEffect(r) ==
  /\ call'[r].runs = call[r].runs /\ call'[r].start = call[r].start
  /\ call'[r].pc = IF call[r].pc \in {"inside", "encode", "write"} THEN "cut" ELSE call[r].pc
  /\ wire'[r].code = wire[r].code
  /\ wire'[r].pc = IF wire[r].pc \in {"sent", "closed"} THEN "broken"
                   ELSE IF wire[r].pc = "head" THEN "torn" ELSE wire[r].pc

ServiceEffect ==
  /\ \A r \in Requests \ X!Served : wire'[r] = wire[r]
  /\ \/ UNCHANGED <<up, starts>> /\ \A r \in X!Served : HandlerEffect(r)
     \/ UNCHANGED starts /\ ~X!Running' /\ \A r \in X!Served : EndEffect(r)
     \/ ~X!Running /\ starts' = starts + 1 /\ UNCHANGED <<call, wire>>

ServiceTypes == X!TypeOK /\ wire \in WireType

\* The types of the experience service, variable by variable.
LEMMA ServiceTypesNext ==
  ASSUME call' \in CallType, wire' \in WireType,
         experiences' \subseteq X!Stores, score' \in [X!Stores -> {0, 1}],
         \A p \in raced' : p \subseteq X!Served /\ p \cap X!Stores # {},
         starts' \in 1..MaxStarts
  PROVE  ServiceTypes'
BY DEF ServiceTypes, X!TypeOK, CallType, CallRec, CallPc, Runs

\* A handler changes its own request.
LEMMA OneHandler ==
  ASSUME NEW r \in X!Served, NEW pc, NEW runs, NEW start, CallStep(r, pc, runs, start),
         NEW wpc, NEW code, WireStep(r, wpc, code), UNCHANGED <<up, starts>>, HandlerEffect(r)
  PROVE  ServiceEffect
<1>1. \A q \in X!Served : q \in Requests /\ HandlerEffect(q)
  BY DEF CallStep, WireStep, HandlerEffect, X!Served
<1>2. \A q \in Requests \ X!Served : wire'[q] = wire[q]
  BY DEF WireStep
<1>. QED  BY <1>1, <1>2 DEF ServiceEffect

\* A handler of the experience service keeps the types and touches its own request only.
LEMMA HandlerSteps ==
  ASSUME ServiceTypes, RunsInProcesses, NEW r \in X!Served, X!Handler(r)
  PROVE  ServiceEffect /\ ServiceTypes'
<1>0. /\ r \in Requests /\ call \in CallType /\ starts \in Runs /\ starts \in 1..MaxStarts
      /\ wire \in WireType /\ experiences \subseteq X!Stores /\ score \in [X!Stores -> {0, 1}]
      /\ \A p \in raced : p \subseteq X!Served /\ p \cap X!Stores # {}
      /\ wire[r].pc \in WirePc /\ wire[r].code \in WireCode
  BY ExperienceTypes, CallFacts DEF ServiceTypes, X!Served, WireType, WireRec
<1>1. CASE X!Refuse(r)
  <2>1. CallStep(r, "done", call[r].runs, starts) /\ UNCHANGED <<up, experiences, score, raced, starts>>
    BY <1>0, <1>1, CallUpdate, CallFacts DEF X!Refuse
  <2>2. ServiceEffect /\ wire' \in WireType
    <3>1. CASE wire[r].pc = "sent"
      <4>1. WireStep(r, "whole", 400)
        BY <1>0, <1>1, <3>1, WireSteps, PcFacts DEF X!Refuse
      <4>2. HandlerEffect(r)
        BY <1>1, <2>1, <3>1, <4>1 DEF X!Refuse, HandlerEffect, CallStep, WireStep
      <4>. QED  BY <2>1, <4>1, <4>2, OneHandler DEF WireStep
    <3>2. CASE wire[r].pc # "sent"
      <4>1. WireStep(r, wire[r].pc, wire[r].code) /\ UNCHANGED wire
        BY <1>0, <1>1, <3>2, WireSteps DEF X!Refuse
      <4>2. HandlerEffect(r)
        BY <1>1, <2>1, <3>2, <4>1 DEF X!Refuse, HandlerEffect, CallStep
      <4>. QED  BY <2>1, <4>1, <4>2, OneHandler DEF WireStep
    <3>. QED  BY <3>1, <3>2
  <2>. QED  BY <1>0, <2>1, <2>2, ServiceTypesNext DEF CallStep
<1>2. ASSUME NEW pc \in CallPc, NEW runs, NEW start, CallStep(r, pc, runs, start), HandlerEffect(r),
             UNCHANGED <<up, wire, starts>>, experiences' \subseteq X!Stores,
             score' \in [X!Stores -> {0, 1}],
             \A p \in raced' : p \subseteq X!Served /\ p \cap X!Stores # {}
      PROVE  ServiceEffect /\ ServiceTypes'
  <2>1. WireStep(r, wire[r].pc, wire[r].code) /\ wire' \in WireType /\ starts' \in 1..MaxStarts
    BY <1>0, <1>2, WireSteps
  <2>2. call' \in CallType
    BY <1>2 DEF CallStep
  <2>3. ServiceEffect
    BY <1>2, <2>1, OneHandler
  <2>. QED  BY <1>2, <2>1, <2>2, <2>3, ServiceTypesNext
<1>3. CASE X!Enter(r)
  <2>1. call[r].runs + 1 \in Runs
    <3>1. RunsInProcess(r)
      BY DEF RunsInProcesses
    <3>2. call[r].runs <= call[r].start /\ call[r].start <= starts
      BY <3>1 DEF RunsInProcess
    <3>3. call[r].runs + 1 <= starts
      <4>1. X!Received(r)
        BY <1>3 DEF X!Enter
      <4>2. CASE call[r].pc = "none"
        BY <1>0, <3>1, <4>2, FormAssumption DEF RunsInProcess
      <4>3. CASE call[r].pc = "cut"
        <5>1. call[r].start < starts /\ call[r].runs \in Nat /\ call[r].start \in Nat
          BY <1>0, <3>1, <4>1, <4>3 DEF RunsInProcess, X!Received, CallType, CallRec, Runs
        <5>. QED  BY <1>0, <3>2, <5>1, FormAssumption
      <4>. QED  BY <4>1, <4>2, <4>3 DEF X!Received
    <3>4. call[r].runs \in Nat
      BY <1>0 DEF CallType, CallRec, Runs
    <3>. QED  BY <1>0, <3>3, <3>4, FormAssumption DEF Runs
  <2>2. CallStep(r, "inside", call[r].runs + 1, starts)
    BY <1>0, <1>3, <2>1, CallUpdate, CallFacts DEF X!Enter
  <2>3. HandlerEffect(r)
    BY <1>3, <2>2 DEF X!Enter, HandlerEffect, CallStep
  <2>4. \A p \in raced' : p \subseteq X!Served /\ p \cap X!Stores # {}
    <3>1. \A q \in X!Inside : q \in X!Served
      BY DEF X!Inside
    <3>. QED  BY <1>0, <1>3, <3>1 DEF X!Enter
  <2>. QED  BY <1>0, <1>2, <1>3, <2>2, <2>3, <2>4, CallFacts DEF X!Enter
<1>4. CASE X!Collect(r)
  <2>1. PICK ids \in SUBSET X!Stores : call' = [call EXCEPT ![r].pc = "encode", ![r].ids = ids]
    <3>1. PICK S \in SUBSET experiences :
            \E ids \in X!Collected(r, S) : call' = [call EXCEPT ![r].pc = "encode", ![r].ids = ids]
      BY <1>4 DEF X!Collect
    <3>2. X!Collected(r, S) \subseteq SUBSET S
      BY DEF X!Collected, X!Similar
    <3>. QED  BY <1>0, <3>1, <3>2
  <2>2. CallStep(r, "encode", call[r].runs, call[r].start)
    BY <1>0, <2>1, CallUpdate, CallFacts
  <2>3. HandlerEffect(r)
    BY <1>4, <2>2 DEF X!Collect, HandlerEffect, CallStep
  <2>. QED  BY <1>0, <1>2, <1>4, <2>2, <2>3, CallFacts DEF X!Collect
<1>5. CASE X!Store(r)
  <2>1. r \in X!Stores
    BY <1>5 DEF X!Store, X!Stores
  <2>2. CallStep(r, "encode", call[r].runs, call[r].start)
    <3>1. {r} \in SUBSET X!Stores
      BY <2>1
    <3>. QED  BY <1>0, <1>5, <3>1, CallUpdate, CallFacts DEF X!Store
  <2>3. HandlerEffect(r)
    BY <1>5, <2>2 DEF X!Store, HandlerEffect, CallStep
  <2>4. experiences' \subseteq X!Stores
    BY <1>0, <1>5, <2>1 DEF X!Store
  <2>. QED  BY <1>0, <1>2, <1>5, <2>2, <2>3, <2>4, CallFacts DEF X!Store
<1>6. CASE X!SubmitFeedback(r)
  <2>1. CallStep(r, "encode", call[r].runs, call[r].start)
    BY <1>0, <1>6, CallUpdate, CallFacts DEF X!SubmitFeedback
  <2>2. HandlerEffect(r)
    BY <1>6, <2>1 DEF X!SubmitFeedback, HandlerEffect, CallStep
  <2>3. score' \in [X!Stores -> {0, 1}]
    BY <1>0, <1>6 DEF X!SubmitFeedback
  <2>. QED  BY <1>0, <1>2, <1>6, <2>1, <2>2, <2>3, CallFacts DEF X!SubmitFeedback
<1>7. CASE X!Encode(r)
  <2>1. [id \in call[r].ids |-> score[id]] \in X!Scores
    <3>1. call[r].ids \in SUBSET X!Stores
      BY <1>0 DEF CallType, CallRec
    <3>2. [id \in call[r].ids |-> score[id]] \in [call[r].ids -> {0, 1}]
      BY <1>0, <3>1
    <3>. QED  BY <3>1, <3>2 DEF X!Scores
  <2>2. CallStep(r, "write", call[r].runs, call[r].start) /\ UNCHANGED <<up, experiences, score, raced, starts>>
    BY <1>0, <1>7, <2>1, CallUpdate, CallFacts DEF X!Encode
  <2>3. ServiceEffect /\ wire' \in WireType
    <3>1. CASE wire[r].pc = "sent"
      <4>1. WireStep(r, "head", 200)
        BY <1>0, <1>7, <3>1, WireSteps, PcFacts DEF X!Encode
      <4>2. HandlerEffect(r)
        BY <1>7, <2>2, <3>1, <4>1 DEF X!Encode, HandlerEffect, CallStep, WireStep
      <4>. QED  BY <2>2, <4>1, <4>2, OneHandler DEF WireStep
    <3>2. CASE wire[r].pc # "sent"
      <4>1. WireStep(r, wire[r].pc, wire[r].code) /\ UNCHANGED wire
        BY <1>0, <1>7, <3>2, WireSteps DEF X!Encode
      <4>2. HandlerEffect(r)
        BY <1>7, <2>2, <3>2, <4>1 DEF X!Encode, HandlerEffect, CallStep
      <4>. QED  BY <2>2, <4>1, <4>2, OneHandler DEF WireStep
    <3>. QED  BY <3>1, <3>2
  <2>. QED  BY <1>0, <2>2, <2>3, ServiceTypesNext DEF CallStep
<1>8. CASE X!Write(r)
  <2>1. CallStep(r, "done", call[r].runs, call[r].start) /\ UNCHANGED <<up, experiences, score, raced, starts>>
    BY <1>0, <1>8, CallUpdate, CallFacts DEF X!Write
  <2>2. ServiceEffect /\ wire' \in WireType
    <3>1. CASE wire[r].pc = "head"
      <4>1. WireStep(r, "whole", wire[r].code)
        BY <1>0, <1>8, <3>1, WireSteps, PcFacts DEF X!Write
      <4>2. HandlerEffect(r)
        BY <1>8, <2>1, <3>1, <4>1 DEF X!Write, HandlerEffect, CallStep, WireStep
      <4>. QED  BY <2>1, <4>1, <4>2, OneHandler DEF WireStep
    <3>2. CASE wire[r].pc # "head"
      <4>1. WireStep(r, wire[r].pc, wire[r].code) /\ UNCHANGED wire
        BY <1>0, <1>8, <3>2, WireSteps DEF X!Write
      <4>2. HandlerEffect(r)
        BY <1>8, <2>1, <3>2, <4>1 DEF X!Write, HandlerEffect, CallStep
      <4>. QED  BY <2>1, <4>1, <4>2, OneHandler DEF WireStep
    <3>. QED  BY <3>1, <3>2
  <2>. QED  BY <1>0, <2>1, <2>2, ServiceTypesNext DEF CallStep
<1>. QED  BY <1>1, <1>3, <1>4, <1>5, <1>6, <1>7, <1>8 DEF X!Handler

\* The process ends: its memory goes, and so do the exchanges of its requests.
LEMMA EndSteps ==
  ASSUME ServiceTypes, X!Running, X!End
  PROVE  ServiceEffect /\ ServiceTypes' /\ UNCHANGED <<score, raced, starts>> /\ experiences' = {}
<1>0. /\ call \in CallType /\ wire \in WireType /\ score \in [X!Stores -> {0, 1}]
      /\ \A p \in raced : p \subseteq X!Served /\ p \cap X!Stores # {}
      /\ starts \in 1..MaxStarts
  BY ExperienceTypes DEF ServiceTypes
<1>1. ~X!Running' /\ UNCHANGED <<score, raced, starts>> /\ experiences' = {}
  BY DEF X!End, X!Running
<1>2. call' \in CallType
  <2>1. \A r \in X!Served : [call[r] EXCEPT !.pc = "cut"] \in CallRec
    BY <1>0, CallFacts DEF CallType, CallRec
  <2>. QED  BY <1>0, <2>1 DEF X!End, CallType
<1>3. \A r \in Requests : X!Break(r) \in WireRec
  <2>1. \A r \in Requests : /\ wire[r] \in WireRec /\ [wire[r] EXCEPT !.pc = "broken"] \in WireRec
                            /\ [wire[r] EXCEPT !.pc = "torn"] \in WireRec
    BY <1>0, PcFacts DEF WireType, WireRec
  <2>. QED  BY <2>1 DEF X!Break
<1>4. wire' \in WireType
  BY <1>0, <1>3 DEF X!End, WireType
<1>5. ASSUME NEW r \in X!Served PROVE EndEffect(r)
  <2>1. r \in Requests /\ wire[r] \in WireRec /\ call[r] \in CallRec
    BY <1>0 DEF X!Served, CallType, WireType
  <2>2. /\ call'[r].runs = call[r].runs /\ call'[r].start = call[r].start
        /\ call'[r].pc = IF call[r].pc \in {"inside", "encode", "write"} THEN "cut" ELSE call[r].pc
    BY <2>1 DEF X!End, CallRec
  <2>3. wire'[r] = X!Break(r)
    BY <2>1 DEF X!End
  <2>4. /\ X!Break(r).code = wire[r].code
        /\ X!Break(r).pc = IF wire[r].pc \in {"sent", "closed"} THEN "broken"
                           ELSE IF wire[r].pc = "head" THEN "torn" ELSE wire[r].pc
    BY <2>1 DEF X!Break, WireRec
  <2>. QED  BY <2>2, <2>3, <2>4 DEF EndEffect
<1>6. \A r \in Requests \ X!Served : wire'[r] = wire[r]
  BY DEF X!End
<1>7. ServiceEffect
  BY <1>1, <1>5, <1>6 DEF ServiceEffect
<1>8. ServiceTypes'
  BY <1>0, <1>1, <1>2, <1>4, ServiceTypesNext
<1>. QED  BY <1>1, <1>7, <1>8

\* So does every step of the service, its end and its start included.
LEMMA ServiceSteps ==
  ASSUME TypeOK, RunsInProcesses, X!Next
  PROVE  /\ ServiceEffect /\ ServiceTypes'
         /\ up' \subseteq G!Services /\ A!Running' = A!Running
<1>0. ServiceTypes /\ up \subseteq G!Services /\ starts \in 1..MaxStarts /\ call \in CallType
  BY GatewayTypes, ExperienceTypes DEF TypeOK, ServiceTypes
<1>1. ASSUME NEW r \in X!Served, X!Handler(r) PROVE UNCHANGED up
  BY <1>1 DEF X!Handler, X!Refuse, X!Enter, X!Collect, X!Store, X!SubmitFeedback, X!Encode, X!Write
<1>2. CASE \E r \in X!Served : X!Handler(r)
  BY <1>0, <1>1, <1>2, HandlerSteps DEF A!Running
<1>3. CASE X!Fatal \/ X!Terminate
  BY <1>0, <1>3, EndSteps DEF X!Fatal, X!Terminate, X!End, A!Running
<1>4. CASE X!Start
  <2>1. starts' \in 1..MaxStarts /\ starts' = starts + 1
    BY <1>0, <1>4, FormAssumption DEF X!Start
  <2>2. ServiceEffect
    BY <1>4, <2>1 DEF X!Start, ServiceEffect
  <2>3. ServiceTypes'
    BY <1>0, <1>4, <2>1, ExperienceTypes, ServiceTypesNext DEF X!Start, ServiceTypes
  <2>. QED  BY <1>0, <1>4, <2>2, <2>3 DEF X!Start, A!Running, G!Services
<1>. QED  BY <1>2, <1>3, <1>4 DEF X!Next

----------------------------------------------------------------------------
(* What a step of the gateway does to one request.                         *)

ReplyEffect(r, code) ==
  /\ conn'[r].pc = "replied" /\ conn'[r].code = code
  /\ conn'[r].after = IF conn[r].pc = "new" THEN G!Answered ELSE conn[r].after

HungUp(r) ==
  /\ wire'[r].code = wire[r].code
  /\ wire'[r].pc = IF wire[r].pc \in {"sent", "head"} THEN "closed" ELSE wire[r].pc

GatewayEffect(r) ==
  \/ UNCHANGED <<conn[r], wire[r]>>
  \/ /\ G!Arrives(r)
     /\ \/ /\ ReplyEffect(r, 200) /\ ~G!Proxied(r) /\ conn'[r].whole /\ wire'[r] = wire[r]
        \/ /\ ReplyEffect(r, 502) /\ G!Proxied(r) /\ wire'[r] = wire[r]
        \/ /\ conn'[r].pc = "proxy" /\ conn'[r].after = G!Answered /\ G!Proxied(r)
           /\ wire'[r].pc = "sent"
  \/ /\ conn[r].pc = "proxy"
     /\ \/ wire[r].pc = "broken" /\ G!IsGet(r) /\ wire'[r].pc = "sent" /\ conn'[r] = conn[r]
        \/ ReplyEffect(r, 502) /\ HungUp(r)
        \/ /\ Answering(r) /\ ReplyEffect(r, wire[r].code) /\ HungUp(r)
           /\ conn'[r].whole => wire[r].pc = "whole"
        \/ conn'[r].pc = "cut" /\ conn'[r].after = conn[r].after /\ HungUp(r)

\* A reply of the gateway is final and of this request only.
LEMMA ReplyHasEffect ==
  ASSUME conn \in ConnType, NEW r \in Requests, NEW code, Replies(r, code)
  PROVE  /\ ReplyEffect(r, code)
         /\ G!Reply(r, code, TRUE) => conn'[r].whole = TRUE
         /\ G!Reply(r, code, FALSE) => conn'[r].whole = FALSE
         /\ \A q \in Requests : q # r => conn'[q] = conn[q]
BY DEF ConnType, ConnRec, Replies, G!Reply, ReplyEffect

\* Hanging up ends an exchange that is open, and no other.
LEMMA HangUpHasEffect ==
  ASSUME wire \in WireType, NEW r \in Requests,
         G!HangUp(r) \/ (UNCHANGED wire /\ wire[r].pc \notin {"sent", "head"})
  PROVE  /\ HungUp(r)
         /\ \A q \in Requests : q # r => wire'[q] = wire[q]
BY DEF WireType, WireRec, G!HangUp, HungUp

\* Each step of the gateway changes one request, in one of the ways of GatewayEffect.
LEMMA GatewaySteps ==
  ASSUME G!TypeOK, ExchangesAgree, G!Next
  PROVE  UNCHANGED <<asked, up>> /\ \A r \in Requests : GatewayEffect(r)
<1>0. conn \in ConnType /\ wire \in WireType
  BY GatewayTypes
<1>1. UNCHANGED <<asked, up>>
  BY DEF G!Next, G!Handler, G!AnswerStatic, G!Forward, G!Resend, G!BadGateway, G!Relay, G!WebSocket,
     G!Signal, G!ShutdownReturns, G!Kill
<1>2. ASSUME NEW r \in Requests, GatewayEffect(r),
             \A q \in Requests : q # r => conn'[q] = conn[q] /\ wire'[q] = wire[q]
      PROVE  \A q \in Requests : GatewayEffect(q)
  BY <1>2 DEF GatewayEffect
<1>3. ASSUME NEW r \in Requests, G!AnswerStatic(r) PROVE \A q \in Requests : GatewayEffect(q)
  <2>1. ReplyEffect(r, 200) /\ conn'[r].whole = TRUE /\ \A q \in Requests : q # r => conn'[q] = conn[q]
    BY <1>0, <1>3, ReplyHasEffect DEF G!AnswerStatic, Replies
  <2>2. GatewayEffect(r)
    BY <1>3, <2>1 DEF G!AnswerStatic, GatewayEffect
  <2>. QED  BY <1>2, <1>3, <2>1, <2>2 DEF G!AnswerStatic
<1>4. ASSUME NEW r \in Requests, G!Forward(r) PROVE \A q \in Requests : GatewayEffect(q)
  <2>1. CASE Form[r].service \in up
    <3>1. /\ wire' = [wire EXCEPT ![r].pc = "sent"]
          /\ conn' = [conn EXCEPT ![r].pc = "proxy", ![r].after = G!Answered]
      BY <1>4, <2>1 DEF G!Forward
    <3>2. /\ conn'[r].pc = "proxy" /\ conn'[r].after = G!Answered /\ wire'[r].pc = "sent"
          /\ \A q \in Requests : q # r => conn'[q] = conn[q] /\ wire'[q] = wire[q]
      BY <1>0, <3>1 DEF ConnType, ConnRec, WireType, WireRec
    <3>3. GatewayEffect(r)
      BY <1>4, <3>2 DEF G!Forward, GatewayEffect
    <3>. QED  BY <1>2, <3>2, <3>3
  <2>2. CASE Form[r].service \notin up
    <3>1. Replies(r, 502) /\ UNCHANGED wire /\ G!Arrives(r) /\ G!Proxied(r)
      BY <1>4, <2>2 DEF G!Forward, Replies
    <3>2. ReplyEffect(r, 502) /\ \A q \in Requests : q # r => conn'[q] = conn[q]
      BY <1>0, <3>1, ReplyHasEffect
    <3>3. GatewayEffect(r)
      BY <3>1, <3>2 DEF GatewayEffect
    <3>. QED  BY <1>2, <3>1, <3>2, <3>3
  <2>. QED  BY <2>1, <2>2
<1>5. ASSUME NEW r \in Requests, G!Resend(r) PROVE \A q \in Requests : GatewayEffect(q)
  <2>1. wire'[r].pc = "sent" /\ \A q \in Requests : q # r => wire'[q] = wire[q]
    BY <1>0, <1>5 DEF G!Resend, WireType, WireRec
  <2>2. GatewayEffect(r)
    BY <1>5, <2>1 DEF G!Resend, GatewayEffect
  <2>. QED  BY <1>2, <1>5, <2>1, <2>2 DEF G!Resend
<1>6. ASSUME NEW r \in Requests, G!BadGateway(r) PROVE \A q \in Requests : GatewayEffect(q)
  <2>1. ReplyEffect(r, 502) /\ \A q \in Requests : q # r => conn'[q] = conn[q]
    <3>1. Replies(r, 502)
      BY <1>6 DEF G!BadGateway, Replies
    <3>. QED  BY <1>0, <3>1, ReplyHasEffect
  <2>2. HungUp(r) /\ \A q \in Requests : q # r => wire'[q] = wire[q]
    BY <1>0, <1>6, HangUpHasEffect DEF G!BadGateway
  <2>3. GatewayEffect(r)
    BY <1>6, <2>1, <2>2 DEF G!BadGateway, GatewayEffect
  <2>. QED  BY <1>2, <2>1, <2>2, <2>3
<1>7. ASSUME NEW r \in Requests, G!Relay(r) PROVE \A q \in Requests : GatewayEffect(q)
  <2>1. Answering(r) /\ conn[r].pc = "proxy"
    BY <1>7 DEF G!Relay, Answering
  <2>2. /\ ReplyEffect(r, wire[r].code)
        /\ conn'[r].whole => wire[r].pc = "whole"
        /\ \A q \in Requests : q # r => conn'[q] = conn[q]
    <3>1. /\ Replies(r, wire[r].code)
          /\ wire[r].pc # "whole" => G!Reply(r, wire[r].code, FALSE)
      BY <1>7 DEF G!Relay, Replies
    <3>. QED  BY <1>0, <3>1, ReplyHasEffect
  <2>3. HungUp(r) /\ \A q \in Requests : q # r => wire'[q] = wire[q]
    BY <1>0, <1>7, HangUpHasEffect DEF G!Relay
  <2>4. GatewayEffect(r)
    BY <2>1, <2>2, <2>3 DEF GatewayEffect
  <2>. QED  BY <1>2, <2>2, <2>3, <2>4
<1>8. CASE G!WebSocket \/ G!Signal \/ G!ShutdownReturns
  BY <1>8 DEF G!WebSocket, G!Signal, G!ShutdownReturns, GatewayEffect
<1>9. CASE G!Kill
  <2>. SUFFICES ASSUME NEW r \in Requests PROVE GatewayEffect(r)
    BY <1>1
  <2>1. HungUp(r) /\ (wire[r].pc \notin {"sent", "head"} => wire'[r] = wire[r])
    BY <1>0, <1>9 DEF G!Kill, WireType, WireRec, HungUp
  <2>2. CASE G!InProgress(r)
    <3>1. conn'[r].pc = "cut" /\ conn'[r].after = conn[r].after
      BY <1>0, <1>9, <2>2 DEF G!Kill, ConnType, ConnRec
    <3>. QED  BY <2>1, <2>2, <3>1 DEF GatewayEffect, G!InProgress
  <2>3. CASE ~G!InProgress(r)
    <3>1. conn'[r] = conn[r] /\ wire[r].pc \notin {"sent", "head"}
      BY <1>0, <1>9, <2>3 DEF G!Kill, ConnType, ExchangesAgree, ExchangeAgrees
    <3>. QED  BY <2>1, <3>1 DEF GatewayEffect
  <2>. QED  BY <2>2, <2>3
<1>. QED  BY <1>1, <1>3, <1>4, <1>5, <1>6, <1>7, <1>8, <1>9 DEF G!Next, G!Handler

----------------------------------------------------------------------------
(* What a step of the agent service does to one request.                   *)

ChatPc   == {"none", "waiting", "returned"}
Outcome  == {"none", "ok", "api error", "no choices", "parse error", "timeout", "cancelled",
             "handler error"}
ChatRec  == [pc : ChatPc, waited : 0..LLMTimeout, outcome : Outcome]
ChatType == [A!Served -> ChatRec]
TaskPc   == {"none", "asking", "writing", "done", "cut"}
TaskType == [A!Served -> TaskPc]
RestType == /\ watched \subseteq A!Served
            /\ ctx \in [A!Served -> {"live", "done"}]
            /\ sent \in [A!Served -> 0..0] /\ got \in [A!Served -> 0..0]

\* The type invariant of the agent service in these words.
LEMMA AgentTypes == A!TypeOK <=> task \in TaskType /\ chat \in ChatType /\ RestType
BY DEF A!TypeOK, A!LLM!TypeOK, ChatType, ChatRec, ChatPc, Outcome, TaskType, TaskPc, RestType

\* The types of the agent service, variable by variable.
LEMMA AgentTypesNext ==
  ASSUME task' \in TaskType, chat' \in ChatType, RestType'
  PROVE  A!TypeOK'
BY DEF A!TypeOK, A!LLM!TypeOK, ChatType, ChatRec, ChatPc, Outcome, TaskType, TaskPc, RestType

\* Where a handler of the agent may be, and a call of the model.
LEMMA TaskFacts ==
  /\ \A pc \in {"none", "asking", "writing", "done", "cut"} : pc \in TaskPc
  /\ \A pc \in {"none", "waiting", "returned"} : pc \in ChatPc
  /\ "ok" \in Outcome /\ "api error" \in Outcome /\ "no choices" \in Outcome
  /\ "parse error" \in Outcome /\ "timeout" \in Outcome /\ "cancelled" \in Outcome
BY DEF TaskPc, ChatPc, Outcome

\* A handler, as the task, the call of the model and the exchange see it.
TaskEffect(r) ==
  \/ UNCHANGED <<task[r], chat[r], wire[r]>> /\ (r \in watched' => r \in watched)
  \/ /\ A!Received(r) /\ ~Form[r].valid
     /\ task'[r] = "done" /\ chat'[r] = chat[r] /\ (r \in watched' => r \in watched)
     /\ IF wire[r].pc = "sent" THEN wire'[r].pc = "whole" /\ wire'[r].code = 400
                               ELSE wire'[r] = wire[r]
  \/ /\ A!Received(r) /\ Form[r].valid /\ chat[r].pc = "none"
     /\ task'[r] = "asking" /\ wire'[r] = wire[r]
     /\ chat'[r].pc = "waiting" /\ chat'[r].waited = chat[r].waited
     /\ chat'[r].outcome = chat[r].outcome
  \/ /\ task[r] = "asking" /\ chat[r].pc = "waiting"
     /\ UNCHANGED <<task[r], wire[r]>> /\ (r \in watched' => r \in watched)
     /\ chat'[r].pc = "returned" /\ chat'[r].waited = chat[r].waited
  \/ /\ task[r] = "asking" /\ chat[r].pc = "returned"
     /\ task'[r] = "writing" /\ chat'[r] = chat[r] /\ (r \in watched' => r \in watched)
     /\ IF wire[r].pc = "sent"
        THEN wire'[r].pc = "head" /\ wire'[r].code = IF chat[r].outcome = "ok" THEN 200 ELSE 500
        ELSE wire'[r] = wire[r]
  \/ /\ task[r] = "writing"
     /\ task'[r] = "done" /\ chat'[r] = chat[r] /\ (r \in watched' => r \in watched)
     /\ wire'[r].code = wire[r].code
     /\ wire'[r].pc = IF wire[r].pc = "head" THEN "whole" ELSE wire[r].pc

\* The end of the process.
CutEffect(r) ==
  /\ r \in watched' => r \in watched
  /\ task'[r] = IF task[r] \in {"asking", "writing"} THEN "cut" ELSE task[r]
  /\ \/ chat'[r] = chat[r] /\ chat[r].pc # "waiting"
     \/ chat[r].pc = "waiting" /\ chat'[r].pc = "returned" /\ chat'[r].waited = chat[r].waited
  /\ wire'[r].code = wire[r].code
  /\ wire'[r].pc = IF wire[r].pc \in {"sent", "closed"} THEN "broken"
                   ELSE IF wire[r].pc = "head" THEN "torn" ELSE wire[r].pc

AgentEffect ==
  /\ \A r \in Requests \ A!Served : wire'[r] = wire[r]
  /\ \/ UNCHANGED up /\ \A r \in A!Served : TaskEffect(r)
     \/ ~A!Running' /\ \A r \in A!Served : CutEffect(r)

\* The client of the model changes the call of one request.
ChatStep(r, pc) ==
  /\ chat' \in ChatType
  /\ chat'[r].pc = pc /\ chat'[r].waited = chat[r].waited
  /\ \A q \in A!Served : q # r => chat'[q] = chat[q]

\* What each form of assignment to chat does to the call of r, and to no other.
LEMMA ChatUpdate ==
  ASSUME chat \in ChatType, NEW r \in A!Served, NEW pc \in ChatPc
  PROVE  /\ chat' = [chat EXCEPT ![r].pc = pc] =>
              ChatStep(r, pc) /\ chat'[r].outcome = chat[r].outcome
         /\ \A outcome \in Outcome :
              chat' = [chat EXCEPT ![r].pc = pc, ![r].outcome = outcome] => ChatStep(r, pc)
BY DEF ChatType, ChatRec, ChatStep

\* A call of the model returns to its own handler.
LEMMA ReturnSteps ==
  ASSUME chat \in ChatType, RestType, NEW r \in A!Served, UNCHANGED watched,
         A!LLM!Finish(r) \/ A!LLM!CallerLeaves(r)
  PROVE  /\ RestType'
         /\ \/ UNCHANGED chat
            \/ chat[r].pc = "waiting" /\ ChatStep(r, "returned")
<1>1. RestType'
  BY DEF A!LLM!Finish, A!LLM!Timers, A!LLM!Answer, A!LLM!TimeOut, A!LLM!Cancel, A!LLM!CallerLeaves,
     RestType
<1>2. CASE A!LLM!CallerLeaves(r)
  BY <1>1, <1>2 DEF A!LLM!CallerLeaves
<1>3. CASE A!LLM!Finish(r)
  <2>1. PICK outcome \in Outcome : A!LLM!Return(r, outcome)
    BY <1>3, TaskFacts DEF A!LLM!Finish, A!LLM!Timers, A!LLM!Answer, A!LLM!TimeOut, A!LLM!Cancel
  <2>2. chat[r].pc = "waiting"
    BY <1>3 DEF A!LLM!Finish, A!LLM!Timers, A!LLM!Answer, A!LLM!TimeOut, A!LLM!Cancel, A!LLM!Waiting
  <2>3. ChatStep(r, "returned")
    BY <2>1, ChatUpdate, TaskFacts DEF A!LLM!Return
  <2>. QED  BY <1>1, <2>2, <2>3
<1>. QED  BY <1>2, <1>3

\* Each step of the agent keeps the types and changes its requests as AgentEffect says.
LEMMA AgentSteps ==
  ASSUME A!TypeOK, wire \in WireType, up \subseteq G!Services, A!Next
  PROVE  /\ AgentEffect /\ A!TypeOK' /\ wire' \in WireType
         /\ up' \subseteq G!Services /\ X!Running' = X!Running
<1>0. task \in TaskType /\ chat \in ChatType /\ RestType
  BY AgentTypes
<1>1. ASSUME NEW r \in A!Served, NEW pc \in TaskPc, task' = [task EXCEPT ![r] = pc],
             TaskEffect(r), RestType', chat' \in ChatType,
             \A q \in A!Served : q # r => chat'[q] = chat[q] /\ (q \in watched' => q \in watched),
             NEW wpc, NEW code, WireStep(r, wpc, code), UNCHANGED up
      PROVE  /\ AgentEffect /\ A!TypeOK' /\ wire' \in WireType
             /\ up' \subseteq G!Services /\ X!Running' = X!Running
  <2>1. task' \in TaskType /\ \A q \in A!Served : q # r => task'[q] = task[q]
    BY <1>0, <1>1 DEF TaskType
  <2>2. \A q \in A!Served : TaskEffect(q)
    <3>. SUFFICES ASSUME NEW q \in A!Served, q # r PROVE TaskEffect(q)
      BY <1>1
    <3>1. wire'[q] = wire[q]
      BY <1>1 DEF WireStep, A!Served
    <3>. QED  BY <1>1, <2>1, <3>1 DEF TaskEffect
  <2>3. \A q \in Requests \ A!Served : wire'[q] = wire[q]
    BY <1>1 DEF WireStep
  <2>. QED  BY <1>1, <2>1, <2>2, <2>3, AgentTypesNext DEF AgentEffect, WireStep, X!Running
<1>2. ASSUME NEW r \in A!Served, A!Handler(r)
      PROVE  /\ AgentEffect /\ A!TypeOK' /\ wire' \in WireType
             /\ up' \subseteq G!Services /\ X!Running' = X!Running
  <2>0. r \in Requests /\ wire[r].pc \in WirePc /\ wire[r].code \in WireCode /\ task[r] \in TaskPc
    BY <1>0 DEF A!Served, WireType, WireRec, TaskType
  <2>1. CASE A!Refuse(r)
    <3>1. PICK wpc, code : /\ WireStep(r, wpc, code)
                           /\ IF wire[r].pc = "sent" THEN wpc = "whole" /\ code = 400
                                                     ELSE wire'[r] = wire[r]
      <4>1. CASE wire[r].pc = "sent"
        <5>1. WireStep(r, "whole", 400)
          BY <1>0, <2>0, <2>1, <4>1, WireSteps, PcFacts DEF A!Refuse
        <5>. QED  BY <4>1, <5>1
      <4>2. CASE wire[r].pc # "sent"
        <5>1. WireStep(r, wire[r].pc, wire[r].code) /\ UNCHANGED wire
          BY <2>0, <2>1, <4>2, WireSteps DEF A!Refuse
        <5>. QED  BY <4>2, <5>1
      <4>. QED  BY <4>1, <4>2
    <3>2. TaskEffect(r)
      BY <1>0, <2>1, <3>1 DEF A!Refuse, A!llm, TaskEffect, TaskType, WireStep
    <3>. QED  BY <1>0, <1>1, <2>1, <3>1, <3>2, TaskFacts DEF A!Refuse, A!llm, RestType
  <2>2. CASE A!Ask(r)
    <3>1. WireStep(r, wire[r].pc, wire[r].code) /\ UNCHANGED <<wire, up>>
      BY <2>0, <2>2, WireSteps DEF A!Ask
    <3>2. chat[r].pc = "none" /\ ChatStep(r, "waiting") /\ chat'[r].outcome = chat[r].outcome
      BY <1>0, <2>2, ChatUpdate, TaskFacts DEF A!Ask, A!LLM!Call
    <3>3. RestType' /\ \A q \in A!Served : q # r => (q \in watched' => q \in watched)
      BY <1>0, <2>2 DEF A!Ask, A!LLM!Call, RestType
    <3>4. TaskEffect(r)
      BY <1>0, <2>2, <3>1, <3>2 DEF A!Ask, TaskEffect, TaskType, ChatStep
    <3>. QED  BY <1>1, <2>2, <3>1, <3>2, <3>3, <3>4, TaskFacts DEF A!Ask, ChatStep
  <2>3. CASE A!Disconnect(r) \/ A!ModelReturns(r)
    <3>1. WireStep(r, wire[r].pc, wire[r].code) /\ UNCHANGED <<wire, up, task, watched>>
      BY <2>0, <2>3, WireSteps DEF A!Disconnect, A!ModelReturns
    <3>2. /\ RestType'
          /\ \/ UNCHANGED chat
             \/ chat[r].pc = "waiting" /\ ChatStep(r, "returned")
      BY <1>0, <2>3, <3>1, ReturnSteps DEF A!Disconnect, A!ModelReturns
    <3>3. task[r] = "asking"
      BY <2>3 DEF A!Disconnect, A!ModelReturns
    <3>4. TaskEffect(r)
      BY <3>1, <3>2, <3>3 DEF TaskEffect, ChatStep
    <3>5. task' = [task EXCEPT ![r] = task[r]]
      BY <1>0, <3>1 DEF TaskType
    <3>6. chat' \in ChatType /\ \A q \in A!Served : q # r => chat'[q] = chat[q]
      BY <1>0, <3>2 DEF ChatStep
    <3>. QED  BY <1>1, <2>0, <3>1, <3>2, <3>4, <3>5, <3>6
  <2>4. CASE A!Encode(r)
    <3>1. PICK wpc, code :
             /\ WireStep(r, wpc, code)
             /\ IF wire[r].pc = "sent"
                THEN wpc = "head" /\ code = IF chat[r].outcome = "ok" THEN 200 ELSE 500
                ELSE wire'[r] = wire[r]
      <4>1. CASE wire[r].pc = "sent"
        <5>. DEFINE status == IF chat[r].outcome = "ok" THEN 200 ELSE 500
        <5>1. status \in WireCode
          BY PcFacts
        <5>2. wire' = [wire EXCEPT ![r] = [pc |-> "head", code |-> status]]
          BY <2>4, <4>1 DEF A!Encode
        <5>3. WireStep(r, "head", status)
          BY <2>0, <5>1, <5>2, WireSteps, PcFacts
        <5>. QED  BY <4>1, <5>3
      <4>2. CASE wire[r].pc # "sent"
        <5>1. WireStep(r, wire[r].pc, wire[r].code) /\ UNCHANGED wire
          BY <2>0, <2>4, <4>2, WireSteps DEF A!Encode
        <5>. QED  BY <4>2, <5>1
      <4>. QED  BY <4>1, <4>2
    <3>2. TaskEffect(r)
      BY <1>0, <2>4, <3>1 DEF A!Encode, A!llm, TaskEffect, TaskType, WireStep
    <3>. QED  BY <1>0, <1>1, <2>4, <3>1, <3>2, TaskFacts DEF A!Encode, A!llm, RestType
  <2>5. CASE A!Write(r)
    <3>1. PICK wpc : /\ WireStep(r, wpc, wire[r].code)
                     /\ wpc = IF wire[r].pc = "head" THEN "whole" ELSE wire[r].pc
      <4>1. CASE wire[r].pc = "head"
        <5>1. WireStep(r, "whole", wire[r].code)
          BY <2>0, <2>5, <4>1, WireSteps, PcFacts DEF A!Write
        <5>. QED  BY <4>1, <5>1
      <4>2. CASE wire[r].pc # "head"
        <5>1. WireStep(r, wire[r].pc, wire[r].code)
          BY <2>0, <2>5, <4>2, WireSteps DEF A!Write
        <5>. QED  BY <4>2, <5>1
      <4>. QED  BY <4>1, <4>2
    <3>2. TaskEffect(r)
      BY <1>0, <2>5, <3>1 DEF A!Write, A!llm, TaskEffect, TaskType, WireStep
    <3>. QED  BY <1>0, <1>1, <2>5, <3>1, <3>2, TaskFacts DEF A!Write, A!llm, RestType
  <2>. QED  BY <1>2, <2>1, <2>2, <2>3, <2>4, <2>5 DEF A!Handler
<1>3. CASE A!Terminate
  <2>1. ~A!Running' /\ X!Running' = X!Running /\ up' \subseteq G!Services
    <3>1. up' = up \ {"agent"}
      BY <1>3 DEF A!Terminate
    <3>2. up' \subseteq G!Services
      BY <3>1
    <3>3. X!Running' = X!Running
      BY <3>1 DEF X!Running
    <3>. QED  BY <3>1, <3>2, <3>3 DEF A!Running
  <2>2. task' \in TaskType
    BY <1>0, <1>3, TaskFacts DEF A!Terminate, TaskType
  <2>3. chat' \in ChatType
    <3>1. \A r \in A!Served : [chat[r] EXCEPT !.pc = "returned", !.outcome = "cancelled"] \in ChatRec
      BY <1>0, TaskFacts DEF ChatType, ChatRec
    <3>. QED  BY <1>0, <1>3, <3>1 DEF A!Terminate, ChatType
  <2>4. RestType'
    BY <1>0, <1>3 DEF A!Terminate, RestType
  <2>5. wire' \in WireType
    <3>1. \A r \in Requests : A!Break(r) \in WireRec
      <4>1. \A r \in Requests : /\ wire[r] \in WireRec /\ [wire[r] EXCEPT !.pc = "broken"] \in WireRec
                                /\ [wire[r] EXCEPT !.pc = "torn"] \in WireRec
        BY PcFacts DEF WireType, WireRec
      <4>. QED  BY <4>1 DEF A!Break
    <3>. QED  BY <1>3, <3>1 DEF A!Terminate, WireType
  <2>6. ASSUME NEW r \in A!Served PROVE CutEffect(r)
    <3>1. r \in Requests /\ wire[r] \in WireRec /\ chat[r] \in ChatRec
      BY <1>0 DEF A!Served, WireType, ChatType
    <3>2. /\ A!Break(r).code = wire[r].code
          /\ A!Break(r).pc = IF wire[r].pc \in {"sent", "closed"} THEN "broken"
                             ELSE IF wire[r].pc = "head" THEN "torn" ELSE wire[r].pc
      BY <3>1 DEF A!Break, WireRec
    <3>3. wire'[r] = A!Break(r)
      BY <1>3, <3>1 DEF A!Terminate
    <3>4. \/ chat'[r] = chat[r] /\ chat[r].pc # "waiting"
          \/ chat[r].pc = "waiting" /\ chat'[r].pc = "returned" /\ chat'[r].waited = chat[r].waited
      BY <1>3, <3>1 DEF A!Terminate, ChatRec
    <3>5. task'[r] = IF task[r] \in {"asking", "writing"} THEN "cut" ELSE task[r]
      BY <1>3 DEF A!Terminate
    <3>6. UNCHANGED watched
      BY <1>3 DEF A!Terminate
    <3>. QED  BY <3>2, <3>3, <3>4, <3>5, <3>6 DEF CutEffect
  <2>7. \A r \in Requests \ A!Served : wire'[r] = wire[r]
    BY <1>3 DEF A!Terminate
  <2>. QED  BY <2>1, <2>2, <2>3, <2>4, <2>5, <2>6, <2>7, AgentTypesNext DEF AgentEffect
<1>. QED  BY <1>2, <1>3 DEF A!Next

----------------------------------------------------------------------------
(* The invariant of one request.                                           *)

RunsOnce(r) == r \in X!Served /\ ~G!IsGet(r) => call[r].runs <= 1
IsBounded(r) == r \in watched => chat[r].waited <= ProxyTimeout

RequestInv(r) ==
  /\ ExchangeAgrees(r) /\ AnswerIsFinal(r) /\ StatusIsReal(r)
  /\ r \in X!Served => RunsInProcess(r)
  /\ r \in A!Served => CallAgrees(r)
  /\ RunsOnce(r) /\ IsBounded(r)

LEMMA ServedOnce == /\ X!Served \subseteq Requests /\ A!Served \subseteq Requests
                    /\ X!Served \cap A!Served = {}
BY DEF X!Served, A!Served

\* The invariants that speak of one request at a time.
LEMMA RequestInvs ==
  ASSUME A!TypeOK
  PROVE  (\A r \in Requests : RequestInv(r)) <=>
           /\ ExchangesAgree /\ RunsInProcesses /\ AnswersAreFinal /\ CallsAgree
           /\ PostsRunOnce /\ StatusesAreReal /\ ModelWaitIsBounded
<1>1. watched \subseteq Requests
  BY ServedOnce DEF A!TypeOK
<1>. QED  BY <1>1, ServedOnce DEF RequestInv, RunsOnce, IsBounded, ExchangesAgree, RunsInProcesses,
     AnswersAreFinal, CallsAgree, PostsRunOnce, StatusesAreReal, ModelWaitIsBounded

\* The gateway keeps the invariants of a request.
LEMMA GatewayRequest ==
  ASSUME NEW r \in Requests, RequestInv(r), GatewayEffect(r),
         UNCHANGED <<up, experienced, agents>>
  PROVE  RequestInv(r)'
<1>0. /\ UNCHANGED <<experiences, score, call, raced, starts, task, watched, chat, up>>
      /\ ExchangeAgrees(r) /\ AnswerIsFinal(r) /\ StatusIsReal(r)
      /\ r \in X!Served => RunsInProcess(r)
      /\ r \in A!Served => CallAgrees(r)
  BY DEF experienced, agents, RequestInv
<1>1. RunsOnce(r)' /\ IsBounded(r)'
  BY <1>0 DEF RequestInv, RunsOnce, IsBounded
<1>2. ExchangeAgrees(r)'
  BY <1>0 DEF GatewayEffect, ReplyEffect, HungUp, ExchangeAgrees, Answering, G!InProgress, G!Arrives
<1>3. AnswerIsFinal(r)'
  BY <1>0 DEF GatewayEffect, ReplyEffect, HungUp, ExchangeAgrees, AnswerIsFinal, Answering,
     G!InProgress, G!Arrives, G!Proxied
<1>4. StatusIsReal(r)'
  BY <1>0 DEF GatewayEffect, ReplyEffect, HungUp, ExchangeAgrees, StatusIsReal, Answering, RunsInProcess,
     G!InProgress, G!Arrives, G!Proxied
<1>5. r \in X!Served => RunsInProcess(r)'
  BY <1>0 DEF GatewayEffect, HungUp, ExchangeAgrees, RunsInProcess, X!Running, G!IsGet, G!Arrives
<1>6. r \in A!Served => CallAgrees(r)'
  BY <1>0 DEF GatewayEffect, HungUp, ExchangeAgrees, CallAgrees, A!Running, A!LLM!Waiting, G!Arrives
<1>. QED  BY <1>1, <1>2, <1>3, <1>4, <1>5, <1>6 DEF RequestInv

\* So does a handler of the experience service.
LEMMA HandlerRequest ==
  ASSUME NEW r \in X!Served, r \in Requests, r \notin A!Served, starts \in 1..MaxStarts, call \in CallType,
         RequestInv(r), HandlerEffect(r), UNCHANGED <<up, starts, gateways, agents>>
  PROVE  RequestInv(r)'
<1>0. /\ UNCHANGED <<conn, watched, chat, up, starts>> /\ Form[r].service # "ingestion"
      /\ ExchangeAgrees(r) /\ AnswerIsFinal(r) /\ StatusIsReal(r) /\ RunsInProcess(r)
      /\ call[r].runs \in Nat /\ call[r].start \in Nat /\ starts \in Nat /\ starts > 0
  BY FormAssumption DEF gateways, agents, RequestInv, CallType, CallRec, Runs, X!Served
<1>1. IsBounded(r)'
  BY <1>0 DEF RequestInv, IsBounded
<1>2. RunsOnce(r)'
  BY <1>0 DEF RequestInv, RunsOnce, HandlerEffect, RunsInProcess, X!Received
<1>3. ExchangeAgrees(r)'
  BY <1>0 DEF HandlerEffect, ExchangeAgrees, RunsInProcess, Answering, G!InProgress, X!Received
<1>4. AnswerIsFinal(r)'
  BY <1>0 DEF HandlerEffect, ExchangeAgrees, AnswerIsFinal, Answering, G!InProgress, G!Proxied, X!Received
<1>5. StatusIsReal(r)'
  BY <1>0 DEF HandlerEffect, ExchangeAgrees, AnswerIsFinal, StatusIsReal, Answering, RunsInProcess,
     G!InProgress, G!Proxied, X!Received
<1>6. RunsInProcess(r)'
  BY <1>0 DEF HandlerEffect, ExchangeAgrees, RunsInProcess, X!Running, X!Received
<1>. QED  BY <1>1, <1>2, <1>3, <1>4, <1>5, <1>6 DEF RequestInv

\* So does the end of the service, which cuts what is open.
LEMMA EndRequest ==
  ASSUME NEW r \in X!Served, r \in Requests, r \notin A!Served, call \in CallType,
         RequestInv(r), EndEffect(r), ~X!Running', UNCHANGED <<starts, gateways, agents>>
  PROVE  RequestInv(r)'
<1>0. /\ UNCHANGED <<conn, watched, chat, starts>> /\ Form[r].service # "ingestion"
      /\ ExchangeAgrees(r) /\ AnswerIsFinal(r) /\ StatusIsReal(r) /\ RunsInProcess(r)
  BY DEF gateways, agents, RequestInv, X!Served
<1>1. IsBounded(r)' /\ RunsOnce(r)'
  BY <1>0 DEF RequestInv, IsBounded, RunsOnce, EndEffect
<1>2. ExchangeAgrees(r)'
  BY <1>0 DEF EndEffect, ExchangeAgrees, Answering, G!InProgress
<1>3. AnswerIsFinal(r)' /\ StatusIsReal(r)'
  BY <1>0 DEF EndEffect, ExchangeAgrees, AnswerIsFinal, StatusIsReal, Answering, G!InProgress, G!Proxied
<1>4. RunsInProcess(r)'
  BY <1>0 DEF EndEffect, RunsInProcess
<1>. QED  BY <1>1, <1>2, <1>3, <1>4 DEF RequestInv

\* Hence every step of the service does.
LEMMA ServiceRequest ==
  ASSUME NEW r \in Requests, starts \in 1..MaxStarts, call \in CallType, ServiceEffect,
         A!Running' = A!Running, RequestInv(r), UNCHANGED <<gateways, agents>>
  PROVE  RequestInv(r)'
<1>0. UNCHANGED <<conn, task, watched, chat>>
  BY DEF gateways, agents
<1>1. CASE r \notin X!Served
  <2>1. wire'[r] = wire[r]
    BY <1>1 DEF ServiceEffect
  <2>. QED  BY <1>0, <1>1, <2>1 DEF RequestInv, ExchangeAgrees, AnswerIsFinal, StatusIsReal, CallAgrees,
       RunsOnce, IsBounded, Answering, G!InProgress, G!Proxied, A!LLM!Waiting
<1>2. CASE r \in X!Served /\ ~X!Running /\ starts' = starts + 1 /\ UNCHANGED <<call, wire>>
  <2>1. r \notin A!Served
    BY <1>2, ServedOnce
  <2>2. RunsInProcess(r)'
    BY <1>2, FormAssumption DEF RequestInv, RunsInProcess, CallType, CallRec, Runs
  <2>. QED  BY <1>0, <1>2, <2>1, <2>2 DEF RequestInv, ExchangeAgrees, AnswerIsFinal, StatusIsReal,
       RunsOnce, IsBounded, Answering, G!InProgress, G!Proxied
<1>. QED  BY <1>1, <1>2, HandlerRequest, EndRequest, ServedOnce DEF ServiceEffect

\* A handler of the agent keeps the invariants of its request.
LEMMA TaskRequest ==
  ASSUME NEW r \in A!Served, r \notin X!Served, chat[r].waited \in Nat, conn[r].waited \in Nat,
         RequestInv(r), TaskEffect(r), UNCHANGED <<up, gateways, experienced>>
  PROVE  RequestInv(r)'
<1>0. /\ UNCHANGED <<conn, up>> /\ Form[r].service # "ingestion"
      /\ ExchangeAgrees(r) /\ AnswerIsFinal(r) /\ StatusIsReal(r) /\ CallAgrees(r)
      /\ ProxyTimeout \in Nat
  BY TimeoutAssumption DEF gateways, RequestInv, A!Served
<1>1. IsBounded(r)'
  BY <1>0 DEF RequestInv, IsBounded, TaskEffect, CallAgrees
<1>2. ExchangeAgrees(r)'
  BY <1>0 DEF TaskEffect, ExchangeAgrees, CallAgrees, Answering, G!InProgress, A!Received, A!LLM!Waiting
<1>3. AnswerIsFinal(r)'
  BY <1>0 DEF TaskEffect, AnswerIsFinal, A!Received, G!Proxied
<1>4. StatusIsReal(r)'
  BY <1>0 DEF TaskEffect, AnswerIsFinal, StatusIsReal, A!Received, G!Proxied
<1>5. CallAgrees(r)'
  BY <1>0 DEF TaskEffect, CallAgrees, A!Running, A!Received, A!LLM!Waiting
<1>. QED  BY <1>1, <1>2, <1>3, <1>4, <1>5 DEF RequestInv, RunsOnce

\* The end of the agent keeps the invariants of the requests it cuts.
LEMMA CutRequest ==
  ASSUME NEW r \in A!Served, r \notin X!Served, ~A!Running',
         RequestInv(r), CutEffect(r), UNCHANGED <<gateways, experienced>>
  PROVE  RequestInv(r)'
<1>0. /\ UNCHANGED conn /\ Form[r].service # "ingestion"
      /\ ExchangeAgrees(r) /\ AnswerIsFinal(r) /\ StatusIsReal(r) /\ CallAgrees(r)
  BY DEF gateways, RequestInv, A!Served
<1>1. IsBounded(r)'
  BY <1>0 DEF RequestInv, IsBounded, CutEffect, CallAgrees
<1>2. ExchangeAgrees(r)'
  BY <1>0 DEF CutEffect, ExchangeAgrees, CallAgrees, Answering, G!InProgress, A!LLM!Waiting
<1>3. AnswerIsFinal(r)' /\ StatusIsReal(r)'
  BY <1>0 DEF CutEffect, AnswerIsFinal, StatusIsReal, CallAgrees, G!Proxied, A!LLM!Waiting
<1>4. CallAgrees(r)'
  BY <1>0 DEF CutEffect, CallAgrees, A!LLM!Waiting
<1>. QED  BY <1>1, <1>2, <1>3, <1>4 DEF RequestInv, RunsOnce

\* Hence every step of the agent keeps them.
LEMMA AgentRequest ==
  ASSUME NEW r \in Requests, A!TypeOK, A!TypeOK', conn \in ConnType, AgentEffect,
         X!Running' = X!Running, RequestInv(r), UNCHANGED <<gateways, experienced>>
  PROVE  RequestInv(r)'
<1>0. UNCHANGED <<conn, call, starts>>
  BY DEF gateways, experienced
<1>1. CASE r \notin A!Served
  <2>1. wire'[r] = wire[r] /\ r \notin watched'
    BY <1>1 DEF AgentEffect, A!TypeOK
  <2>. QED  BY <1>0, <1>1, <2>1 DEF RequestInv, ExchangeAgrees, AnswerIsFinal, StatusIsReal, RunsInProcess,
       RunsOnce, IsBounded, Answering, G!InProgress, G!Proxied
<1>2. CASE r \in A!Served
  <2>1. chat[r].waited \in Nat /\ conn[r].waited \in Nat
    BY <1>2, AgentTypes, TimeoutAssumption DEF ChatType, ChatRec, ConnType, ConnRec, Waits
  <2>. QED  BY <1>2, <2>1, TaskRequest, CutRequest, ServedOnce DEF AgentEffect
<1>. QED  BY <1>1, <1>2

\* The upload that the ingestion service refuses.
LEMMA UploadRequest ==
  ASSUME TypeOK, \A r \in Requests : RequestInv(r), NEW u \in Requests, RefuseUpload(u)
  PROVE  TypeOK' /\ \A r \in Requests : RequestInv(r)'
<1>0. /\ wire \in WireType /\ UNCHANGED <<up, conn, call, starts, task, watched, chat>>
      /\ u \notin X!Served /\ u \notin A!Served
  BY GatewayTypes DEF TypeOK, RefuseUpload, gateways, experienced, agents, X!Served, A!Served
<1>1. WireStep(u, "whole", 400)
  BY <1>0, WireSteps, PcFacts DEF RefuseUpload
<1>2. TypeOK'
  <2>1. G!TypeOK'
    BY <1>1 DEF TypeOK, G!TypeOK, RefuseUpload, gateways, WireStep, WireType, WireRec, WirePc, WireCode, G!Answered
  <2>2. X!TypeOK' /\ A!TypeOK'
    BY DEF TypeOK, X!TypeOK, A!TypeOK, A!LLM!TypeOK, RefuseUpload, experienced, agents
  <2>. QED  BY <2>1, <2>2 DEF TypeOK
<1>3. ASSUME NEW r \in Requests PROVE RequestInv(r)'
  <2>1. CASE r # u
    <3>1. wire'[r] = wire[r]
      BY <1>1, <2>1 DEF WireStep
    <3>. QED  BY <1>0, <3>1 DEF RequestInv, ExchangeAgrees, AnswerIsFinal, StatusIsReal, RunsInProcess,
         CallAgrees, RunsOnce, IsBounded, Answering, G!InProgress, G!Proxied, X!Running, A!Running,
         A!LLM!Waiting
  <2>2. CASE r = u
    <3>1. wire[r].pc = "sent" /\ wire'[r].pc = "whole" /\ wire'[r].code = 400
      BY <1>1, <2>2 DEF RefuseUpload, WireStep
    <3>. QED  BY <1>0, <2>2, <3>1 DEF RequestInv, ExchangeAgrees, AnswerIsFinal, StatusIsReal,
         RunsOnce, IsBounded, Answering, G!InProgress, G!Proxied
  <2>. QED  BY <2>1, <2>2
<1>. QED  BY <1>2, <1>3

\* Time passes: who waits has waited one tick more.
ConnWaits(r) ==
  /\ conn'[r].pc = conn[r].pc /\ conn'[r].code = conn[r].code
  /\ conn'[r].whole = conn[r].whole /\ conn'[r].after = conn[r].after
  /\ conn'[r].waited = IF G!InProgress(r) THEN conn[r].waited + 1 ELSE conn[r].waited

ChatWaits(r) ==
  /\ chat'[r].pc = chat[r].pc /\ chat'[r].outcome = chat[r].outcome
  /\ \/ chat'[r].waited = chat[r].waited
     \/ chat[r].pc = "waiting" /\ chat'[r].waited = chat[r].waited + 1

\* What a tick of the clock does: everyone who waits has waited longer.
LEMMA TickSteps ==
  ASSUME TypeOK, Tick
  PROVE  /\ TypeOK' /\ UNCHANGED <<asked, up, wire, experienced, task, watched>>
         /\ \A r \in Requests : ConnWaits(r)
         /\ \A r \in A!Served : ChatWaits(r)
<1>0. conn \in ConnType /\ chat \in ChatType /\ UNCHANGED <<asked, up, wire, experienced, task, watched>>
  BY GatewayTypes, AgentTypes DEF TypeOK, Tick
<1>1. ASSUME NEW r \in Requests, G!InProgress(r)
      PROVE  [conn[r] EXCEPT !.waited = @ + 1] \in ConnRec
  <2>1. conn[r].waited < ProxyTimeout /\ conn[r].waited \in Nat
    BY <1>0, <1>1, TimeoutAssumption DEF Tick, G!MayTick, G!Expired, ConnType, ConnRec, Waits
  <2>2. conn[r].waited + 1 \in Waits
    BY <2>1, TimeoutAssumption DEF Waits
  <2>. QED  BY <1>0, <2>2 DEF ConnType, ConnRec
<1>2. conn' \in ConnType
  BY <1>0, <1>1 DEF Tick, G!Wait, ConnType
<1>3. ASSUME NEW r \in A!Served, A!LLM!Waiting(r), A!LLM!Timed(r)
      PROVE  [chat[r] EXCEPT !.waited = @ + 1] \in ChatRec
  <2>1. chat[r].waited < LLMTimeout /\ chat[r].waited \in 0..LLMTimeout
    BY <1>0, <1>3 DEF Tick, A!LLM!MayTick, ChatType, ChatRec
  <2>2. chat[r].waited + 1 \in 0..LLMTimeout
    BY <2>1, TimeoutAssumption
  <2>. QED  BY <1>0, <2>2 DEF ChatType, ChatRec
<1>4. chat' \in ChatType
  BY <1>0, <1>3 DEF Tick, A!LLM!Wait, ChatType
<1>5. ASSUME NEW r \in Requests PROVE ConnWaits(r)
  BY <1>0 DEF Tick, G!Wait, ConnWaits, ConnType, ConnRec
<1>6. ASSUME NEW r \in A!Served PROVE ChatWaits(r)
  BY <1>0 DEF Tick, A!LLM!Wait, A!LLM!Waiting, ChatWaits, ChatType, ChatRec
<1>7. TypeOK'
  <2>1. \A q \in G!Answered' : conn'[q].code # 0
    BY <1>5 DEF ConnWaits, G!Answered, TypeOK, G!TypeOK
  <2>2. G!TypeOK'
    BY <1>2, <2>1 DEF Tick, TypeOK, G!TypeOK, ConnType, ConnRec, ConnPc, ConnCode, Waits
  <2>3. X!TypeOK'
    BY <1>0 DEF TypeOK, X!TypeOK, experienced
  <2>4. A!TypeOK'
    BY <1>4, AgentTypes, AgentTypesNext DEF Tick, TypeOK, RestType
  <2>. QED  BY <2>2, <2>3, <2>4 DEF TypeOK
<1>. QED  BY <1>0, <1>5, <1>6, <1>7

\* The clock keeps the invariants of a request: it goes on only when no timer is due.
LEMMA TickRequest ==
  ASSUME TypeOK, NEW r \in Requests, RequestInv(r), Tick, r \in A!Served => ChatWaits(r), ConnWaits(r),
         UNCHANGED <<asked, up, wire, experienced, task, watched>>
  PROVE  RequestInv(r)'
<1>0. /\ UNCHANGED <<call, starts>>
      /\ ExchangeAgrees(r) /\ AnswerIsFinal(r) /\ StatusIsReal(r)
      /\ conn[r].waited \in Nat /\ (r \in A!Served => chat[r].waited \in Nat)
  BY GatewayTypes, AgentTypes, TimeoutAssumption DEF experienced, RequestInv, TypeOK, ConnType, ConnRec,
     Waits, ChatType, ChatRec
<1>1. ExchangeAgrees(r)'
  BY <1>0 DEF ExchangeAgrees, ConnWaits, ChatWaits, Answering, G!InProgress
<1>2. AnswerIsFinal(r)' /\ StatusIsReal(r)'
  BY <1>0 DEF AnswerIsFinal, StatusIsReal, ConnWaits, ChatWaits, G!Proxied
<1>3. RunsOnce(r)' /\ (r \in X!Served => RunsInProcess(r)')
  BY <1>0 DEF RequestInv, RunsOnce, RunsInProcess, X!Running
<1>4. r \in A!Served => CallAgrees(r)'
  BY <1>0 DEF RequestInv, ExchangeAgrees, CallAgrees, ConnWaits, ChatWaits, A!LLM!Waiting, A!Running
<1>5. IsBounded(r)'
  <2>. SUFFICES ASSUME r \in watched, chat[r].pc = "waiting" PROVE chat'[r].waited <= ProxyTimeout
    BY <1>0 DEF RequestInv, IsBounded, ChatWaits, TypeOK, A!TypeOK
  <2>1. r \in A!Served /\ A!LLM!Waiting(r)
    BY DEF TypeOK, A!TypeOK, A!LLM!Waiting
  <2>2. wire[r].pc = "sent" /\ chat[r].waited <= conn[r].waited
    BY <2>1 DEF RequestInv, CallAgrees, Tick, A!Running
  <2>3. conn[r].waited < ProxyTimeout
    BY <1>0, <2>2, TimeoutAssumption DEF ExchangeAgrees, Tick, G!MayTick, G!Expired
  <2>. QED  BY <1>0, <2>1, <2>2, <2>3, TimeoutAssumption DEF ChatWaits
<1>. QED  BY <1>1, <1>2, <1>3, <1>4, <1>5 DEF RequestInv

----------------------------------------------------------------------------
(* The order of the answers.                                               *)

\* What was answered is not answered again.
SameAnswers ==
  \A r \in Requests : conn[r].pc = "replied" =>
    /\ conn'[r].pc = "replied" /\ conn'[r].code = conn[r].code
    /\ conn'[r].whole = conn[r].whole /\ conn'[r].after = conn[r].after

\* Who was answered before a request was sent stays so.
LEMMA GatewayOrder ==
  ASSUME conn \in ConnType, AnswersInOrder, \A r \in Requests : GatewayEffect(r)
  PROVE  AnswersInOrder' /\ SameAnswers
<1>1. SameAnswers
  BY DEF SameAnswers, GatewayEffect, G!Arrives
<1>2. ASSUME NEW r \in Requests, conn'[r].pc # "new", NEW p \in Form[r].follows
      PROVE  OK(p)' /\ conn'[p].whole
  <2>1. p \in Requests
    BY FormAssumption
  <2>2. OK(p) /\ conn[p].whole
    BY <1>2 DEF AnswersInOrder, GatewayEffect, G!Arrives, G!Answered, OK
  <2>. QED  BY <1>1, <2>1, <2>2 DEF SameAnswers, OK
<1>3. ASSUME NEW q \in Requests, NEW r \in conn'[q].after
      PROVE  conn'[r].pc = "replied" /\ Form[r].follows \subseteq conn'[q].after
  <2>1. CASE conn'[q].after = conn[q].after
    <3>1. r \in Requests
      BY <1>3, <2>1 DEF ConnType, ConnRec
    <3>. QED  BY <1>1, <1>3, <2>1, <3>1 DEF AnswersInOrder, SameAnswers
  <2>2. CASE conn'[q].after = G!Answered
    <3>1. r \in Requests /\ conn[r].pc = "replied"
      BY <1>3, <2>2 DEF G!Answered
    <3>2. \A p \in Form[r].follows : p \in G!Answered
      BY <3>1, FormAssumption DEF AnswersInOrder, OK, G!Answered
    <3>. QED  BY <1>1, <2>2, <3>1, <3>2 DEF SameAnswers
  <2>. QED  BY <2>1, <2>2 DEF GatewayEffect, ReplyEffect
<1>. QED  BY <1>1, <1>2, <1>3 DEF AnswersInOrder

----------------------------------------------------------------------------
(* What a handler of the experience service does to the map and its call.  *)

KeepsIds(r) ==
  /\ call'[r].ids = call[r].ids /\ call'[r].scores = call[r].scores
  /\ call'[r].pc \in {"encode", "write"} => call'[r].pc = call[r].pc

LeavesMap(r) ==
  /\ call[r].pc = "inside" /\ call'[r].pc = "encode" /\ UNCHANGED raced
  /\ \/ /\ Form[r].kind \in {"search", "list", "stats"}
        /\ X!Racing(r) \/ call'[r].ids \in X!Collected(r, experiences)
     \/ Form[r].kind = "store" /\ (r \in experiences' \/ X!Clobbered)
     \/ /\ Form[r].kind = "feedback"
        /\ \/ X!Racing(r) \/ Form[r].about \notin experiences
           \/ Form[r].about \in X!Stores => score'[Form[r].about] = 1

EncodesScores(r) ==
  /\ call[r].pc = "encode" /\ call'[r].pc = "write" /\ UNCHANGED raced
  /\ call'[r].ids = call[r].ids /\ call'[r].scores = [id \in call[r].ids |-> score[id]]

MapEffect ==
  /\ raced \subseteq raced'
  /\ \A s \in X!Stores : score[s] = 1 => score'[s] = 1
  /\ experiences \subseteq experiences' \/ X!Clobbered
  /\ \A r \in X!Served : KeepsIds(r) \/ LeavesMap(r) \/ EncodesScores(r)

\* A handler adds to the map and to the scores and takes nothing away, unless it races.
LEMMA MapSteps ==
  ASSUME X!TypeOK, NEW r \in X!Served, X!Handler(r)
  PROVE  MapEffect
<1>0. /\ call \in CallType /\ call \in [X!Served -> CallRec] /\ call[r] \in CallRec
      /\ score \in [X!Stores -> {0, 1}]
  BY ExperienceTypes DEF CallType
<1>1. ASSUME NEW c, call' = [call EXCEPT ![r] = c], KeepsIds(r) \/ LeavesMap(r) \/ EncodesScores(r),
             raced \subseteq raced', \A s \in X!Stores : score[s] = 1 => score'[s] = 1,
             experiences \subseteq experiences' \/ X!Clobbered
      PROVE  MapEffect
  <2>1. \A q \in X!Served : q # r => KeepsIds(q)
    BY <1>0, <1>1 DEF KeepsIds
  <2>. QED  BY <1>1, <2>1 DEF MapEffect
<1>2. CASE X!Refuse(r)
  <2>. DEFINE c == [call[r] EXCEPT !.pc = "done", !.start = starts]
  <2>1. c.pc = "done" /\ c.ids = call[r].ids /\ c.scores = call[r].scores
    BY <1>0 DEF CallRec
  <2>2. call' = [call EXCEPT ![r] = c]
    BY <1>0, <1>2 DEF X!Refuse
  <2>. HIDE DEF c
  <2>3. KeepsIds(r)
    BY <1>0, <2>1, <2>2 DEF KeepsIds
  <2>. QED  BY <1>1, <1>2, <2>2, <2>3 DEF X!Refuse
<1>3. CASE X!Enter(r)
  <2>. DEFINE c == [call[r] EXCEPT !.pc = "inside", !.runs = @ + 1, !.start = starts]
  <2>1. c.pc = "inside" /\ c.ids = call[r].ids /\ c.scores = call[r].scores
    BY <1>0 DEF CallRec
  <2>2. call' = [call EXCEPT ![r] = c]
    BY <1>0, <1>3 DEF X!Enter
  <2>. HIDE DEF c
  <2>3. KeepsIds(r)
    BY <1>0, <2>1, <2>2 DEF KeepsIds
  <2>. QED  BY <1>1, <1>3, <2>2, <2>3 DEF X!Enter
<1>4. CASE X!Collect(r)
  <2>1. UNCHANGED <<experiences, score, raced>> /\ call[r].pc = "inside"
        /\ Form[r].kind \in {"search", "list", "stats"}
    BY <1>4 DEF X!Collect
  <2>2. PICK S, ids : /\ X!Racing(r) \/ S = experiences
                      /\ ids \in X!Collected(r, S)
                      /\ call' = [call EXCEPT ![r].pc = "encode", ![r].ids = ids]
    BY <1>4 DEF X!Collect
  <2>. DEFINE c == [call[r] EXCEPT !.pc = "encode", !.ids = ids]
  <2>3. c.pc = "encode" /\ c.ids = ids
    BY <1>0 DEF CallRec
  <2>4. call' = [call EXCEPT ![r] = c]
    BY <1>0, <2>2
  <2>. HIDE DEF c
  <2>5. call'[r].pc = "encode" /\ call'[r].ids = ids
    BY <1>0, <2>3, <2>4
  <2>6. X!Racing(r) \/ call'[r].ids \in X!Collected(r, experiences)
    BY <2>2, <2>5
  <2>7. LeavesMap(r)
    BY <2>1, <2>5, <2>6 DEF LeavesMap
  <2>. QED  BY <1>1, <2>1, <2>4, <2>7
<1>5. CASE X!Store(r)
  <2>1. UNCHANGED <<score, raced>> /\ call[r].pc = "inside" /\ Form[r].kind = "store"
    BY <1>5 DEF X!Store
  <2>2. (r \in experiences' /\ experiences \subseteq experiences') \/ X!Clobbered
    BY <1>5 DEF X!Store, X!Clobbered, X!Stores
  <2>. DEFINE c == [call[r] EXCEPT !.pc = "encode", !.ids = {r}]
  <2>3. c.pc = "encode"
    BY <1>0 DEF CallRec
  <2>4. call' = [call EXCEPT ![r] = c]
    BY <1>0, <1>5 DEF X!Store
  <2>. HIDE DEF c
  <2>5. LeavesMap(r)
    BY <1>0, <2>1, <2>2, <2>3, <2>4 DEF LeavesMap
  <2>. QED  BY <1>1, <2>1, <2>2, <2>4, <2>5
<1>6. CASE X!SubmitFeedback(r)
  <2>1. UNCHANGED <<experiences, raced>> /\ call[r].pc = "inside" /\ Form[r].kind = "feedback"
    BY <1>6 DEF X!SubmitFeedback
  <2>2. \A s \in X!Stores : score[s] = 1 => score'[s] = 1
    BY <1>0, <1>6 DEF X!SubmitFeedback
  <2>3. \/ X!Racing(r) \/ Form[r].about \notin experiences
        \/ Form[r].about \in X!Stores => score'[Form[r].about] = 1
    BY <1>0, <1>6 DEF X!SubmitFeedback
  <2>. DEFINE c == [call[r] EXCEPT !.pc = "encode"]
  <2>4. c.pc = "encode"
    BY <1>0 DEF CallRec
  <2>5. call' = [call EXCEPT ![r] = c]
    BY <1>0, <1>6 DEF X!SubmitFeedback
  <2>. HIDE DEF c
  <2>6. LeavesMap(r)
    BY <1>0, <2>1, <2>3, <2>4, <2>5 DEF LeavesMap
  <2>. QED  BY <1>1, <2>1, <2>2, <2>5, <2>6
<1>7. CASE X!Encode(r)
  <2>1. UNCHANGED <<experiences, score, raced>> /\ call[r].pc = "encode"
    BY <1>7 DEF X!Encode
  <2>. DEFINE c == [call[r] EXCEPT !.pc = "write", !.scores = [id \in call[r].ids |-> score[id]]]
  <2>2. c.pc = "write" /\ c.ids = call[r].ids /\ c.scores = [id \in call[r].ids |-> score[id]]
    BY <1>0 DEF CallRec
  <2>3. call' = [call EXCEPT ![r] = c]
    BY <1>0, <1>7 DEF X!Encode
  <2>. HIDE DEF c
  <2>4. EncodesScores(r)
    BY <1>0, <2>1, <2>2, <2>3 DEF EncodesScores
  <2>. QED  BY <1>1, <2>1, <2>3, <2>4
<1>8. CASE X!Write(r)
  <2>1. UNCHANGED <<experiences, score, raced>>
    BY <1>8 DEF X!Write
  <2>. DEFINE c == [call[r] EXCEPT !.pc = "done"]
  <2>2. c.pc = "done" /\ c.ids = call[r].ids /\ c.scores = call[r].scores
    BY <1>0 DEF CallRec
  <2>3. call' = [call EXCEPT ![r] = c]
    BY <1>0, <1>8 DEF X!Write
  <2>. HIDE DEF c
  <2>4. KeepsIds(r)
    BY <1>0, <2>2, <2>3 DEF KeepsIds
  <2>. QED  BY <1>1, <2>1, <2>3, <2>4
<1>. QED  BY <1>2, <1>3, <1>4, <1>5, <1>6, <1>7, <1>8 DEF X!Handler

----------------------------------------------------------------------------
(* What the map keeps.                                                     *)

\* The answer of a store is out: its entry is there while the process runs.
LEMMA EntryIsKept ==
  ASSUME starts \in Nat, NEW r \in X!Stores, RequestInv(r), StoresAreKept, Current(r),
         X!Running, ~X!Clobbered
  PROVE  r \in experiences
<1>1. r \in X!Served /\ G!Proxied(r)
  BY DEF X!Stores, X!Served, G!Proxied, G!Services
<1>2. call[r].pc \in {"write", "done", "cut"} /\ Form[r].valid /\ call[r].start = starts
  BY <1>1 DEF RequestInv, AnswerIsFinal, StatusIsReal, Current, OK
<1>3. call[r].pc # "cut"
  BY <1>1, <1>2 DEF RequestInv, RunsInProcess
<1>. QED  BY <1>1, <1>2, <1>3 DEF RequestInv, RunsInProcess, StoresAreKept, StoreIsKept

\* A handler of a request that has run does not run again, and one that runs has no
\* answer yet.
LEMMA HandlerHasRun ==
  ASSUME NEW r \in X!Served, RequestInv(r), HandlerEffect(r), raced \subseteq raced',
         UNCHANGED <<starts, conn>>
  PROVE  /\ HasRun(r)' => \/ HasRun(r) /\ call[r].pc # "inside" /\ (call'[r].pc = "encode" => call[r].pc = "encode")
                          \/ /\ call[r].pc = "inside" /\ call'[r].pc = "encode"
                             /\ call[r].start = starts /\ ~X!Clobbered /\ ~X!Racing(r)
         /\ Current(r)' => Current(r)
<1>0. /\ ExchangeAgrees(r) /\ AnswerIsFinal(r) /\ RunsInProcess(r)
      /\ G!Proxied(r)
  BY DEF RequestInv, X!Served, G!Proxied, G!Services
<1>1. OK(r) => call[r].pc \in {"write", "done", "cut"} /\ (call[r].pc = "cut" => wire[r].pc # "closed")
  BY <1>0 DEF AnswerIsFinal, OK
<1>2. wire[r].pc = "sent" => ~OK(r)
  BY <1>0 DEF ExchangeAgrees, G!InProgress, OK
<1>3. OK(r) => ~X!Received(r)
  BY <1>1, <1>2 DEF X!Received
<1>4. OK(r)' = OK(r)
  BY DEF OK
<1>5. ~X!Clobbered' => ~X!Clobbered
  BY DEF X!Clobbered
<1>6. ~X!Racing(r)' => ~X!Racing(r)
  BY DEF X!Racing
<1>7. Current(r)' => Current(r)
  BY <1>3, <1>4 DEF Current, HandlerEffect
<1>8. ASSUME HasRun(r)'
      PROVE  \/ HasRun(r) /\ call[r].pc # "inside" /\ (call'[r].pc = "encode" => call[r].pc = "encode")
             \/ /\ call[r].pc = "inside" /\ call'[r].pc = "encode"
                /\ call[r].start = starts /\ ~X!Clobbered /\ ~X!Racing(r)
  <2>1. /\ Form[r].valid /\ call'[r].start = starts /\ ~X!Clobbered /\ ~X!Racing(r)
        /\ call'[r].pc \in {"encode", "write", "done"} \/ wire'[r].pc = "torn" \/ OK(r)
    BY <1>4, <1>5, <1>6, <1>8 DEF HasRun
  <2>. QED  BY <1>0, <1>1, <1>3, <2>1 DEF HasRun, HandlerEffect, ExchangeAgrees, X!Received
<1>. QED  BY <1>7, <1>8

\* A store past the map stays in it, whatever the handlers do.
LEMMA HandlerStores ==
  ASSUME \A r \in X!Served : HandlerEffect(r), MapEffect, UNCHANGED <<up, starts>>, StoresAreKept
  PROVE  StoresAreKept'
<1>. SUFFICES ASSUME NEW r \in X!Stores,
                     call'[r].pc \in {"encode", "write", "done"}, Form[r].valid,
                     call'[r].start = starts', X!Running', ~X!Clobbered'
              PROVE  r \in experiences'
  BY DEF StoresAreKept, StoreIsKept, X!Stores, X!Served
<1>1. r \in X!Served /\ Form[r].kind = "store"
  BY DEF X!Stores
<1>2. ~X!Clobbered /\ X!Running /\ experiences \subseteq experiences'
  BY DEF MapEffect, X!Clobbered, X!Running
<1>3. CASE LeavesMap(r)
  BY <1>1, <1>2, <1>3 DEF LeavesMap
<1>4. CASE KeepsIds(r) \/ EncodesScores(r)
  <2>1. call[r].pc \in {"encode", "write", "done"} /\ call[r].start = starts
    BY <1>1, <1>4 DEF KeepsIds, EncodesScores, HandlerEffect
  <2>. QED  BY <1>2, <2>1 DEF StoresAreKept, StoreIsKept
<1>. QED  BY <1>1, <1>3, <1>4 DEF MapEffect

\* The cardinality of the modules and of the library.
LEMMA SameCardinality == \A S : X!Cardinality(S) = Cardinality(S)
BY DEF X!Cardinality, Cardinality

\* What a handler collects from a finite map without data race: every entry, unless a
\* search is full.
LEMMA CollectsAll ==
  ASSUME NEW q \in X!Served, IsFiniteSet(experiences), NEW r \in experiences,
         NEW ids \in X!Collected(q, experiences)
  PROVE  \/ r \in ids
         \/ /\ Form[q].kind = "search"
            /\ Form[r].success /\ X!Matches(r, q) => Cardinality(ids) = TopK
<1>1. CASE Form[q].kind # "search"
  BY <1>1 DEF X!Collected
<1>2. CASE Form[q].kind = "search"
  <2>. DEFINE found == {id \in experiences : Form[id].success /\ X!Matches(id, q)}
              limit == IF Cardinality(found) < TopK THEN Cardinality(found) ELSE TopK
  <2>1. ids \subseteq found /\ Cardinality(ids) = limit
    BY <1>2, SameCardinality DEF X!Collected, X!Similar
  <2>2. IsFiniteSet(found)
    BY FS_Subset
  <2>3. CASE Cardinality(found) < TopK
    <3>1. ids = found
      BY <2>1, <2>2, <2>3, FS_Subset
    <3>. QED  BY <1>2, <3>1
  <2>4. CASE ~(Cardinality(found) < TopK)
    BY <1>2, <2>1, <2>4
  <2>. QED  BY <2>3, <2>4
<1>. QED  BY <1>1, <1>2

LEMMA FiniteStores == IsFiniteSet(X!Stores)
<1>1. X!Stores \subseteq Requests
  BY DEF X!Stores, X!Served
<1>2. IsFiniteSet(Requests)
  BY FormAssumption
<1>. QED  BY <1>1, <1>2, FS_Subset

\* What a handler has read, or has yet to read, holds each store answered before.
LEMMA HandlerCollected ==
  ASSUME TypeOK, \A r \in Requests : RequestInv(r), StoresAreKept, StoresAreCollected,
         \A r \in X!Served : HandlerEffect(r), MapEffect, UNCHANGED <<up, starts, conn>>
  PROVE  StoresAreCollected'
<1>. SUFFICES ASSUME NEW q \in X!Served, NEW r \in X!Stores,
                     HasRun(q)', G!IsGet(q), r \in conn'[q].after, Current(r)'
              PROVE  r \in call'[q].ids \/ LeavesOut(q, r)'
  BY DEF StoresAreCollected, G!IsGet, X!Served, X!Stores
<1>1. /\ raced \subseteq raced' /\ r \in conn[q].after
      /\ q \in Requests /\ r \in Requests /\ r \in X!Served /\ starts \in Nat
  BY ExperienceTypes, ServedOnce, FormAssumption DEF MapEffect, TypeOK, X!Stores
<1>2. Current(r)
  BY <1>1, HandlerHasRun
<1>3. CASE HasRun(q) /\ call[q].pc # "inside" /\ (call'[q].pc = "encode" => call[q].pc = "encode")
  <2>1. call'[q].ids = call[q].ids
    BY <1>3 DEF MapEffect, KeepsIds, LeavesMap, EncodesScores
  <2>. QED  BY <1>1, <1>2, <1>3, <2>1 DEF StoresAreCollected, LeavesOut, X!Matches, X!Contains
<1>4. CASE /\ call[q].pc = "inside" /\ call'[q].pc = "encode"
           /\ call[q].start = starts /\ ~X!Clobbered /\ ~X!Racing(q)
  <2>1. call'[q].ids \in X!Collected(q, experiences)
    <3>1. LeavesMap(q)
      BY <1>4 DEF MapEffect, KeepsIds, EncodesScores
    <3>. QED  BY <1>4, <3>1 DEF LeavesMap, G!IsGet
  <2>2. r \in experiences
    BY <1>1, <1>2, <1>4, EntryIsKept DEF RequestInv, RunsInProcess
  <2>3. IsFiniteSet(experiences)
    BY FiniteStores, FS_Subset, ExperienceTypes DEF TypeOK
  <2>. QED  BY <2>1, <2>2, <2>3, CollectsAll DEF LeavesOut, X!Matches, X!Contains
<1>. QED  BY <1>1, <1>3, <1>4, HandlerHasRun

\* The same of the scores.
LEMMA HandlerFeedback ==
  ASSUME TypeOK, \A r \in Requests : RequestInv(r), AnswersInOrder, StoresAreKept,
         StoresAreCollected, FeedbackIsKept,
         \A r \in X!Served : HandlerEffect(r), MapEffect, UNCHANGED <<up, starts, conn>>
  PROVE  FeedbackIsKept'
<1>. SUFFICES ASSUME NEW f \in X!Served, Form[f].kind = "feedback", Form[f].about \in X!Stores,
                     Current(Form[f].about)', HasRun(f)'
              PROVE  /\ score'[Form[f].about] = 1
                     /\ \A q \in X!Served :
                          Form[q].kind = "list" /\ HasRun(q)' /\ call'[q].pc # "encode"
                            /\ f \in conn'[q].after /\ OK(f)'
                          => /\ Form[f].about \in DOMAIN call'[q].scores
                             /\ call'[q].scores[Form[f].about] = 1
  BY DEF FeedbackIsKept, X!Served, X!Stores
<1>. DEFINE s == Form[f].about
<1>1. /\ raced \subseteq raced' /\ f \in Requests /\ s \in Requests /\ s \in X!Served /\ starts \in Nat
  BY ExperienceTypes, ServedOnce, FormAssumption DEF MapEffect, TypeOK, X!Stores
<1>2. Current(s)
  BY <1>1, HandlerHasRun
<1>3. CASE HasRun(f) /\ call[f].pc # "inside"
  <2>1. score[s] = 1 /\ score'[s] = 1
    BY <1>2, <1>3 DEF FeedbackIsKept, MapEffect
  <2>2. ASSUME NEW q \in X!Served, Form[q].kind = "list", HasRun(q)', call'[q].pc # "encode",
               f \in conn[q].after, OK(f)
        PROVE  s \in DOMAIN call'[q].scores /\ call'[q].scores[s] = 1
    <3>1. HasRun(q) /\ q \in Requests
      BY <1>1, <2>2, ServedOnce, HandlerHasRun
    <3>2. CASE call[q].pc = "encode"
      <4>1. call'[q].scores = [id \in call[q].ids |-> score[id]]
        <5>1. call'[q].pc = "write"
          BY <2>2, <3>2 DEF HandlerEffect, X!Received
        <5>. QED  BY <3>2, <5>1 DEF MapEffect, KeepsIds, LeavesMap, EncodesScores
      <4>2. s \in conn[q].after
        BY <1>1, <2>2, <3>1, IdAssumption DEF AnswersInOrder
      <4>3. s \in call[q].ids
        BY <1>2, <2>2, <3>1, <4>2 DEF StoresAreCollected, LeavesOut, G!IsGet
      <4>. QED  BY <2>1, <4>1, <4>3
    <3>3. CASE call[q].pc # "encode"
      <4>1. s \in DOMAIN call[q].scores /\ call[q].scores[s] = 1
        BY <1>2, <1>3, <2>2, <3>1, <3>3 DEF FeedbackIsKept
      <4>2. call'[q].scores = call[q].scores
        BY <2>2, <3>3 DEF MapEffect, KeepsIds, LeavesMap, EncodesScores
      <4>. QED  BY <4>1, <4>2
    <3>. QED  BY <3>2, <3>3
  <2>. QED  BY <2>1, <2>2 DEF OK
<1>4. CASE /\ call[f].pc = "inside" /\ call'[f].pc = "encode"
           /\ call[f].start = starts /\ ~X!Clobbered /\ ~X!Racing(f)
  <2>1. s \in experiences
    BY <1>1, <1>2, <1>4, EntryIsKept DEF RequestInv, RunsInProcess
  <2>2. score'[s] = 1
    <3>1. LeavesMap(f)
      BY <1>4 DEF MapEffect, KeepsIds, EncodesScores
    <3>. QED  BY <1>4, <2>1, <3>1 DEF LeavesMap
  <2>3. ~OK(f)
    BY <1>1, <1>4 DEF RequestInv, AnswerIsFinal, OK, G!Proxied, G!Services, X!Served
  <2>. QED  BY <2>2, <2>3 DEF OK
<1>. QED  BY <1>1, <1>3, <1>4, HandlerHasRun

\* The process ends, or the next one starts.
LEMMA EndStores ==
  ASSUME TypeOK, \A r \in Requests : RequestInv(r), StoresAreCollected, FeedbackIsKept,
         X!End, UNCHANGED conn
  PROVE  StoresAreKept' /\ StoresAreCollected' /\ FeedbackIsKept'
<1>0. /\ call \in CallType /\ ~X!Running' /\ UNCHANGED <<score, raced, starts>>
      /\ X!Served \subseteq Requests /\ X!Stores \subseteq X!Served
  BY ExperienceTypes, ServedOnce DEF TypeOK, X!End, X!Running, X!Stores
<1>1. ASSUME NEW r \in X!Served
      PROVE  /\ call'[r].ids = call[r].ids /\ call'[r].scores = call[r].scores
             /\ HasRun(r)' => HasRun(r) /\ call[r].pc # "encode"
             /\ Current(r)' => Current(r)
             /\ OK(r)' => OK(r)
  <2>1. /\ call[r] \in CallRec /\ r \in Requests
        /\ ExchangeAgrees(r) /\ AnswerIsFinal(r) /\ RunsInProcess(r) /\ G!Proxied(r)
    BY <1>0, <1>1 DEF CallType, RequestInv, X!Served, G!Proxied, G!Services
  <2>2. call'[r] = IF call[r].pc \in {"inside", "encode", "write"} THEN [call[r] EXCEPT !.pc = "cut"]
                                                                   ELSE call[r]
    BY <1>1 DEF X!End
  <2>3. /\ call'[r].ids = call[r].ids /\ call'[r].scores = call[r].scores
        /\ call'[r].start = call[r].start
        /\ call'[r].pc = IF call[r].pc \in {"inside", "encode", "write"} THEN "cut" ELSE call[r].pc
    BY <2>1, <2>2 DEF CallRec
  <2>4. wire'[r].pc = "torn" => wire[r].pc \in {"head", "torn"}
    <3>1. wire'[r] = X!Break(r) /\ wire[r] \in WireRec
      BY <1>1, <2>1, GatewayTypes DEF X!End, TypeOK, WireType
    <3>. QED  BY <3>1 DEF X!Break, WireRec
  <2>5. OK(r)' = OK(r)
    BY DEF OK
  <2>6. Current(r)' => Current(r)
    BY <1>0, <2>3, <2>5 DEF Current
  <2>7. ASSUME HasRun(r)' PROVE HasRun(r) /\ call[r].pc # "encode"
    <3>1. /\ Form[r].valid /\ call[r].start = starts /\ ~X!Clobbered /\ ~X!Racing(r)
          /\ call'[r].pc \in {"encode", "write", "done"} \/ wire'[r].pc = "torn" \/ OK(r)
      BY <1>0, <2>3, <2>5, <2>7 DEF HasRun, X!Clobbered, X!Racing
    <3>2. OK(r) => call[r].pc \in {"write", "done", "cut"}
      BY <1>1, <2>1 DEF AnswerIsFinal, OK
    <3>. QED  BY <1>1, <2>1, <2>3, <2>4, <3>1, <3>2 DEF HasRun, ExchangeAgrees
  <2>. QED  BY <2>3, <2>5, <2>6, <2>7
<1>2. StoresAreKept'
  BY <1>0 DEF StoresAreKept, StoreIsKept
<1>3. StoresAreCollected'
  BY <1>0, <1>1 DEF StoresAreCollected, LeavesOut, X!Matches, X!Contains, G!IsGet, X!Stores, X!Served
<1>4. FeedbackIsKept'
  BY <1>0, <1>1 DEF FeedbackIsKept, X!Stores, X!Served
<1>. QED  BY <1>2, <1>3, <1>4

\* A new process owes nothing to the requests of the one before.
LEMMA StartStores ==
  ASSUME TypeOK, \A r \in Requests : RequestInv(r), starts' = starts + 1, UNCHANGED call
  PROVE  StoresAreKept' /\ StoresAreCollected' /\ FeedbackIsKept'
<1>1. ASSUME NEW r \in X!Served PROVE call'[r].start # starts'
  <2>1. call[r].start <= starts /\ r \in Requests
    BY <1>1, ServedOnce DEF RequestInv, RunsInProcess
  <2>2. call[r].start \in Nat /\ starts \in Nat
    BY <1>1, ExperienceTypes, FormAssumption DEF TypeOK, CallType, CallRec, Runs
  <2>. QED  BY <2>1, <2>2
<1>2. \A r \in X!Served : ~HasRun(r)'
  BY <1>1 DEF HasRun
<1>. QED  BY <1>1, <1>2 DEF StoresAreKept, StoreIsKept, StoresAreCollected, FeedbackIsKept, X!Stores, X!Served

\* A step that leaves the service alone, and what was answered as it is.
LEMMA OtherStores ==
  ASSUME TypeOK, \A r \in Requests : RequestInv(r), AnswersInOrder,
         StoresAreKept, StoresAreCollected, FeedbackIsKept,
         UNCHANGED experienced, X!Running' = X!Running, SameAnswers,
         \A r \in X!Served : HasRun(r)' => HasRun(r) /\ conn'[r].after = conn[r].after
  PROVE  StoresAreKept' /\ StoresAreCollected' /\ FeedbackIsKept'
<1>0. /\ UNCHANGED <<experiences, score, call, raced, starts>>
      /\ X!Served \subseteq Requests /\ X!Stores \subseteq X!Served
  BY ServedOnce DEF experienced, X!Stores
<1>1. ASSUME NEW r \in Requests, conn[r].pc = "replied"
      PROVE  (OK(r)' => OK(r)) /\ (Current(r)' => Current(r))
  BY <1>0, <1>1 DEF SameAnswers, OK, Current
<1>2. StoresAreKept'
  BY <1>0 DEF StoresAreKept, StoreIsKept, X!Clobbered, X!Stores, X!Served
<1>3. StoresAreCollected'
  <2>. SUFFICES ASSUME NEW q \in X!Served, NEW r \in X!Stores,
                       HasRun(q)', G!IsGet(q), r \in conn'[q].after, Current(r)'
                PROVE  r \in call'[q].ids \/ LeavesOut(q, r)'
    BY DEF StoresAreCollected, G!IsGet, X!Served, X!Stores
  <2>1. HasRun(q) /\ r \in conn[q].after
    OBVIOUS
  <2>2. Current(r)
    BY <1>0, <1>1, <2>1 DEF AnswersInOrder
  <2>. QED  BY <1>0, <2>1, <2>2 DEF StoresAreCollected, LeavesOut, X!Matches, X!Contains
<1>4. FeedbackIsKept'
  <2>. SUFFICES ASSUME NEW f \in X!Served, Form[f].kind = "feedback", Form[f].about \in X!Stores,
                       Current(Form[f].about)', HasRun(f)'
                PROVE  /\ score'[Form[f].about] = 1
                       /\ \A q \in X!Served :
                            Form[q].kind = "list" /\ HasRun(q)' /\ call'[q].pc # "encode"
                              /\ f \in conn'[q].after /\ OK(f)'
                            => /\ Form[f].about \in DOMAIN call'[q].scores
                               /\ call'[q].scores[Form[f].about] = 1
    BY DEF FeedbackIsKept, X!Served, X!Stores
  <2>1. HasRun(f) /\ f \in Requests /\ Form[f].about \in Requests
    BY <1>0
  <2>2. conn[f].pc # "new"
    BY <2>1 DEF RequestInv, ExchangeAgrees, RunsInProcess, HasRun, OK
  <2>3. Current(Form[f].about)
    BY <1>1, <2>1, <2>2, IdAssumption DEF AnswersInOrder, OK
  <2>4. ASSUME NEW q \in X!Served, HasRun(q)', f \in conn'[q].after, OK(f)'
        PROVE  HasRun(q) /\ f \in conn[q].after /\ OK(f)
    BY <1>0, <1>1, <2>1, <2>4 DEF AnswersInOrder
  <2>. QED  BY <1>0, <2>1, <2>3, <2>4 DEF FeedbackIsKept
<1>. QED  BY <1>2, <1>3, <1>4

\* The gateway reports as run what had run before the step.
LEMMA GatewayHasRun ==
  ASSUME NEW r \in X!Served, RequestInv(r), GatewayEffect(r), UNCHANGED experienced, HasRun(r)'
  PROVE  HasRun(r) /\ conn'[r].after = conn[r].after
<1>1. /\ UNCHANGED <<call, raced, starts>>
      /\ ExchangeAgrees(r) /\ RunsInProcess(r) /\ G!Proxied(r)
  BY DEF experienced, RequestInv, X!Served, G!Proxied, G!Services
<1>2. /\ Form[r].valid /\ call[r].start = starts /\ ~X!Clobbered /\ ~X!Racing(r)
      /\ call[r].pc \in {"encode", "write", "done"} \/ wire'[r].pc = "torn" \/ OK(r)'
  BY <1>1 DEF HasRun, X!Clobbered, X!Racing
<1>3. conn[r].pc # "new"
  BY <1>1, <1>2 DEF GatewayEffect, ReplyEffect, ExchangeAgrees, RunsInProcess, OK
<1>4. conn'[r].after = conn[r].after
  BY <1>3 DEF GatewayEffect, ReplyEffect, G!Arrives
<1>5. call[r].pc \in {"encode", "write", "done"} \/ wire[r].pc = "torn" \/ OK(r)
  BY <1>1, <1>2, <1>3 DEF GatewayEffect, ReplyEffect, HungUp, ExchangeAgrees, Answering, OK, G!Arrives
<1>. QED  BY <1>2, <1>4, <1>5 DEF HasRun

----------------------------------------------------------------------------
(* Every step keeps the invariant.                                         *)

LEMMA InvParts ==
  PlatformInv <=>
    /\ TypeOK /\ \A r \in Requests : RequestInv(r)
    /\ AnswersInOrder /\ StoresAreKept /\ StoresAreCollected /\ FeedbackIsKept
<1>1. TypeOK => A!TypeOK
  BY DEF TypeOK
<1>. QED  BY <1>1, RequestInvs DEF PlatformInv

\* The same of the next state.
LEMMA NextParts ==
  ASSUME TypeOK', \A r \in Requests : RequestInv(r)',
         AnswersInOrder', StoresAreKept', StoresAreCollected', FeedbackIsKept'
  PROVE  PlatformInv'
<1>1. watched' \subseteq Requests
  BY ServedOnce DEF TypeOK, A!TypeOK
<1>2. ExchangesAgree' /\ RunsInProcesses' /\ AnswersAreFinal' /\ CallsAgree'
  <2>1. ExchangesAgree' /\ AnswersAreFinal'
    BY DEF RequestInv, ExchangesAgree, AnswersAreFinal
  <2>2. RunsInProcesses'
    BY DEF RequestInv, RunsInProcesses, X!Served
  <2>3. CallsAgree'
    BY DEF RequestInv, CallsAgree, A!Served
  <2>. QED  BY <2>1, <2>2, <2>3
<1>3. PostsRunOnce' /\ StatusesAreReal' /\ ModelWaitIsBounded'
  BY <1>1 DEF RequestInv, RunsOnce, IsBounded, PostsRunOnce, StatusesAreReal, ModelWaitIsBounded, X!Served
<1>. QED  BY <1>2, <1>3 DEF PlatformInv

\* A step that leaves the answers as they are leaves them in order.
LEMMA OrderStays ==
  ASSUME AnswersInOrder, conn \in ConnType,
         \A r \in Requests : /\ conn'[r].pc = conn[r].pc /\ conn'[r].code = conn[r].code
                             /\ conn'[r].whole = conn[r].whole /\ conn'[r].after = conn[r].after
  PROVE  AnswersInOrder' /\ SameAnswers
<1>1. \A r \in Requests : Form[r].follows \subseteq Requests /\ conn[r].after \subseteq Requests
  BY FormAssumption DEF ConnType, ConnRec
<1>. QED  BY <1>1 DEF AnswersInOrder, SameAnswers, OK

\* The steps of the gateway keep the invariant.
LEMMA GatewayInv ==
  ASSUME PlatformInv, G!Next, UNCHANGED <<experienced, agents>>
  PROVE  PlatformInv'
<1>0. /\ TypeOK /\ \A r \in Requests : RequestInv(r)
      /\ AnswersInOrder /\ StoresAreKept /\ StoresAreCollected /\ FeedbackIsKept
      /\ G!TypeOK /\ ExchangesAgree /\ conn \in ConnType
  BY InvParts, GatewayTypes DEF PlatformInv, TypeOK
<1>1. UNCHANGED <<asked, up>> /\ \A r \in Requests : GatewayEffect(r)
  BY <1>0, GatewaySteps
<1>2. TypeOK'
  <2>1. G!TypeOK'
    BY <1>0, GatewayType
  <2>2. X!TypeOK' /\ A!TypeOK'
    BY <1>0 DEF TypeOK, X!TypeOK, A!TypeOK, A!LLM!TypeOK, experienced, agents
  <2>. QED  BY <2>1, <2>2 DEF TypeOK
<1>3. \A r \in Requests : RequestInv(r)'
  BY <1>0, <1>1, GatewayRequest
<1>4. AnswersInOrder' /\ SameAnswers
  BY <1>0, <1>1, GatewayOrder
<1>5. \A r \in X!Served : HasRun(r)' => HasRun(r) /\ conn'[r].after = conn[r].after
  BY <1>0, <1>1, GatewayHasRun, ServedOnce
<1>6. X!Running' = X!Running
  BY <1>1 DEF X!Running
<1>7. StoresAreKept' /\ StoresAreCollected' /\ FeedbackIsKept'
  BY <1>0, <1>4, <1>5, <1>6, OtherStores
<1>. QED  BY <1>2, <1>3, <1>4, <1>7, NextParts

\* The steps of the experience service keep it.
LEMMA ServiceInv ==
  ASSUME PlatformInv, X!Next, UNCHANGED <<gateways, agents>>
  PROVE  PlatformInv'
<1>0. /\ TypeOK /\ \A r \in Requests : RequestInv(r)
      /\ AnswersInOrder /\ StoresAreKept /\ StoresAreCollected /\ FeedbackIsKept
      /\ G!TypeOK /\ X!TypeOK /\ RunsInProcesses /\ conn \in ConnType
      /\ call \in CallType /\ starts \in 1..MaxStarts
      /\ UNCHANGED <<asked, conn, socket, gateway>>
  BY InvParts, GatewayTypes, ExperienceTypes DEF PlatformInv, TypeOK, gateways
<1>1. /\ ServiceEffect /\ ServiceTypes' /\ up' \subseteq G!Services /\ A!Running' = A!Running
  BY <1>0, ServiceSteps
<1>2. TypeOK'
  <2>1. X!TypeOK' /\ wire' \in WireType
    BY <1>1 DEF ServiceTypes
  <2>2. G!TypeOK'
    BY <1>0, <1>1, <2>1 DEF G!TypeOK, G!Answered, G!Services, WireType, WireRec, WirePc, WireCode
  <2>3. A!TypeOK'
    BY <1>0 DEF TypeOK, A!TypeOK, A!LLM!TypeOK, agents
  <2>. QED  BY <2>1, <2>2, <2>3 DEF TypeOK
<1>3. \A r \in Requests : RequestInv(r)'
  BY <1>0, <1>1, ServiceRequest
<1>4. AnswersInOrder'
  BY <1>0, OrderStays
<1>5. StoresAreKept' /\ StoresAreCollected' /\ FeedbackIsKept'
  <2>1. ASSUME NEW h \in X!Served, X!Handler(h)
        PROVE  StoresAreKept' /\ StoresAreCollected' /\ FeedbackIsKept'
    <3>1. MapEffect
      BY <1>0, <2>1, MapSteps
    <3>2. UNCHANGED <<up, starts>>
      BY <2>1 DEF X!Handler, X!Refuse, X!Enter, X!Collect, X!Store, X!SubmitFeedback, X!Encode, X!Write
    <3>3. X!Running
      BY <1>0, <2>1 DEF RunsInProcesses, RunsInProcess, X!Handler, X!Refuse, X!Enter, X!Received,
         X!Collect, X!Store, X!SubmitFeedback, X!Encode, X!Write
    <3>4. \A r \in X!Served : HandlerEffect(r)
      BY <1>1, <3>2, <3>3 DEF ServiceEffect, X!Running
    <3>. QED  BY <1>0, <3>1, <3>2, <3>4, HandlerStores, HandlerCollected, HandlerFeedback
  <2>2. CASE X!Fatal \/ X!Terminate
    BY <1>0, <2>2, EndStores DEF X!Fatal, X!Terminate
  <2>3. CASE X!Start
    BY <1>0, <2>3, StartStores DEF X!Start
  <2>. QED  BY <2>1, <2>2, <2>3 DEF X!Next
<1>. QED  BY <1>2, <1>3, <1>4, <1>5, NextParts

\* The steps of the agent service keep it.
LEMMA AgentInv ==
  ASSUME PlatformInv, A!Next, UNCHANGED <<gateways, experienced>>
  PROVE  PlatformInv'
<1>0. /\ TypeOK /\ \A r \in Requests : RequestInv(r)
      /\ AnswersInOrder /\ StoresAreKept /\ StoresAreCollected /\ FeedbackIsKept
      /\ A!TypeOK /\ conn \in ConnType /\ wire \in WireType /\ up \subseteq G!Services
      /\ UNCHANGED <<asked, conn, socket, gateway>>
  BY InvParts, GatewayTypes DEF TypeOK, gateways
<1>1. /\ AgentEffect /\ A!TypeOK' /\ wire' \in WireType
      /\ up' \subseteq G!Services /\ X!Running' = X!Running
  BY <1>0, AgentSteps
<1>2. TypeOK'
  <2>1. G!TypeOK'
    BY <1>0, <1>1 DEF TypeOK, G!TypeOK, G!Answered, G!Services, WireType, WireRec, WirePc, WireCode
  <2>2. X!TypeOK'
    BY <1>0 DEF TypeOK, X!TypeOK, experienced
  <2>. QED  BY <1>1, <2>1, <2>2 DEF TypeOK
<1>3. \A r \in Requests : RequestInv(r)'
  BY <1>0, <1>1, AgentRequest
<1>4. AnswersInOrder' /\ SameAnswers
  BY <1>0, OrderStays
<1>5. ASSUME NEW r \in X!Served, HasRun(r)'
      PROVE  HasRun(r) /\ conn'[r].after = conn[r].after
  <2>1. wire'[r] = wire[r]
    BY <1>1, <1>5, ServedOnce DEF AgentEffect
  <2>. QED  BY <1>0, <1>5, <2>1 DEF HasRun, OK, X!Clobbered, X!Racing, experienced
<1>6. StoresAreKept' /\ StoresAreCollected' /\ FeedbackIsKept'
  BY <1>0, <1>1, <1>4, <1>5, OtherStores
<1>. QED  BY <1>2, <1>3, <1>4, <1>6, NextParts

\* An upload that is refused keeps it.
LEMMA UploadInv ==
  ASSUME PlatformInv, NEW u \in Requests, RefuseUpload(u)
  PROVE  PlatformInv'
<1>0. /\ TypeOK /\ \A r \in Requests : RequestInv(r)
      /\ AnswersInOrder /\ StoresAreKept /\ StoresAreCollected /\ FeedbackIsKept
      /\ conn \in ConnType /\ wire \in WireType /\ UNCHANGED <<up, conn, experienced>>
  BY InvParts, GatewayTypes DEF TypeOK, RefuseUpload, gateways
<1>1. TypeOK' /\ \A r \in Requests : RequestInv(r)'
  BY <1>0, UploadRequest
<1>2. AnswersInOrder' /\ SameAnswers
  BY <1>0, OrderStays
<1>3. ASSUME NEW r \in X!Served, HasRun(r)'
      PROVE  HasRun(r) /\ conn'[r].after = conn[r].after
  <2>1. r # u /\ r \in Requests
    BY <1>3 DEF RefuseUpload, X!Served
  <2>2. wire'[r] = wire[r]
    BY <1>0, <2>1 DEF RefuseUpload, WireType
  <2>. QED  BY <1>0, <1>3, <2>2 DEF HasRun, OK, X!Clobbered, X!Racing, experienced
<1>4. X!Running' = X!Running
  BY <1>0 DEF X!Running
<1>5. StoresAreKept' /\ StoresAreCollected' /\ FeedbackIsKept'
  BY <1>0, <1>2, <1>3, <1>4, OtherStores
<1>. QED  BY <1>1, <1>2, <1>5, NextParts

\* The clock keeps it.
LEMMA TickInv ==
  ASSUME PlatformInv, Tick
  PROVE  PlatformInv'
<1>0. /\ TypeOK /\ \A r \in Requests : RequestInv(r)
      /\ AnswersInOrder /\ StoresAreKept /\ StoresAreCollected /\ FeedbackIsKept
      /\ conn \in ConnType
  BY InvParts, GatewayTypes DEF TypeOK
<1>1. /\ TypeOK' /\ UNCHANGED <<asked, up, wire, experienced, task, watched>>
      /\ \A r \in Requests : ConnWaits(r)
      /\ \A r \in A!Served : ChatWaits(r)
  BY <1>0, TickSteps
<1>2. \A r \in Requests : RequestInv(r)'
  BY <1>0, <1>1, TickRequest
<1>3. AnswersInOrder' /\ SameAnswers
  BY <1>0, <1>1, OrderStays DEF ConnWaits
<1>4. ASSUME NEW r \in X!Served, HasRun(r)'
      PROVE  HasRun(r) /\ conn'[r].after = conn[r].after
  BY <1>1, <1>4, ServedOnce DEF HasRun, OK, ConnWaits, X!Clobbered, X!Racing, experienced
<1>5. X!Running' = X!Running
  BY <1>1 DEF X!Running
<1>6. StoresAreKept' /\ StoresAreCollected' /\ FeedbackIsKept'
  BY <1>0, <1>1, <1>3, <1>4, <1>5, OtherStores
<1>. QED  BY <1>1, <1>2, <1>3, <1>6, NextParts

LEMMA StutterInv == PlatformInv /\ UNCHANGED vars => PlatformInv'
<1>. SUFFICES ASSUME PlatformInv, UNCHANGED vars PROVE PlatformInv'
  OBVIOUS
<1>0. /\ UNCHANGED <<up, wire, gateways, experienced, agents>>
      /\ UNCHANGED <<asked, conn, socket, gateway, experiences, score, call, raced, starts,
                     task, watched, chat, ctx, sent, got>>
  BY DEF vars, gateways, experienced, agents
<1>1. /\ TypeOK /\ \A r \in Requests : RequestInv(r)
      /\ AnswersInOrder /\ StoresAreKept /\ StoresAreCollected /\ FeedbackIsKept
      /\ conn \in ConnType
  BY InvParts, GatewayTypes DEF TypeOK
<1>2. \A r \in Requests : RequestInv(r)'
  BY <1>0, <1>1, GatewayRequest DEF GatewayEffect
<1>3. TypeOK'
  BY <1>0, <1>1 DEF TypeOK, G!TypeOK, G!Answered, X!TypeOK, A!TypeOK, A!LLM!TypeOK
<1>4. AnswersInOrder' /\ SameAnswers
  BY <1>0, <1>1, OrderStays
<1>5. X!Running' = X!Running /\ \A r \in X!Served : HasRun(r)' => HasRun(r) /\ conn'[r].after = conn[r].after
  BY <1>0 DEF HasRun, OK, X!Clobbered, X!Racing, X!Running
<1>6. StoresAreKept' /\ StoresAreCollected' /\ FeedbackIsKept'
  BY <1>0, <1>1, <1>4, <1>5, OtherStores
<1>. QED  BY <1>2, <1>3, <1>4, <1>6, NextParts

LEMMA NextInv == PlatformInv /\ [Next]_vars => PlatformInv'
BY GatewayInv, ServiceInv, AgentInv, UploadInv, TickInv, StutterInv DEF Next

----------------------------------------------------------------------------
(* The theorems.                                                           *)

\* The states of the gateway, the two services and the exchanges between them agree in
\* every behaviour of the platform.
THEOREM PlatformInvariance == Spec => []PlatformInv
<1>. QED  BY InitInv, NextInv, PTL DEF Spec

\* The components keep to their types.
THEOREM PlatformTypes == Spec => []TypeOK
<1>1. PlatformInv => TypeOK
  BY DEF PlatformInv
<1>. QED  BY <1>1, PlatformInvariance, PTL

\* A request that changes something is run at most once, although requests are sent
\* again and services are started again.
THEOREM NoPostTwice == Spec => []PostsRunOnce
<1>1. PlatformInv => PostsRunOnce
  BY DEF PlatformInv
<1>. QED  BY <1>1, PlatformInvariance, PTL

\* What is reported as done was done, to its end if the answer is complete.
THEOREM NoFalseOk == Spec => []OkMeansDone
<1>1. PlatformInv => OkMeansDone
  <2>. SUFFICES ASSUME PlatformInv, NEW r \in Requests, G!Proxied(r), OK(r)
                PROVE  /\ Answers(r)
                       /\ conn[r].whole => Returned(r)
                       /\ r \in X!Served /\ Form[r].kind = "feedback" => ScoreIsSet(r)
    BY DEF OkMeansDone
  <2>1. /\ TypeOK /\ AnswerIsFinal(r) /\ StatusIsReal(r) /\ conn[r].pc = "replied" /\ conn[r].code = 200
        /\ FeedbackIsKept
    BY InvParts DEF RequestInv, OK
  <2>2. r \in X!Served \/ r \in A!Served
    BY <2>1 DEF StatusIsReal, G!Proxied, G!Services, X!Served, A!Served
  <2>3. Answers(r)
    BY <2>1, <2>2 DEF Answers, AnswerIsFinal, StatusIsReal
  <2>4. conn[r].whole => Returned(r)
    BY <2>1, <2>2 DEF Returned, AnswerIsFinal
  <2>5. ASSUME r \in X!Served, Form[r].kind = "feedback", Form[r].about \in X!Stores,
               Current(Form[r].about), Comparable({r})
        PROVE  score[Form[r].about] = 1
    <3>1. call[r].start = starts /\ ~X!Clobbered /\ ~X!Racing(r)
      BY <2>5 DEF Comparable, Current
    <3>2. HasRun(r)
      BY <2>1, <2>5, <3>1 DEF HasRun, StatusIsReal
    <3>. QED  BY <2>1, <2>5, <3>2 DEF FeedbackIsKept
  <2>. QED  BY <2>3, <2>4, <2>5 DEF ScoreIsSet
<1>. QED  BY <1>1, PlatformInvariance, PTL

\* A watched call of the model ends with the patience of the gateway.
THEOREM BoundedWait == Spec => []ModelWaitIsBounded
<1>1. PlatformInv => ModelWaitIsBounded
  BY DEF PlatformInv
<1>. QED  BY <1>1, PlatformInvariance, PTL

\* What a client was told is stored is there.
THEOREM AnsweredIsKept == Spec => []AnsweredStoreIsKept
<1>1. PlatformInv => AnsweredStoreIsKept
  <2>. SUFFICES ASSUME PlatformInv, NEW r \in X!Stores, Current(r), ~X!Clobbered, "experience" \in up
                PROVE  r \in experiences
    BY DEF AnsweredStoreIsKept
  <2>1. starts \in Nat /\ RequestInv(r) /\ StoresAreKept
    BY InvParts, ExperienceTypes, FormAssumption DEF TypeOK, X!Stores, X!Served
  <2>. QED  BY <2>1, EntryIsKept DEF X!Running
<1>. QED  BY <1>1, PlatformInvariance, PTL

\* A client reads what it wrote.
THEOREM ClientsReadTheirWrites == Spec => []ReadYourWrites
<1>1. PlatformInv => StoresAreShown
  <2>. SUFFICES ASSUME PlatformInv, NEW q \in X!Served, NEW r \in X!Stores,
                       G!IsGet(q), Current(r), Comparable({q}), conn[q].whole,
                       r \in conn[q].after
                PROVE  r \in call[q].ids \/ LeavesOut(q, r)
    BY DEF StoresAreShown
  <2>1. HasRun(q)
    <3>1. q \in Requests /\ G!Proxied(q)
      BY DEF X!Served, G!Proxied, G!Services
    <3>2. OK(q) /\ call[q].start = starts /\ ~X!Clobbered /\ ~X!Racing(q)
      BY DEF Comparable, Current
    <3>3. Form[q].valid
      BY <3>1, <3>2, InvParts DEF RequestInv, StatusIsReal, OK
    <3>. QED  BY <3>2, <3>3 DEF HasRun
  <2>. QED  BY <2>1 DEF PlatformInv, StoresAreCollected
<1>2. PlatformInv => FeedbackIsShown
  <2>. SUFFICES ASSUME PlatformInv, NEW f \in X!Served, NEW q \in X!Served,
                       Form[f].kind = "feedback", Form[f].about \in X!Stores, Form[q].kind = "list",
                       f \in conn[q].after, Current(Form[f].about), Comparable({f, q})
                PROVE  call[q].scores[Form[f].about] = 1
    BY DEF FeedbackIsShown
  <2>1. ASSUME NEW r \in {f, q} PROVE HasRun(r) /\ OK(r) /\ call[r].pc # "encode"
    <3>1. r \in X!Served /\ r \in Requests /\ G!Proxied(r)
      BY DEF X!Served, G!Proxied, G!Services
    <3>2. OK(r) /\ call[r].start = starts /\ ~X!Clobbered /\ ~X!Racing(r)
      BY DEF Comparable, Current
    <3>3. Form[r].valid /\ call[r].pc # "encode"
      BY <3>1, <3>2, InvParts DEF RequestInv, StatusIsReal, AnswerIsFinal, OK
    <3>. QED  BY <3>2, <3>3 DEF HasRun
  <2>. QED  BY <2>1 DEF PlatformInv, FeedbackIsKept
<1>. QED  BY <1>1, <1>2, PlatformInvariance, PTL DEF ReadYourWrites

===============================================================================
