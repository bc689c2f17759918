----------------------------- MODULE Experience ------------------------------
(***************************************************************************)
(* The experience service of cmd/experience/main.go: handlers of           *)
(* concurrent requests on one Go map that no lock guards, in a process     *)
(* that keeps everything in memory.                                        *)
(*                                                                         *)
(* A handler is inside the map for a while.  When a store is inside        *)
(* together with another handler, the program has a data race: the runtime *)
(* may detect it and end the process, a reader may miss entries, two       *)
(* stores that both let the map grow may lose any entry, or all is well.   *)
(*                                                                         *)
(* The id of an experience is a fresh UUID, modelled by the request that   *)
(* stored it.  `wire' is the exchange of a request with its client.        *)
(***************************************************************************)
EXTENDS Integers, FiniteSets

CONSTANTS
  Requests,
  Form,       \* service, kind, valid (the body parses, the parameter is there),
              \* success (of a store), about (the id a feedback is for), signature
              \* (of a store or a search: its text and the length of it)
  TopK,       \* the bound of SearchSimilar
  MaxStarts   \* bound on the number of processes run one after the other

VARIABLES
  asked, up, wire,
  experiences, \* the ids in the map
  score,       \* id -> FeedbackScore of the object the map points to
  call,        \* per request: where its handler is, how often it was run, the ids it
               \* has collected, the scores it has encoded, the process it ran in
  raced,       \* history: the pairs that raced in the process that runs
  starts       \* the number of processes started so far

Served == {r \in Requests : Form[r].service = "experience"}
Stores == {r \in Served : Form[r].kind = "store"}
Running == "experience" \in up
Inside == {r \in Served : call[r].pc = "inside"}
NoScores == [id \in {} |-> 0]
Racing(r) == \E p \in raced : r \in p
Clobbered == \E p \in raced : p \subseteq Stores

Init ==
  /\ experiences = {}
  /\ score = [id \in Stores |-> 0]
  /\ call = [r \in Served |-> [pc |-> "none", runs |-> 0, ids |-> {}, scores |-> NoScores, start |-> 0]]
  /\ raced = {}
  /\ starts = 1

----------------------------------------------------------------------------
(* Handlers.                                                               *)

\* A request that was sent is read, also when its client has hung up since.
Received(r) == Running /\ call[r].pc \in {"none", "cut"} /\ wire[r].pc \in {"sent", "closed"}

\* A body that does not parse, a missing signature.
Refuse(r) ==
  /\ Received(r) /\ ~Form[r].valid
  /\ call' = [call EXCEPT ![r].pc = "done", ![r].start = starts]
  /\ wire' = IF wire[r].pc = "sent" THEN [wire EXCEPT ![r] = [pc |-> "whole", code |-> 400]] ELSE wire
  /\ UNCHANGED <<up, experiences, score, raced, starts>>

Enter(r) ==
  /\ Received(r) /\ Form[r].valid
  /\ call' = [call EXCEPT ![r].pc = "inside", ![r].runs = @ + 1, ![r].start = starts]
  /\ raced' = raced \cup {{q, r} : q \in {q \in Inside : {q, r} \cap Stores # {}}}
  /\ UNCHANGED <<up, wire, experiences, score, starts>>

\* It compares the lengths: a signature "contains" every shorter one.
Contains(s, substr) ==
  s.length > 0 /\ substr.length > 0 /\ (s.text = substr.text \/ s.length > substr.length)

Matches(id, q) ==
  \/ Contains(Form[id].signature, Form[q].signature)
  \/ Contains(Form[q].signature, Form[id].signature)

\* The loop of SearchSimilar: TopK of the successful experiences that match, in the
\* random order of a Go map.
Similar(q, S) ==
  LET found == {id \in S : Form[id].success /\ Matches(id, q)}
      limit == IF Cardinality(found) < TopK THEN Cardinality(found) ELSE TopK
  IN  {T \in SUBSET found : Cardinality(T) = limit}

\* What a handler may collect from the entries S: SearchSimilar, /list and GetStats.
Collected(r, S) == IF Form[r].kind = "search" THEN Similar(r, S) ELSE {S}

Collect(r) ==
  /\ call[r].pc = "inside" /\ Form[r].kind \in {"search", "list", "stats"}
  /\ \E S \in IF Racing(r) THEN SUBSET experiences ELSE {experiences} :
       \E ids \in Collected(r, S) :
         call' = [call EXCEPT ![r].pc = "encode", ![r].ids = ids]
  /\ UNCHANGED <<up, wire, experiences, score, raced, starts>>

\* Mutant: the entry is written after the answer.
StoreLate(r) ==
  /\ Form[r].kind = "store"
  /\ \/ /\ call[r].pc = "inside" /\ call' = [call EXCEPT ![r].pc = "encode"]
        /\ UNCHANGED experiences
     \/ /\ call[r].pc = "done" /\ r \notin experiences /\ call[r].start = starts
        /\ experiences' = experiences \cup {r} /\ UNCHANGED call
  /\ UNCHANGED <<up, wire, score, raced, starts>>

Store(r) ==
  /\ call[r].pc = "inside" /\ Form[r].kind = "store"
  /\ \/ experiences' = experiences \cup {r}
     \/ /\ \E q \in Stores : {q, r} \in raced
        /\ experiences' \in SUBSET (experiences \cup {r})
  /\ call' = [call EXCEPT ![r].pc = "encode", ![r].ids = {r}]
  /\ UNCHANGED <<up, wire, score, raced, starts>>

\* Mutant: the score is set in a copy of the experience.
FeedbackOnCopy(r) ==
  /\ call[r].pc = "inside" /\ Form[r].kind = "feedback"
  /\ call' = [call EXCEPT ![r].pc = "encode"]
  /\ UNCHANGED <<up, wire, experiences, score, raced, starts>>

\* An unknown id, or one a racing reader misses, is accepted all the same.
SubmitFeedback(r) ==
  /\ call[r].pc = "inside" /\ Form[r].kind = "feedback"
  /\ \/ Form[r].about \in experiences /\ score' = [score EXCEPT ![Form[r].about] = 1]
     \/ (Form[r].about \notin experiences \/ Racing(r)) /\ UNCHANGED score
  /\ call' = [call EXCEPT ![r].pc = "encode"]
  /\ UNCHANGED <<up, wire, experiences, raced, starts>>

\* The answer is encoded after the handler has left the map, from the live
\* experiences the collected pointers lead to; then its status goes out.
Encode(r) ==
  /\ call[r].pc = "encode"
  /\ call' = [call EXCEPT ![r].pc = "write",
                          ![r].scores = [id \in call[r].ids |-> score[id]]]
  /\ wire' = IF wire[r].pc = "sent" THEN [wire EXCEPT ![r] = [pc |-> "head", code |-> 200]] ELSE wire
  /\ UNCHANGED <<up, experiences, score, raced, starts>>

Write(r) ==
  /\ call[r].pc = "write"
  /\ call' = [call EXCEPT ![r].pc = "done"]
  /\ wire' = IF wire[r].pc = "head" THEN [wire EXCEPT ![r].pc = "whole"] ELSE wire
  /\ UNCHANGED <<up, experiences, score, raced, starts>>

Handler(r) ==
  Refuse(r) \/ Enter(r) \/ Collect(r) \/ Store(r) \/ SubmitFeedback(r) \/ Encode(r) \/ Write(r)

----------------------------------------------------------------------------
(* The process.  Its memory goes with it.                                  *)

Break(r) == CASE wire[r].pc \in {"sent", "closed"} -> [wire[r] EXCEPT !.pc = "broken"]
              [] wire[r].pc = "head" -> [wire[r] EXCEPT !.pc = "torn"]
              [] OTHER -> wire[r]

End ==
  /\ up' = up \ {"experience"}
  /\ experiences' = {}
  /\ call' = [r \in Served |->
       IF call[r].pc \in {"inside", "encode", "write"} THEN [call[r] EXCEPT !.pc = "cut"] ELSE call[r]]
  /\ wire' = [r \in Requests |-> IF r \in Served THEN Break(r) ELSE wire[r]]
  /\ UNCHANGED <<score, raced, starts>>

\* "fatal error: concurrent map writes", which no recover catches.
Fatal == Running /\ (\E r \in Inside : Racing(r)) /\ End

\* SIGTERM: main cancels the context and returns, and does not wait for Shutdown.
Terminate == "crash" \in asked /\ Running /\ End

Start ==
  /\ ~Running /\ starts < MaxStarts
  /\ up' = up \cup {"experience"} /\ starts' = starts + 1 /\ raced' = {}
  /\ UNCHANGED <<wire, experiences, score, call>>

Next == (\E r \in Served : Handler(r)) \/ Fatal \/ Terminate \/ Start

----------------------------------------------------------------------------

\* What the listed experiences said when they were encoded.
Scores == UNION {[ids -> {0, 1}] : ids \in SUBSET Stores}

TypeOK ==
  /\ experiences \subseteq Stores /\ score \in [Stores -> {0, 1}]
  /\ call \in [Served -> [pc : {"none", "inside", "encode", "write", "done", "cut"},
                          runs : 0..MaxStarts, ids : SUBSET Stores, scores : Scores,
                          start : 0..MaxStarts]]
  /\ \A p \in raced : p \subseteq Served /\ p \cap Stores # {}
  /\ starts \in 1..MaxStarts
==============================================================================
