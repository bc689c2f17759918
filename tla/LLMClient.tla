------------------------------ MODULE LLMClient ------------------------------
(***************************************************************************)
(* The client of the language model, internal/agent/llm/client.go: one     *)
(* exchange per call, under a context of its caller and, for the two chat  *)
(* calls, a timeout of its own; a stream whose tokens go to a handler one  *)
(* by one.  The model is external: it answers, fails, or says nothing.     *)
(***************************************************************************)
EXTENDS Integers

CONSTANTS
  Calls,
  Kind,        \* fix, analyze, embed or stream
  Timeout,     \* Config.Timeout, in ticks
  Tokens       \* the length of a stream

VARIABLES
  chat,        \* per call: progress, ticks waited, outcome
  ctx,         \* per call: the context of the caller is live or done
  sent, got    \* per stream: tokens the model has sent, tokens the handler has taken

Timed(c)   == Kind[c] \in {"fix", "analyze"}
Waiting(c) == chat[c].pc = "waiting"

Init ==
  /\ chat = [c \in Calls |-> [pc |-> "none", waited |-> 0, outcome |-> "none"]]
  /\ ctx = [c \in Calls |-> "live"]
  /\ sent = [c \in Calls |-> 0] /\ got = [c \in Calls |-> 0]

Call(c) ==
  /\ chat[c].pc = "none"
  /\ chat' = [chat EXCEPT ![c].pc = "waiting"]
  /\ UNCHANGED <<ctx, sent, got>>

Return(c, outcome) ==
  chat' = [chat EXCEPT ![c].pc = "returned", ![c].outcome = outcome]

\* What CreateChatCompletion and CreateEmbeddings bring: an error of the API, no
\* choices, text that is not the JSON asked for, or a result.  The text of an
\* embedding is not parsed.
Answer(c) ==
  /\ Waiting(c) /\ Kind[c] # "stream"
  /\ \/ \E outcome \in {"api error", "no choices", "ok"} : Return(c, outcome)
     \/ Timed(c) /\ Return(c, "parse error")
  /\ UNCHANGED <<ctx, sent, got>>

\* context.WithTimeout of GenerateFix and AnalyzeLogs.
TimeOut(c) ==
  /\ Waiting(c) /\ Timed(c) /\ chat[c].waited >= Timeout
  /\ Return(c, "timeout")
  /\ UNCHANGED <<ctx, sent, got>>

\* Mutant: a call without timeout runs under a context of its own.
CancelTimed(c) ==
  /\ Waiting(c) /\ ctx[c] = "done" /\ Timed(c)
  /\ Return(c, "cancelled")
  /\ UNCHANGED <<ctx, sent, got>>

\* The context of the caller is done.
Cancel(c) ==
  /\ Waiting(c) /\ ctx[c] = "done"
  /\ Return(c, "cancelled")
  /\ UNCHANGED <<ctx, sent, got>>

\* GenerateFixStream.
ModelSends(c) ==
  /\ Waiting(c) /\ Kind[c] = "stream" /\ sent[c] < Tokens
  /\ sent' = [sent EXCEPT ![c] = @ + 1]
  /\ UNCHANGED <<chat, ctx, got>>

\* One turn of the loop: the handler takes a token or fails on it; the stream has
\* ended; the connection fails.
StreamTurn(c) ==
  /\ Waiting(c) /\ Kind[c] = "stream"
  /\ \/ /\ got[c] < sent[c] /\ got' = [got EXCEPT ![c] = @ + 1] /\ UNCHANGED chat
     \/ /\ got[c] < sent[c] /\ Return(c, "handler error") /\ UNCHANGED got
     \/ /\ got[c] = sent[c] /\ sent[c] = Tokens /\ Return(c, "ok") /\ UNCHANGED got
     \/ Return(c, "api error") /\ UNCHANGED got
  /\ UNCHANGED <<ctx, sent>>

\* The caller gives up.
CallerLeaves(c) ==
  /\ ctx[c] = "live" /\ ctx' = [ctx EXCEPT ![c] = "done"]
  /\ UNCHANGED <<chat, sent, got>>

Timers(c) == TimeOut(c) \/ Cancel(c)
Finish(c) == Answer(c) \/ Timers(c)

\* Time passes for those who wait; a timer that is due goes off first.
MayTick == \A c \in Calls : Waiting(c) /\ Timed(c) => chat[c].waited < Timeout

Wait ==
  chat' = [c \in Calls |->
    IF Waiting(c) /\ Timed(c) THEN [chat[c] EXCEPT !.waited = @ + 1] ELSE chat[c]]

Tick == (\E c \in Calls : Waiting(c) /\ Timed(c)) /\ MayTick /\ Wait /\ UNCHANGED <<ctx, sent, got>>

Next ==
  \/ \E c \in Calls : Call(c) \/ Finish(c) \/ ModelSends(c) \/ StreamTurn(c) \/ CallerLeaves(c)
  \/ Tick

----------------------------------------------------------------------------

TypeOK ==
  /\ chat \in [Calls -> [pc : {"none", "waiting", "returned"}, waited : 0..Timeout,
                         outcome : {"none", "ok", "api error", "no choices", "parse error",
                                    "timeout", "cancelled", "handler error"}]]
  /\ ctx \in [Calls -> {"live", "done"}]
  /\ sent \in [Calls -> 0..Tokens] /\ got \in [Calls -> 0..Tokens]

\* How a call ends has its reason, which later events leave standing: a timeout waited in
\* full, a caller that left, a handler that failed on a token it was given; and a stream
\* that ends well has handed over every token, none before the model sent it.
OutcomesHaveReasons ==
  \A c \in Calls :
    /\ chat[c].outcome = "none" <=> chat[c].pc # "returned"
    /\ chat[c].outcome = "timeout" => Timed(c) /\ chat[c].waited = Timeout
    /\ chat[c].outcome = "cancelled" => ctx[c] = "done"
    /\ chat[c].outcome = "handler error" => Kind[c] = "stream" /\ got[c] < sent[c]
    /\ chat[c].outcome = "ok" /\ Kind[c] = "stream" => got[c] = Tokens
    /\ got[c] <= sent[c]

\* A chat call returns although the model may never answer; any call returns once its
\* caller has left.
CallsReturn ==
  \A c \in Calls :
    Waiting(c) /\ (Timed(c) \/ ctx[c] = "done") ~> chat[c].pc = "returned"
==============================================================================
