---------------------------- MODULE BackendsProofs ----------------------------
(***************************************************************************)
(* A behaviour of Backends is one of each of its parts, of which all but   *)
(* one stutter: what is proved of a part alone holds of it here.           *)
(***************************************************************************)
EXTENDS Backends, AnomalyProofs, CompressionProofs, StoresProofs

\* The parts begin as they do alone.
LEMMA PartsBegin ==
  Init => AnomalyInit /\ CompressionInit /\ RedisInit /\ PostgresInit /\ ClickHouseInit /\ LLM!Init
BY DEF Init

\* A step of the whole is one of each part, or leaves its variables alone.
LEMMA PartsMove ==
  ASSUME [Next]_vars
  PROVE  /\ [AnomalyNext]_anomalyVars /\ [CompressionNext]_compressionVars
         /\ [RedisNext]_redisVars /\ [PostgresNext]_postgresVars
         /\ [ClickHouseNext]_clickHouseVars /\ [LLM!Next]_llm
BY DEF Next, vars, AnomalyStep, CompressionStep, RedisStep, PostgresStep, ClickHouseStep, LLMStep

----------------------------------------------------------------------------
(* The client of the language model, of which nothing is proved elsewhere. *)

LLMInv == LLM!TypeOK /\ LLM!OutcomesHaveReasons

ChatType ==
  [pc : {"none", "waiting", "returned"}, waited : 0..Timeout,
   outcome : {"none", "ok", "api error", "no choices", "parse error",
              "timeout", "cancelled", "handler error"}]

\* What is said of one call, of its record and its counters.
Reasons(c, r, context, s, g) ==
  /\ r.outcome = "none" <=> r.pc # "returned"
  /\ r.outcome = "timeout" => LLM!Timed(c) /\ r.waited = Timeout
  /\ r.outcome = "cancelled" => context = "done"
  /\ r.outcome = "handler error" => Kind[c] = "stream" /\ g < s
  /\ r.outcome = "ok" /\ Kind[c] = "stream" => g = Tokens
  /\ g <= s

\* The invariant is a matter of each call by itself.
LEMMA CallByCall ==
  LLMInv <=>
    /\ chat = [c \in Calls |-> chat[c]] /\ ctx = [c \in Calls |-> ctx[c]]
    /\ sent = [c \in Calls |-> sent[c]] /\ got = [c \in Calls |-> got[c]]
    /\ \A c \in Calls :
         /\ chat[c] \in ChatType /\ ctx[c] \in {"live", "done"}
         /\ sent[c] \in 0..Tokens /\ got[c] \in 0..Tokens
         /\ Reasons(c, chat[c], ctx[c], sent[c], got[c])
BY DEF LLMInv, LLM!TypeOK, LLM!OutcomesHaveReasons, ChatType, Reasons

\* What is known of a call.
LEMMA CallFacts ==
  ASSUME LLMInv, NEW c \in Calls
  PROVE  /\ chat = [d \in Calls |-> chat[d]] /\ ctx = [d \in Calls |-> ctx[d]]
         /\ sent = [d \in Calls |-> sent[d]] /\ got = [d \in Calls |-> got[d]]
         /\ chat[c] = [pc |-> chat[c].pc, waited |-> chat[c].waited, outcome |-> chat[c].outcome]
         /\ chat[c] \in ChatType /\ ctx[c] \in {"live", "done"}
         /\ Reasons(c, chat[c], ctx[c], sent[c], got[c])
         /\ chat[c].pc # "returned" => chat[c].outcome = "none"
<1>1. /\ chat = [d \in Calls |-> chat[d]] /\ ctx = [d \in Calls |-> ctx[d]]
      /\ sent = [d \in Calls |-> sent[d]] /\ got = [d \in Calls |-> got[d]]
      /\ chat[c] \in ChatType /\ ctx[c] \in {"live", "done"}
      /\ sent[c] \in 0..Tokens /\ got[c] \in 0..Tokens
      /\ Reasons(c, chat[c], ctx[c], sent[c], got[c])
  BY CallByCall
<1>2. chat[c] = [pc |-> chat[c].pc, waited |-> chat[c].waited, outcome |-> chat[c].outcome]
  BY <1>1 DEF ChatType
<1>3. chat[c].pc # "returned" => chat[c].outcome = "none"
  BY <1>1 DEF Reasons
<1>. QED  BY <1>1, <1>2, <1>3

LEMMA CallCounts ==
  ASSUME LLMInv, NEW c \in Calls
  PROVE  /\ chat[c].waited \in 0..Timeout /\ sent[c] \in 0..Tokens /\ got[c] \in 0..Tokens
         /\ got[c] <= sent[c]
<1>1. /\ chat[c] \in ChatType /\ sent[c] \in 0..Tokens /\ got[c] \in 0..Tokens
      /\ Reasons(c, chat[c], ctx[c], sent[c], got[c])
  BY CallByCall
<1>. QED  BY <1>1 DEF ChatType, Reasons

\* A step of one call keeps the invariant if it keeps it for that call.
LEMMA OneCall ==
  ASSUME LLMInv, NEW c \in Calls,
         chat' = [chat EXCEPT ![c] = chat'[c]], ctx' = [ctx EXCEPT ![c] = ctx'[c]],
         sent' = [sent EXCEPT ![c] = sent'[c]], got' = [got EXCEPT ![c] = got'[c]],
         chat'[c] \in ChatType, ctx'[c] \in {"live", "done"},
         sent'[c] \in 0..Tokens, got'[c] \in 0..Tokens,
         Reasons(c, chat'[c], ctx'[c], sent'[c], got'[c])
  PROVE  LLMInv'
<1>1. /\ chat = [d \in Calls |-> chat[d]] /\ ctx = [d \in Calls |-> ctx[d]]
      /\ sent = [d \in Calls |-> sent[d]] /\ got = [d \in Calls |-> got[d]]
      /\ \A d \in Calls :
           /\ chat[d] \in ChatType /\ ctx[d] \in {"live", "done"}
           /\ sent[d] \in 0..Tokens /\ got[d] \in 0..Tokens
           /\ Reasons(d, chat[d], ctx[d], sent[d], got[d])
  BY CallByCall
<1>2. /\ chat' = [d \in Calls |-> chat'[d]] /\ ctx' = [d \in Calls |-> ctx'[d]]
      /\ sent' = [d \in Calls |-> sent'[d]] /\ got' = [d \in Calls |-> got'[d]]
  BY <1>1
<1>3. \A d \in Calls \ {c} :
        chat'[d] = chat[d] /\ ctx'[d] = ctx[d] /\ sent'[d] = sent[d] /\ got'[d] = got[d]
  BY <1>1
<1>4. \A d \in Calls :
        /\ chat'[d] \in ChatType /\ ctx'[d] \in {"live", "done"}
        /\ sent'[d] \in 0..Tokens /\ got'[d] \in 0..Tokens
        /\ Reasons(d, chat'[d], ctx'[d], sent'[d], got'[d])
  <2>. TAKE d \in Calls
  <2>1. CASE d = c
    BY <2>1
  <2>2. CASE d # c
    BY <1>1, <1>3, <2>2
  <2>. QED  BY <2>1, <2>2
<1>. QED  BY <1>2, <1>4 DEF LLMInv, LLM!TypeOK, LLM!OutcomesHaveReasons, ChatType, Reasons

\* A call that waits returns with an outcome it has a reason for.
LEMMA ReturnHasReason ==
  ASSUME LLMInv, NEW c \in Calls, LLM!Waiting(c), NEW outcome, LLM!Return(c, outcome),
         UNCHANGED <<ctx, sent, got>>,
         outcome \in {"ok", "api error", "no choices", "parse error", "timeout", "cancelled",
                      "handler error"},
         outcome = "timeout" => LLM!Timed(c) /\ chat[c].waited >= Timeout,
         outcome = "cancelled" => ctx[c] = "done",
         outcome = "handler error" => Kind[c] = "stream" /\ got[c] < sent[c],
         outcome = "ok" /\ Kind[c] = "stream" => got[c] = Tokens
  PROVE  LLMInv'
<1>1. chat'[c] = [pc |-> "returned", waited |-> chat[c].waited, outcome |-> outcome]
  <2>1. chat'[c] = [chat[c] EXCEPT !.pc = "returned", !.outcome = outcome]
    BY CallFacts DEF LLM!Return
  <2>2. chat[c] = [pc |-> chat[c].pc, waited |-> chat[c].waited, outcome |-> chat[c].outcome]
    BY CallFacts
  <2>. QED  BY <2>1, <2>2
<1>2. /\ chat' = [chat EXCEPT ![c] = chat'[c]] /\ ctx' = [ctx EXCEPT ![c] = ctx'[c]]
      /\ sent' = [sent EXCEPT ![c] = sent'[c]] /\ got' = [got EXCEPT ![c] = got'[c]]
  BY CallFacts DEF LLM!Return
<1>3. chat'[c] \in ChatType
  <2>1. chat[c].waited \in 0..Timeout
    BY CallCounts
  <2>2. [pc |-> "returned", waited |-> chat[c].waited, outcome |-> outcome] \in ChatType
    BY <2>1 DEF ChatType
  <2>. QED  BY <1>1, <2>2
<1>4. outcome = "timeout" => chat[c].waited = Timeout
  BY CallCounts, LLMAssumption
<1>5. Reasons(c, chat'[c], ctx'[c], sent'[c], got'[c])
  <2>1. got[c] <= sent[c]
    BY CallCounts
  <2>2. /\ chat'[c].pc = "returned" /\ chat'[c].waited = chat[c].waited
        /\ chat'[c].outcome = outcome
    BY ONLY <1>1
  <2>3. outcome # "none"
    OBVIOUS
  <2>. QED  BY <1>4, <2>1, <2>2, <2>3 DEF Reasons
<1>6. ctx'[c] \in {"live", "done"} /\ sent'[c] \in 0..Tokens /\ got'[c] \in 0..Tokens
  BY CallFacts, CallCounts
<1>. QED  BY <1>2, <1>3, <1>5, <1>6, OneCall

\* Time passes for those who wait and have not waited in full, and they have no outcome.
LEMMA ChatTickInv ==
  ASSUME LLMInv, LLM!Tick
  PROVE  LLMInv'
<1>. DEFINE r(c) == IF LLM!Waiting(c) /\ LLM!Timed(c)
                    THEN [chat[c] EXCEPT !.waited = chat[c].waited + 1] ELSE chat[c]
<1>1. /\ ctx = [d \in Calls |-> ctx[d]]
      /\ sent = [d \in Calls |-> sent[d]] /\ got = [d \in Calls |-> got[d]]
      /\ \A d \in Calls :
           /\ chat[d] \in ChatType /\ ctx[d] \in {"live", "done"}
           /\ sent[d] \in 0..Tokens /\ got[d] \in 0..Tokens
           /\ Reasons(d, chat[d], ctx[d], sent[d], got[d])
  BY CallByCall
<1>2. /\ chat' = [d \in Calls |-> r(d)] /\ UNCHANGED <<ctx, sent, got>>
      /\ \A d \in Calls : LLM!Waiting(d) /\ LLM!Timed(d) => chat[d].waited < Timeout
  BY DEF LLM!Tick, LLM!Wait, LLM!MayTick
<1>3. ASSUME NEW d \in Calls
      PROVE  r(d) \in ChatType /\ Reasons(d, r(d), ctx[d], sent[d], got[d])
  <2>1. CASE LLM!Waiting(d) /\ LLM!Timed(d)
    <3>1. /\ chat[d] \in ChatType /\ chat[d].waited < Timeout /\ chat[d].pc = "waiting"
          /\ Reasons(d, chat[d], ctx[d], sent[d], got[d])
      BY <1>1, <1>2, <2>1 DEF LLM!Waiting
    <3>2. chat[d].waited + 1 \in 0..Timeout
      BY <3>1, CallCounts, LLMAssumption
    <3>3. chat[d].outcome = "none"
      BY <3>1 DEF Reasons
    <3>4. r(d) = [pc |-> "waiting", waited |-> chat[d].waited + 1, outcome |-> "none"]
      BY <2>1, <3>1, <3>3 DEF ChatType
    <3>5. got[d] <= sent[d]
      BY CallCounts
    <3>. HIDE DEF r
    <3>6. r(d) \in ChatType
      BY <3>2, <3>4 DEF ChatType
    <3>7. Reasons(d, r(d), ctx[d], sent[d], got[d])
      BY <3>4, <3>5 DEF Reasons
    <3>. QED  BY <3>6, <3>7
  <2>2. CASE ~(LLM!Waiting(d) /\ LLM!Timed(d))
    BY <1>1, <2>2
  <2>. QED  BY <2>1, <2>2
<1>. HIDE DEF r
<1>4. /\ chat' = [d \in Calls |-> chat'[d]] /\ ctx' = [d \in Calls |-> ctx'[d]]
      /\ sent' = [d \in Calls |-> sent'[d]] /\ got' = [d \in Calls |-> got'[d]]
      /\ \A d \in Calls :
           /\ chat'[d] \in ChatType /\ ctx'[d] \in {"live", "done"}
           /\ sent'[d] \in 0..Tokens /\ got'[d] \in 0..Tokens
           /\ Reasons(d, chat'[d], ctx'[d], sent'[d], got'[d])
  BY <1>1, <1>2, <1>3
<1>. QED  BY <1>4 DEF LLMInv, LLM!TypeOK, LLM!OutcomesHaveReasons, ChatType, Reasons

\* Every step of the client keeps its invariant.
LEMMA LLMNextInv ==
  ASSUME LLMInv, [LLM!Next]_llm
  PROVE  LLMInv'
<1>2. CASE UNCHANGED llm
  BY <1>2 DEF llm, LLMInv, LLM!TypeOK, LLM!OutcomesHaveReasons, LLM!Timed
<1>3. ASSUME NEW c \in Calls, LLM!Call(c)
      PROVE  LLMInv'
  <2>1. /\ chat[c].pc = "none" /\ UNCHANGED <<ctx, sent, got>>
        /\ chat'[c] = [pc |-> "waiting", waited |-> chat[c].waited, outcome |-> chat[c].outcome]
    <3>1. chat[c].pc = "none" /\ chat'[c] = [chat[c] EXCEPT !.pc = "waiting"] /\ UNCHANGED <<ctx, sent, got>>
      BY <1>3, CallFacts DEF LLM!Call
    <3>2. chat[c] = [pc |-> chat[c].pc, waited |-> chat[c].waited, outcome |-> chat[c].outcome]
      BY CallFacts
    <3>. QED  BY <3>1, <3>2
  <2>2. /\ chat' = [chat EXCEPT ![c] = chat'[c]] /\ ctx' = [ctx EXCEPT ![c] = ctx'[c]]
        /\ sent' = [sent EXCEPT ![c] = sent'[c]] /\ got' = [got EXCEPT ![c] = got'[c]]
    BY <1>3, CallFacts DEF LLM!Call
  <2>3. chat'[c] \in ChatType
    <3>1. chat[c].outcome = "none" /\ chat[c].waited \in 0..Timeout
      BY <2>1, CallFacts, CallCounts
    <3>. QED  BY <2>1, <3>1 DEF ChatType
  <2>4. Reasons(c, chat'[c], ctx'[c], sent'[c], got'[c])
    <3>1. chat[c].outcome = "none" /\ got[c] <= sent[c]
      BY <2>1, CallFacts, CallCounts
    <3>. QED  BY <2>1, <3>1 DEF Reasons
  <2>5. ctx'[c] \in {"live", "done"} /\ sent'[c] \in 0..Tokens /\ got'[c] \in 0..Tokens
    BY <2>1, CallFacts, CallCounts
  <2>. QED  BY <2>2, <2>3, <2>4, <2>5, OneCall
<1>4. ASSUME NEW c \in Calls, LLM!Finish(c)
      PROVE  LLMInv'
  <2>1. CASE LLM!Answer(c)
    BY <2>1, ReturnHasReason DEF LLM!Answer
  <2>2. CASE LLM!TimeOut(c)
    BY <2>2, ReturnHasReason DEF LLM!TimeOut
  <2>3. CASE LLM!Cancel(c)
    BY <2>3, ReturnHasReason DEF LLM!Cancel
  <2>. QED  BY <1>4, <2>1, <2>2, <2>3 DEF LLM!Finish, LLM!Timers
<1>5. ASSUME NEW c \in Calls, LLM!ModelSends(c)
      PROVE  LLMInv'
  <2>1. /\ chat[c].pc = "waiting" /\ sent[c] < Tokens /\ sent' = [sent EXCEPT ![c] = sent[c] + 1]
        /\ UNCHANGED <<chat, ctx, got>>
    BY <1>5 DEF LLM!ModelSends, LLM!Waiting
  <2>2. /\ chat' = [chat EXCEPT ![c] = chat'[c]] /\ ctx' = [ctx EXCEPT ![c] = ctx'[c]]
        /\ sent' = [sent EXCEPT ![c] = sent'[c]] /\ got' = [got EXCEPT ![c] = got'[c]]
        /\ sent'[c] = sent[c] + 1
    BY <2>1, CallFacts
  <2>3. sent'[c] \in 0..Tokens /\ got'[c] \in 0..Tokens /\ got[c] <= sent[c] + 1
    BY <2>1, <2>2, CallCounts, LLMAssumption
  <2>4. Reasons(c, chat'[c], ctx'[c], sent'[c], got'[c])
    BY <2>1, <2>2, <2>3, CallFacts, CallCounts DEF Reasons
  <2>5. chat'[c] \in ChatType /\ ctx'[c] \in {"live", "done"}
    BY <2>1, CallFacts
  <2>. QED  BY <2>2, <2>3, <2>4, <2>5, OneCall
<1>6. ASSUME NEW c \in Calls, LLM!StreamTurn(c)
      PROVE  LLMInv'
  <2>1. CASE got[c] < sent[c] /\ got' = [got EXCEPT ![c] = got[c] + 1] /\ UNCHANGED <<chat, ctx, sent>>
    <3>1. chat[c].pc = "waiting"
      BY <1>6 DEF LLM!StreamTurn, LLM!Waiting
    <3>2. /\ chat' = [chat EXCEPT ![c] = chat'[c]] /\ ctx' = [ctx EXCEPT ![c] = ctx'[c]]
          /\ sent' = [sent EXCEPT ![c] = sent'[c]] /\ got' = [got EXCEPT ![c] = got'[c]]
          /\ got'[c] = got[c] + 1
      BY <2>1, CallFacts
    <3>3. sent'[c] \in 0..Tokens /\ got'[c] \in 0..Tokens /\ got[c] + 1 <= sent[c]
      BY <2>1, <3>2, CallCounts, LLMAssumption
    <3>4. Reasons(c, chat'[c], ctx'[c], sent'[c], got'[c])
      BY <2>1, <3>1, <3>2, <3>3, CallFacts, CallCounts DEF Reasons
    <3>5. chat'[c] \in ChatType /\ ctx'[c] \in {"live", "done"}
      BY <2>1, CallFacts
    <3>. QED  BY <3>2, <3>3, <3>4, <3>5, OneCall
  <2>2. CASE got[c] < sent[c] /\ LLM!Return(c, "handler error") /\ UNCHANGED <<ctx, sent, got>>
    BY <1>6, <2>2, ReturnHasReason DEF LLM!StreamTurn
  <2>3. CASE /\ got[c] = sent[c] /\ sent[c] = Tokens /\ LLM!Return(c, "ok")
             /\ UNCHANGED <<ctx, sent, got>>
    BY <1>6, <2>3, ReturnHasReason DEF LLM!StreamTurn
  <2>4. CASE LLM!Return(c, "api error") /\ UNCHANGED <<ctx, sent, got>>
    BY <1>6, <2>4, ReturnHasReason DEF LLM!StreamTurn
  <2>. QED  BY <1>6, <2>1, <2>2, <2>3, <2>4 DEF LLM!StreamTurn
<1>7. ASSUME NEW c \in Calls, LLM!CallerLeaves(c)
      PROVE  LLMInv'
  <2>1. ctx' = [ctx EXCEPT ![c] = "done"] /\ UNCHANGED <<chat, sent, got>>
    BY <1>7 DEF LLM!CallerLeaves
  <2>2. /\ chat' = [chat EXCEPT ![c] = chat'[c]] /\ ctx' = [ctx EXCEPT ![c] = ctx'[c]]
        /\ sent' = [sent EXCEPT ![c] = sent'[c]] /\ got' = [got EXCEPT ![c] = got'[c]]
        /\ ctx'[c] = "done"
    BY <2>1, CallFacts
  <2>3. Reasons(c, chat'[c], ctx'[c], sent'[c], got'[c])
    BY <2>1, <2>2, CallFacts, CallCounts DEF Reasons
  <2>4. chat'[c] \in ChatType /\ sent'[c] \in 0..Tokens /\ got'[c] \in 0..Tokens
    BY <2>1, CallFacts, CallCounts
  <2>. QED  BY <2>2, <2>3, <2>4, OneCall
<1>8. CASE LLM!Tick
  BY <1>8, ChatTickInv
<1>. QED  BY <1>2, <1>3, <1>4, <1>5, <1>6, <1>7, <1>8 DEF LLM!Next


----------------------------------------------------------------------------
(* The theorem.                                                            *)

\* Nobody has called yet.
LEMMA LLMInitInv == LLM!Init => LLMInv
<1>. SUFFICES ASSUME LLM!Init PROVE LLMInv
  OBVIOUS
<1>. DEFINE r == [pc |-> "none", waited |-> 0, outcome |-> "none"]
<1>1. /\ chat = [c \in Calls |-> r] /\ ctx = [c \in Calls |-> "live"]
      /\ sent = [c \in Calls |-> 0] /\ got = [c \in Calls |-> 0]
  BY DEF LLM!Init
<1>2. r \in ChatType /\ 0 \in 0..Tokens
  BY LLMAssumption DEF ChatType
<1>3. \A c \in Calls : Reasons(c, r, "live", 0, 0)
  BY DEF Reasons
<1>. HIDE DEF r
<1>4. \A c \in Calls : chat[c] = r /\ ctx[c] = "live" /\ sent[c] = 0 /\ got[c] = 0
  BY <1>1
<1>. QED  BY <1>1, <1>2, <1>3, <1>4, CallByCall

LEMMA LLMInvariance == Spec => []LLMInv
<1>1. Init => LLMInv
  BY PartsBegin, LLMInitInv
<1>2. LLMInv /\ [Next]_vars => LLMInv'
  BY PartsMove, LLMNextInv
<1>. QED  BY <1>1, <1>2, PTL DEF Spec

\* What holds of the parts alone.
LEMMA PartsHold ==
  Spec =>
    [](/\ AnomalyTypeOK /\ AlertsInv /\ SteadyInv /\ CompressionTypeOK /\ Miner!MinerInv
       /\ RedisInv /\ PostgresInv /\ ClickHouseInv)
<1>1. Init => AnomalyInit /\ CompressionInit /\ RedisInit /\ PostgresInit /\ ClickHouseInit
  BY PartsBegin
<1>2. [Next]_vars =>
        /\ [AnomalyNext]_anomalyVars /\ [CompressionNext]_compressionVars
        /\ [RedisNext]_redisVars /\ [PostgresNext]_postgresVars /\ [ClickHouseNext]_clickHouseVars
  BY PartsMove
<1>3. Spec => AnomalySpec /\ CompressionSpec /\ RedisSpec /\ PostgresSpec /\ ClickHouseSpec
  BY <1>1, <1>2, PTL DEF Spec, AnomalySpec, CompressionSpec, RedisSpec, PostgresSpec, ClickHouseSpec
<1>. QED
  BY <1>3, AnomalyTypes, AlertsInvariance, SteadyInvariance, CompressionInvariance,
     RedisInvariance, PostgresInvariance, ClickHouseInvariance, PTL

\* Of all services beside one another: the types and the bounds of buffers and pools, and
\* what each part relies on, whatever the capacities, limits, timeouts, templates and rules
\* are.
THEOREM BackendsInvariance == Spec => []BackendsInv
<1>1. /\ AnomalyTypeOK /\ AlertsInv /\ SteadyInv /\ CompressionTypeOK /\ Miner!MinerInv
      /\ RedisInv /\ PostgresInv /\ ClickHouseInv /\ LLMInv
      => BackendsInv
  BY DEF BackendsInv, TypeOK, LLMInv, AlertsInv, SteadyInv, RedisInv, PostgresInv, ClickHouseInv
<1>. QED  BY <1>1, PartsHold, LLMInvariance, PTL
===============================================================================
