------------------------------- MODULE Backends -------------------------------
(***************************************************************************)
(* The components that work by themselves, beside one another: the anomaly *)
(* service, the compression service, the clients of the stores and of the  *)
(* language model.  They share no state, so that a behaviour is one of     *)
(* one of them, chosen at the beginning; the others stand still.           *)
(***************************************************************************)
EXTENDS Anomaly, Compression, RedisClient, PostgresClient, ClickHouseClient

CONSTANTS
  Calls, Kind, Timeout, Tokens    \* of LLMClient

VARIABLES
  part,                           \* whose behaviour it is
  chat, ctx, sent, got            \* of LLMClient

LLM == INSTANCE LLMClient

ASSUME LLMAssumption == Timeout \in Nat /\ Tokens \in Nat

llm  == <<chat, ctx, sent, got>>
vars == <<part, anomalyVars, compressionVars, redisVars, postgresVars, clickHouseVars, llm>>

\* No mode of RedisClient is of interest when another part runs.
Init ==
  /\ part \in {"anomaly", "compression", "redis", "postgres", "clickhouse", "llm"}
  /\ AnomalyInit /\ CompressionInit /\ PostgresInit /\ ClickHouseInit /\ LLM!Init
  /\ RedisInit /\ (part # "redis" => mode = {"limit"})

In(p) == part = p /\ UNCHANGED part

AnomalyStep(A) ==
  In("anomaly") /\ A
    /\ UNCHANGED <<compressionVars, redisVars, postgresVars, clickHouseVars, llm>>
CompressionStep(A) ==
  In("compression") /\ A
    /\ UNCHANGED <<anomalyVars, redisVars, postgresVars, clickHouseVars, llm>>
RedisStep(A) ==
  In("redis") /\ A
    /\ UNCHANGED <<anomalyVars, compressionVars, postgresVars, clickHouseVars, llm>>
PostgresStep(A) ==
  In("postgres") /\ A
    /\ UNCHANGED <<anomalyVars, compressionVars, redisVars, clickHouseVars, llm>>
ClickHouseStep(A) ==
  In("clickhouse") /\ A
    /\ UNCHANGED <<anomalyVars, compressionVars, redisVars, postgresVars, llm>>
LLMStep(A) ==
  In("llm") /\ A
    /\ UNCHANGED <<anomalyVars, compressionVars, redisVars, postgresVars, clickHouseVars>>

Next ==
  \/ AnomalyStep(AnomalyNext)
  \/ CompressionStep(CompressionNext)
  \/ RedisStep(RedisNext)
  \/ PostgresStep(PostgresNext)
  \/ ClickHouseStep(ClickHouseNext)
  \/ LLMStep(LLM!Next)

\* The mutex of the anomaly service is fair: a writer that waits keeps new readers out, so
\* that it gets the lock if the readers let go of it again and again, but no reader has to.
\* The processor is scheduled; Redis answers;
\* a caller whose InitSchema failed tries again; timers go off and done contexts are
\* seen, but the language model owes no answer.
Fairness ==
  /\ SF_vars(AnomalyStep(\E h \in Waiting : Record(h)))
  /\ WF_vars(AnomalyStep(Process))
  /\ \A c \in Callers : WF_vars(RedisStep(Returns(c)))
  /\ WF_vars(RedisStep(RedisTick))
  /\ \A i \in Installers : WF_vars(PostgresStep(Installs(i)))
  /\ \A c \in Calls : WF_vars(LLMStep(LLM!Timers(c)))
  /\ WF_vars(LLMStep(LLM!Tick))

Spec == Init /\ [][Next]_vars /\ Fairness

----------------------------------------------------------------------------
(* The properties; those of the modules extended here are not repeated.    *)

\* The types of all variables, and the bounds of buffers and pools.
TypeOK ==
  /\ AnomalyTypeOK /\ CompressionTypeOK /\ RedisTypeOK /\ PostgresTypeOK /\ ClickHouseTypeOK
  /\ LLM!TypeOK

\* What the parts rely on and restore, besides what runs check by name: the numbers of
\* alerts, the sums of equal points, the copies of logs and what has left their table, the
\* order of the schema, what a listing has passed, the expiry of keys, effects and the
\* commands they come from, the clusters of the miner, the reasons for which calls of the
\* language model end.
BackendsInv ==
  /\ TypeOK
  /\ AlertsNumbered /\ BaselinesFollowPoints
  /\ RowsAreCopies /\ BatchHasItsNumbers /\ TableKeepsRows
  /\ SchemaInOrder /\ PagesCover
  /\ KeysExpire /\ EffectsAreSent
  /\ Miner!MinerInv
  /\ LLM!OutcomesHaveReasons

\* The schema gets complete, whoever installs it and whatever fails.
SchemaIsInstalled == part = "postgres" => SchemaGetsReady

\* A chat call returns though the model may never answer, and every call returns once
\* its caller has left.
CallsReturn == LLM!CallsReturn
==============================================================================
