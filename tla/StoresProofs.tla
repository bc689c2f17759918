----------------------------- MODULE StoresProofs -----------------------------
(***************************************************************************)
(* Proofs about the clients of the stores, one after the other:            *)
(* RedisClient for every set of callers, every limit and window, every     *)
(* timeout and size of the pool; PostgresClient for every set of           *)
(* installers and limit of a page; ClickHouseClient for every set of       *)
(* templates and of times and every size of batches; and for every bound.  *)
(***************************************************************************)
EXTENDS RedisClient, PostgresClient, ClickHouseClient, FiniteSetTheorems, TLAPS

----------------------------------------------------------------------------
(* RedisClient.                                                            *)

Pushers == {c \in Callers : pc[c] = "pushing"}

\* The values of pc and rate.
Places == {"idle", "incremented", "pushing", "popping"}
RateType == [count : 0..MaxCalls, ttl : 0..Expiry, letIn : Nat]

\* The commands sent bound the effects.
LEMMA Bounds ==
  /\ \A j, p, n \in Nat : j + p <= n => j <= n
  /\ \A i, j, p, m, n \in Nat : i <= j /\ j + p <= m /\ m <= n => i + p <= n
  /\ \A x, y, z \in Nat : x <= y /\ y <= z => x <= z
OBVIOUS

----------------------------------------------------------------------------
(* The pool of connections.                                                *)

LEMMA SetsOfCallers ==
  /\ IsFiniteSet(Connected) /\ Cardinality(Connected) \in Nat
  /\ IsFiniteSet(Pushers) /\ Cardinality(Pushers) \in Nat
<1>1. IsFiniteSet(Connected) /\ IsFiniteSet(Pushers)
  BY FS_Subset, RedisAssumption DEF Connected, Pushers
<1>. QED  BY <1>1, FS_CardinalityType

\* A caller that takes a free connection.
LEMMA TakesConnection ==
  ASSUME RedisInv, NEW c \in Callers, NEW where \in Places, Goes(c, where),
         Free \/ where \in {"idle", "pushing"}
  PROVE  /\ pc' \in [Callers -> Places] /\ Cardinality(Connected') <= PoolSize
<1>1. pc \in [Callers -> Places] /\ pc' = [pc EXCEPT ![c] = where]
      /\ Cardinality(Connected) <= PoolSize /\ PoolSize \in Nat
  BY RedisAssumption DEF RedisInv, RedisTypeOK, Goes, Places
<1>4. pc' \in [Callers -> Places]
  BY <1>1
<1>2. CASE where \in {"idle", "pushing"}
  <2>1. Connected' \subseteq Connected
    BY <1>1, <1>2 DEF Connected
  <2>2. Cardinality(Connected') <= Cardinality(Connected) /\ IsFiniteSet(Connected')
    BY <2>1, SetsOfCallers, FS_Subset
  <2>3. Cardinality(Connected') \in Nat /\ Cardinality(Connected) \in Nat
    BY <2>2, SetsOfCallers, FS_CardinalityType
  <2>. QED  BY <1>1, <1>4, <2>2, <2>3
<1>3. CASE Free
  <2>1. Connected' \subseteq Connected \cup {c}
    BY <1>1 DEF Connected
  <2>2. IsFiniteSet(Connected \cup {c}) /\ Cardinality(Connected \cup {c}) <= Cardinality(Connected) + 1
    <3>1. /\ IsFiniteSet(Connected \cup {c})
          /\ Cardinality(Connected \cup {c}) =
               IF c \in Connected THEN Cardinality(Connected) ELSE Cardinality(Connected) + 1
      BY SetsOfCallers, FS_AddElement
    <3>. QED  BY <3>1, SetsOfCallers
  <2>3. Cardinality(Connected') <= Cardinality(Connected \cup {c}) /\ IsFiniteSet(Connected')
    BY <2>1, <2>2, FS_Subset
  <2>4. Cardinality(Connected') \in Nat /\ Cardinality(Connected \cup {c}) \in Nat /\ Cardinality(Connected) \in Nat
    BY <2>2, <2>3, SetsOfCallers, FS_CardinalityType
  <2>5. Cardinality(Connected) < PoolSize
    BY <1>3 DEF Free
  <2>. QED  BY <1>1, <1>4, <2>2, <2>3, <2>4, <2>5
<1>. QED  BY <1>2, <1>3

\* A caller that asks for a connection to push, or no longer waits for one.
LEMMA PushersChange ==
  ASSUME RedisInv, NEW c \in Callers, NEW where \in Places, Goes(c, where)
  PROVE  Cardinality(Pushers') = Cardinality(Pushers)
            + (IF where = "pushing" /\ c \notin Pushers THEN 1 ELSE 0)
            - (IF where # "pushing" /\ c \in Pushers THEN 1 ELSE 0)
<1>1. pc' = [pc EXCEPT ![c] = where] /\ pc \in [Callers -> Places]
  BY DEF Goes, RedisInv, RedisTypeOK, Places
<1>2. Pushers' = IF where = "pushing" THEN Pushers \cup {c} ELSE Pushers \ {c}
  BY <1>1 DEF Pushers
<1>3. /\ Cardinality(Pushers \cup {c}) = IF c \in Pushers THEN Cardinality(Pushers) ELSE Cardinality(Pushers) + 1
      /\ Cardinality(Pushers \ {c}) = IF c \in Pushers THEN Cardinality(Pushers) - 1 ELSE Cardinality(Pushers)
  BY SetsOfCallers, FS_AddElement, FS_RemoveElement
<1>4. Cardinality(Pushers) \in Nat
  BY SetsOfCallers
<1>. QED  BY <1>2, <1>3, <1>4

----------------------------------------------------------------------------
(* The steps.                                                              *)

LEMMA RedisInitInv ==
  ASSUME RedisInit
  PROVE  RedisInv
<1>1. Connected = {} /\ Pushers = {}
  BY DEF RedisInit, Connected, Pushers
<1>2. Cardinality(Connected) = 0 /\ Cardinality(Pushers) = 0
  BY <1>1, FS_EmptySet
<1>3. {Limit, Expiry, PopTimeout, PoolSize, MaxCalls} \subseteq Nat
  BY RedisAssumption
<1>4. RedisTypeOK
  <2>1. rate \in RateType
    BY <1>3 DEF RedisInit, NoKey, RateType
  <2>2. mode \subseteq Kinds
    BY DEF RedisInit, Kinds
  <2>3. /\ calls \in 0..MaxCalls /\ stuck \in BOOLEAN /\ cached \in BOOLEAN
        /\ jobs \in 0..MaxCalls /\ count \in 0..MaxCalls
        /\ waited \in [Callers -> 0..PopTimeout] /\ pc \in [Callers -> Places]
    <3>1. 0 \in 0..MaxCalls /\ 0 \in 0..PopTimeout /\ 0 \in 0..MaxCalls
      BY <1>3
    <3>. QED  BY <3>1 DEF RedisInit, Places
  <2>4. Cardinality(Connected) <= PoolSize
    BY <1>2, <1>3
  <2>. QED  BY <2>1, <2>2, <2>3, <2>4 DEF RedisTypeOK, RateType, Places
<1>5. KeysExpire
  BY <1>3 DEF RedisInit, NoKey, KeysExpire
<1>6. EffectsAreSent
  <2>1. Cardinality({c \in Callers : pc[c] = "pushing"}) = 0
    BY <1>2 DEF Pushers
  <2>. QED  BY <1>3, <2>1 DEF RedisInit, NoKey, EffectsAreSent
<1>. QED  BY <1>4, <1>5, <1>6 DEF RedisInv

\* The counters are numbers.
LEMMA Numbers ==
  ASSUME RedisInv
  PROVE  /\ rate.count \in Nat /\ rate.ttl \in Nat /\ rate.letIn \in Nat
         /\ calls \in Nat /\ jobs \in Nat /\ count \in Nat
<1>1. MaxCalls \in Nat /\ Expiry \in Nat
  BY RedisAssumption
<1>. QED  BY <1>1 DEF RedisInv, RedisTypeOK

\* What another call does to the key.
LEMMA CountsOneMore ==
  ASSUME RedisInv, calls < MaxCalls,
         rate' = [rate EXCEPT !.count = @ + 1,
                              !.letIn = @ + IF rate.count + 1 <= Limit THEN 1 ELSE 0],
         calls' = calls + 1
  PROVE  /\ rate' \in RateType /\ calls' \in 0..MaxCalls
         /\ rate'.count = rate.count + 1 /\ rate'.ttl = rate.ttl
         /\ rate'.count <= calls' /\ rate'.letIn = IF rate'.count <= Limit THEN rate'.count ELSE Limit
         /\ rate'.letIn <= Limit
<1>1. /\ rate \in RateType /\ calls \in 0..MaxCalls
      /\ rate.count <= calls /\ rate.letIn = IF rate.count <= Limit THEN rate.count ELSE Limit
  BY DEF RedisInv, RedisTypeOK, RateType, EffectsAreSent
<1>2. Limit \in Nat /\ MaxCalls \in Nat
  BY RedisAssumption
<1>. DEFINE count1 == rate.count + 1
            letIn1 == rate.letIn + IF rate.count + 1 <= Limit THEN 1 ELSE 0
<1>3. /\ count1 \in 0..MaxCalls /\ letIn1 \in Nat /\ calls' \in 0..MaxCalls /\ count1 <= calls'
      /\ letIn1 = IF count1 <= Limit THEN count1 ELSE Limit
      /\ letIn1 <= Limit
  BY <1>1, <1>2 DEF RateType
<1>4. rate' = [rate EXCEPT !.count = count1, !.letIn = letIn1]
  OBVIOUS
<1>. HIDE DEF count1, letIn1
<1>5. rate'.count = count1 /\ rate'.letIn = letIn1 /\ rate'.ttl = rate.ttl /\ rate' \in RateType
  BY <1>1, <1>3, <1>4 DEF RateType
<1>. QED  BY <1>3, <1>5 DEF count1

\* A call is let in if the count it gets back is within the limit, and its count is its
\* own.
LEMMA IncrInv ==
  ASSUME RedisInv, NEW c \in Callers, Incr(c) \/ IncrAgain(c)
  PROVE  RedisInv'
<1>1. /\ calls < MaxCalls /\ calls' = calls + 1
      /\ rate' = [rate EXCEPT !.count = @ + 1,
                              !.letIn = @ + IF rate.count + 1 <= Limit THEN 1 ELSE 0]
      /\ UNCHANGED <<mode, waited, stuck, jobs, cached, count>>
  BY DEF Incr, IncrAgain, Begin, templating
<1>2. /\ rate' \in RateType /\ calls' \in 0..MaxCalls
      /\ rate'.count = rate.count + 1 /\ rate'.ttl = rate.ttl
      /\ rate'.count <= calls' /\ rate'.letIn = IF rate'.count <= Limit THEN rate'.count ELSE Limit
      /\ rate'.letIn <= Limit
  BY <1>1, CountsOneMore
<1>3. /\ pc' \in [Callers -> Places] /\ Cardinality(Connected') <= PoolSize
      /\ Cardinality(Pushers') <= Cardinality(Pushers) /\ Cardinality(Pushers') \in Nat
      /\ pc'[c] = "incremented"
  <2>1. CASE Incr(c)
    <3>1. Goes(c, "incremented") /\ Free /\ "incremented" \in Places /\ pc \in [Callers -> Places]
          /\ pc[c] = "idle"
      BY <2>1 DEF Incr, Begin, Places, RedisInv, RedisTypeOK
    <3>2. pc' \in [Callers -> Places] /\ Cardinality(Connected') <= PoolSize
      BY <3>1, TakesConnection
    <3>3. Cardinality(Pushers') = Cardinality(Pushers)
      <4>1. c \notin Pushers
        BY <3>1 DEF Pushers
      <4>2. Cardinality(Pushers') = Cardinality(Pushers)
              + (IF "incremented" = "pushing" /\ c \notin Pushers THEN 1 ELSE 0)
              - (IF "incremented" # "pushing" /\ c \in Pushers THEN 1 ELSE 0)
        BY <3>1, PushersChange
      <4>. QED  BY <4>1, <4>2, SetsOfCallers
    <3>. QED  BY <3>1, <3>2, <3>3, SetsOfCallers DEF Goes
  <2>2. CASE IncrAgain(c)
    <3>1. pc' = pc /\ pc[c] = "incremented"
      BY <2>2 DEF IncrAgain
    <3>2. Connected' = Connected /\ Pushers' = Pushers
      BY <3>1 DEF Connected, Pushers
    <3>. QED  BY <3>1, <3>2, SetsOfCallers DEF RedisInv, RedisTypeOK, Places
  <2>. QED  BY <2>1, <2>2
<1>4. RedisTypeOK'
  BY <1>1, <1>2, <1>3 DEF RedisInv, RedisTypeOK, Places, RateType
<1>5. KeysExpire'
  <2>1. rate.count \in Nat /\ rate.ttl \in Nat
    BY Numbers
  <2>. QED  BY <1>1, <1>2, <1>3, <2>1 DEF RedisInv, KeysExpire
<1>6. EffectsAreSent'
  <2>1. calls \in Nat /\ jobs \in Nat /\ count \in Nat
    BY Numbers
  <2>2. jobs + Cardinality(Pushers) <= calls /\ count <= calls
    BY DEF RedisInv, EffectsAreSent, Pushers
  <2>3. jobs + Cardinality(Pushers') <= calls' /\ count' <= calls'
    BY <1>1, <1>3, <2>1, <2>2, SetsOfCallers
  <2>. QED  BY <1>1, <1>2, <2>3 DEF EffectsAreSent, Pushers
<1>. QED  BY <1>4, <1>5, <1>6 DEF RedisInv

\* The call is over; the key has its expiry, or keeps one, or is stuck.
LEMMA ExpireInv ==
  ASSUME RedisInv, NEW c \in Callers, Expire(c) \/ ExpireLost(c)
  PROVE  RedisInv'
<1>1. /\ pc[c] = "incremented" /\ Goes(c, "idle")
      /\ UNCHANGED <<mode, waited, calls, jobs, cached, count>>
  BY DEF Expire, ExpireLost, templating
<1>2. rate \in RateType /\ Expiry \in Nat /\ Expiry > 0
  BY RedisAssumption DEF RedisInv, RedisTypeOK, RateType
<1>3. /\ rate' \in RateType /\ stuck' \in BOOLEAN
      /\ rate'.count = rate.count /\ rate'.letIn = rate.letIn
      /\ rate.count > 0 => rate'.ttl > 0 \/ stuck'
      /\ stuck' => rate'.count > 0
      /\ rate'.ttl > 0 => rate'.count > 0 /\ ~stuck'
  <2>1. rate.count \in Nat /\ rate.ttl \in Nat
    BY Numbers
  <2>2. CASE Expire(c) /\ rate.count > 0
    <3>1. rate' = [rate EXCEPT !.ttl = Expiry] /\ stuck' = FALSE
      BY <2>2 DEF Expire
    <3>2. Expiry \in 0..Expiry
      BY <1>2
    <3>3. rate' \in RateType /\ rate'.count = rate.count /\ rate'.letIn = rate.letIn /\ rate'.ttl = Expiry
      BY <1>2, <3>1, <3>2 DEF RateType
    <3>. QED  BY <1>2, <2>2, <3>1, <3>3
  <2>3. CASE Expire(c) /\ ~(rate.count > 0)
    <3>1. rate' = rate /\ stuck' = FALSE
      BY <2>3 DEF Expire
    <3>. QED  BY <1>2, <2>3, <3>1 DEF RedisInv, KeysExpire
  <2>4. CASE ExpireLost(c)
    <3>1. rate' = rate /\ stuck' = (rate.count > 0 /\ rate.ttl = 0)
      BY <2>4 DEF ExpireLost
    <3>2. rate.ttl > 0 => rate.count > 0
      BY DEF RedisInv, KeysExpire
    <3>3. rate.count > 0 => rate.ttl > 0 \/ (rate.count > 0 /\ rate.ttl = 0)
      BY <2>1
    <3>4. ~(rate.ttl > 0 /\ rate.ttl = 0)
      BY <2>1
    <3>. HIDE DEF RateType
    <3>. QED  BY <1>2, <3>1, <3>2, <3>3, <3>4, Zenon
  <2>. QED  BY <2>2, <2>3, <2>4
<1>4. pc' \in [Callers -> Places] /\ Cardinality(Connected') <= PoolSize
  BY <1>1, TakesConnection DEF Places
<1>5. Cardinality(Pushers') = Cardinality(Pushers)
  <2>1. c \notin Pushers /\ "idle" \in Places
    BY <1>1 DEF Pushers, Places
  <2>2. Cardinality(Pushers') = Cardinality(Pushers)
            + (IF "idle" = "pushing" /\ c \notin Pushers THEN 1 ELSE 0)
            - (IF "idle" # "pushing" /\ c \in Pushers THEN 1 ELSE 0)
    BY <1>1, <2>1, PushersChange
  <2>. QED  BY <2>1, <2>2, SetsOfCallers
<1>6. RedisTypeOK'
  BY <1>1, <1>3, <1>4 DEF RedisInv, RedisTypeOK, Places, RateType
<1>7. KeysExpire'
  BY <1>3 DEF KeysExpire
<1>8. EffectsAreSent'
  BY <1>1, <1>3, <1>5 DEF RedisInv, EffectsAreSent, Pushers
<1>. QED  BY <1>6, <1>7, <1>8 DEF RedisInv

\* The calls that leave the key of the limit alone.
LEMMA QueueInv ==
  ASSUME RedisInv, UNCHANGED <<rate, stuck>>,
         UNCHANGED mode, waited' \in [Callers -> 0..PopTimeout], calls' \in 0..MaxCalls,
         pc' \in [Callers -> Places], Cardinality(Connected') <= PoolSize,
         \A c \in Callers : pc[c] = "incremented" => pc'[c] = "incremented",
         calls <= calls', jobs' \in Nat, count' \in Nat, cached' \in BOOLEAN,
         jobs' + Cardinality(Pushers') <= calls', count' <= calls',
         Cardinality(Pushers') \in Nat
  PROVE  RedisInv'
<1>1. calls \in Nat /\ calls' \in Nat /\ MaxCalls \in Nat /\ calls' <= MaxCalls
  BY Numbers, RedisAssumption
<1>2. jobs' \in 0..MaxCalls /\ count' \in 0..MaxCalls
  BY <1>1
<1>3. RedisTypeOK'
  BY <1>2 DEF RedisInv, RedisTypeOK, Places
<1>4. KeysExpire'
  BY DEF RedisInv, KeysExpire
<1>5. EffectsAreSent'
  <2>1. rate.count <= calls'
    BY <1>1, Numbers DEF RedisInv, EffectsAreSent
  <2>. QED  BY <2>1 DEF RedisInv, EffectsAreSent, Pushers
<1>. QED  BY <1>3, <1>4, <1>5 DEF RedisInv

\* The callers who push are finitely many, after a step too.
LEMMA NextPushers ==
  Cardinality(Pushers') \in Nat
<1>1. Pushers' \subseteq Callers
  BY DEF Pushers
<1>2. IsFiniteSet(Pushers')
  BY <1>1, FS_Subset, RedisAssumption
<1>. QED  BY <1>2, FS_CardinalityType

\* A push, with or without a wait for its connection, adds a job per copy that arrives.
LEMMA EnqueueInv ==
  ASSUME RedisInv, NEW c \in Callers, Enqueue(c) \/ Push(c) \/ PushAgain(c) \/ PoolTimeout(c)
  PROVE  RedisInv'
<1>1. UNCHANGED <<mode, waited, rate, stuck, cached, count>>
  BY DEF Enqueue, Push, PushAgain, PoolTimeout, limiting, templating
<1>2. /\ calls \in Nat /\ jobs \in Nat /\ count \in Nat /\ MaxCalls \in Nat
      /\ Cardinality(Pushers) \in Nat /\ calls \in 0..MaxCalls
      /\ jobs + Cardinality(Pushers) <= calls /\ count <= calls
      /\ cached \in BOOLEAN /\ waited \in [Callers -> 0..PopTimeout] /\ pc \in [Callers -> Places]
  BY Numbers, SetsOfCallers, RedisAssumption DEF RedisInv, RedisTypeOK, EffectsAreSent, Pushers, Places
<1>3. CASE Enqueue(c)
  <2>1. /\ Goes(c, "pushing") /\ "pushing" \in Places /\ pc[c] = "idle"
        /\ calls' = calls + 1 /\ calls < MaxCalls /\ jobs' = jobs
    BY <1>3 DEF Enqueue, Places
  <2>2. Cardinality(Pushers') = Cardinality(Pushers)
            + (IF "pushing" = "pushing" /\ c \notin Pushers THEN 1 ELSE 0)
            - (IF "pushing" # "pushing" /\ c \in Pushers THEN 1 ELSE 0)
    BY <2>1, PushersChange
  <2>3. Cardinality(Pushers') <= Cardinality(Pushers) + 1 /\ Cardinality(Pushers') \in Nat
    BY <1>2, <2>2, NextPushers
  <2>4. jobs' + Cardinality(Pushers') <= calls' /\ count' <= calls' /\ calls' \in 0..MaxCalls
    BY <1>1, <1>2, <2>1, <2>3
  <2>5. pc' \in [Callers -> Places] /\ Cardinality(Connected') <= PoolSize
    BY <2>1, TakesConnection
  <2>6. \A d \in Callers : pc[d] = "incremented" => pc'[d] = "incremented"
    BY <1>2, <2>1 DEF Goes
  <2>7. calls <= calls'
    BY <1>2, <2>1
  <2>. QED  BY <1>1, <1>2, <2>1, <2>3, <2>4, <2>5, <2>6, <2>7, QueueInv
<1>4. CASE Push(c) \/ PoolTimeout(c)
  <2>1. /\ Goes(c, "idle") /\ "idle" \in Places /\ pc[c] = "pushing"
        /\ calls' = calls /\ jobs' \in {jobs, jobs + 1}
    BY <1>4 DEF Push, PoolTimeout, Places
  <2>2. Cardinality(Pushers') = Cardinality(Pushers)
            + (IF "idle" = "pushing" /\ c \notin Pushers THEN 1 ELSE 0)
            - (IF "idle" # "pushing" /\ c \in Pushers THEN 1 ELSE 0)
    BY <2>1, PushersChange
  <2>3. c \in Pushers
    BY <2>1 DEF Pushers
  <2>4. Cardinality(Pushers') = Cardinality(Pushers) - 1 /\ Cardinality(Pushers') \in Nat
    BY <1>2, <2>2, <2>3, NextPushers
  <2>5. jobs' + Cardinality(Pushers') <= calls' /\ count' <= calls' /\ jobs' \in Nat
    BY <1>1, <1>2, <2>1, <2>4
  <2>6. pc' \in [Callers -> Places] /\ Cardinality(Connected') <= PoolSize
    BY <2>1, TakesConnection
  <2>7. \A d \in Callers : pc[d] = "incremented" => pc'[d] = "incremented"
    BY <1>2, <2>1 DEF Goes
  <2>8. calls <= calls'
    BY <1>2, <2>1
  <2>. QED  BY <1>1, <1>2, <2>1, <2>4, <2>5, <2>6, <2>7, <2>8, QueueInv
<1>5. CASE PushAgain(c)
  <2>1. pc' = pc /\ calls < MaxCalls /\ calls' = calls + 1 /\ jobs' = jobs + 1
    BY <1>5 DEF PushAgain
  <2>2. Pushers' = Pushers /\ Connected' = Connected
    BY <2>1 DEF Pushers, Connected
  <2>3. /\ jobs' + Cardinality(Pushers') <= calls' /\ count' <= calls' /\ calls' \in 0..MaxCalls
        /\ calls <= calls' /\ jobs' \in Nat
    BY <1>1, <1>2, <2>1, <2>2
  <2>4. pc' \in [Callers -> Places] /\ Cardinality(Connected') <= PoolSize /\ Cardinality(Pushers') \in Nat
    BY <1>2, <2>1, <2>2 DEF RedisInv, RedisTypeOK
  <2>. QED  BY <1>1, <1>2, <2>1, <2>3, <2>4, QueueInv
<1>. QED  BY <1>3, <1>4, <1>5

\* A pop takes a connection that is free and gives it back.
LEMMA DequeueInv ==
  ASSUME RedisInv, NEW c \in Callers, Dequeue(c) \/ Pop(c) \/ PopAgain(c) \/ PopNothing(c)
  PROVE  RedisInv'
<1>1. UNCHANGED <<mode, rate, stuck, cached, count>>
  BY DEF Dequeue, Pop, PopAgain, PopNothing, limiting, templating
<1>2. /\ calls \in Nat /\ jobs \in Nat /\ count \in Nat /\ MaxCalls \in Nat /\ PopTimeout \in Nat
      /\ Cardinality(Pushers) \in Nat /\ calls \in 0..MaxCalls
      /\ jobs + Cardinality(Pushers) <= calls /\ count <= calls
      /\ cached \in BOOLEAN /\ waited \in [Callers -> 0..PopTimeout] /\ pc \in [Callers -> Places]
  BY Numbers, SetsOfCallers, RedisAssumption DEF RedisInv, RedisTypeOK, EffectsAreSent, Pushers, Places
<1>a. CASE PopAgain(c)
  <2>1. pc' = pc /\ calls' = calls /\ jobs' = jobs - 1 /\ jobs > 0 /\ waited' = [waited EXCEPT ![c] = 0]
    BY <1>a DEF PopAgain
  <2>2. Pushers' = Pushers /\ Connected' = Connected
    BY <2>1 DEF Pushers, Connected
  <2>3. /\ jobs' + Cardinality(Pushers') <= calls' /\ count' <= calls' /\ calls' \in 0..MaxCalls
        /\ calls <= calls' /\ jobs' \in Nat
    BY <1>1, <1>2, <2>1, <2>2
  <2>4. /\ pc' \in [Callers -> Places] /\ Cardinality(Connected') <= PoolSize /\ Cardinality(Pushers') \in Nat
        /\ waited' \in [Callers -> 0..PopTimeout]
    BY <1>2, <2>1, <2>2 DEF RedisInv, RedisTypeOK
  <2>. QED  BY <1>1, <1>2, <2>1, <2>3, <2>4, QueueInv
<1>. SUFFICES ASSUME ~PopAgain(c) PROVE RedisInv'
  BY <1>a
<1>3. PICK where \in {"idle", "popping"} : Goes(c, where) /\ (Free \/ where = "idle")
  BY DEF Dequeue, Pop, PopNothing, Begin
<1>4. /\ pc[c] \in {"idle", "popping"}
      /\ calls' \in {calls, calls + 1} /\ calls' \in 0..MaxCalls
      /\ jobs' \in Nat /\ jobs' <= jobs
      /\ waited' \in [Callers -> 0..PopTimeout]
  <2>1. CASE Dequeue(c)
    <3>1. calls < MaxCalls /\ calls' = calls + 1 /\ jobs' = jobs /\ pc[c] = "idle"
          /\ waited' = [waited EXCEPT ![c] = 0] /\ 0 \in 0..PopTimeout
      BY <1>2, <2>1 DEF Dequeue, Begin
    <3>. QED  BY <1>2, <3>1
  <2>2. CASE Pop(c)
    BY <1>2, <2>2 DEF Pop
  <2>3. CASE PopNothing(c)
    BY <1>2, <2>3 DEF PopNothing
  <2>. QED  BY <2>1, <2>2, <2>3
<1>5. where \in Places /\ c \notin Pushers
  BY <1>4 DEF Places, Pushers
<1>6. Cardinality(Pushers') = Cardinality(Pushers)
            + (IF where = "pushing" /\ c \notin Pushers THEN 1 ELSE 0)
            - (IF where # "pushing" /\ c \in Pushers THEN 1 ELSE 0)
  BY <1>3, <1>5, PushersChange
<1>7. Cardinality(Pushers') = Cardinality(Pushers)
  BY <1>2, <1>3, <1>5, <1>6
<1>8. pc' \in [Callers -> Places] /\ Cardinality(Connected') <= PoolSize
  BY <1>3, <1>5, TakesConnection
<1>9. \A d \in Callers : pc[d] = "incremented" => pc'[d] = "incremented"
  BY <1>2, <1>3, <1>4 DEF Goes
<1>10. jobs' + Cardinality(Pushers') <= calls' /\ count' <= calls' /\ calls <= calls'
  <2>1. calls' \in Nat /\ calls <= calls'
    BY <1>2, <1>4
  <2>2. jobs' + Cardinality(Pushers) <= calls'
    <3>1. /\ jobs' \in Nat /\ jobs \in Nat /\ Cardinality(Pushers) \in Nat
          /\ calls \in Nat /\ calls' \in Nat
          /\ jobs' <= jobs /\ jobs + Cardinality(Pushers) <= calls /\ calls <= calls'
      BY <1>2, <1>4, <2>1, Zenon
    <3>. QED  BY ONLY <3>1, Bounds, Zenon
  <2>3. count' <= calls'
    BY <1>1, <1>2, <2>1, Bounds, Zenon
  <2>. QED  BY <1>7, <2>1, <2>2, <2>3, Zenon
<1>. QED  BY <1>1, <1>2, <1>4, <1>7, <1>8, <1>9, <1>10, QueueInv

\* The cache and the counters of templates have no part in limits and queues.
LEMMA TemplatesInv ==
  ASSUME RedisInv, NEW c \in Callers,
         UpdateTemplateCount(c) \/ CacheTemplate(c) \/ CacheExpires
  PROVE  RedisInv'
<1>1. UNCHANGED <<mode, pc, waited, rate, stuck, jobs>>
  BY DEF UpdateTemplateCount, CacheTemplate, CacheExpires, limiting
<1>2. /\ calls \in Nat /\ jobs \in Nat /\ count \in Nat /\ MaxCalls \in Nat
      /\ Cardinality(Pushers) \in Nat /\ calls \in 0..MaxCalls
      /\ jobs + Cardinality(Pushers) <= calls /\ count <= calls
      /\ cached \in BOOLEAN /\ waited \in [Callers -> 0..PopTimeout] /\ pc \in [Callers -> Places]
      /\ Cardinality(Connected) <= PoolSize
  BY Numbers, SetsOfCallers, RedisAssumption DEF RedisInv, RedisTypeOK, EffectsAreSent, Pushers, Places
<1>3. Connected' = Connected /\ Pushers' = Pushers
  BY <1>1 DEF Connected, Pushers
<1>4. /\ calls' \in 0..MaxCalls /\ calls <= calls' /\ cached' \in BOOLEAN
      /\ count' \in Nat /\ count' <= calls'
      /\ jobs' + Cardinality(Pushers') <= calls'
  <2>1. CASE UpdateTemplateCount(c)
    <3>1. calls < MaxCalls /\ calls' = calls + 1 /\ count' = count + 1 /\ cached' = cached
      BY <2>1 DEF UpdateTemplateCount, Begin
    <3>. QED  BY <1>1, <1>2, <1>3, <3>1
  <2>2. CASE CacheTemplate(c)
    <3>1. calls < MaxCalls /\ calls' = calls + 1 /\ count' = count /\ cached' = TRUE
      BY <2>2 DEF CacheTemplate, Begin
    <3>. QED  BY <1>1, <1>2, <1>3, <3>1
  <2>3. CASE CacheExpires
    <3>1. calls' = calls /\ count' = count /\ cached' = FALSE
      BY <2>3 DEF CacheExpires
    <3>2. calls <= calls
      BY ONLY <1>2
    <3>. QED  BY <1>1, <1>2, <1>3, <3>1, <3>2, Zenon
  <2>. QED  BY <2>1, <2>2, <2>3
<1>5. jobs' \in Nat /\ pc' \in [Callers -> Places] /\ waited' \in [Callers -> 0..PopTimeout]
      /\ Cardinality(Connected') <= PoolSize /\ Cardinality(Pushers') \in Nat
      /\ \A d \in Callers : pc[d] = "incremented" => pc'[d] = "incremented"
  BY <1>1, <1>2, <1>3
<1>. QED  BY <1>1, <1>4, <1>5, QueueInv

\* Time: the key goes with its last tick.
LEMMA TickInv ==
  ASSUME RedisInv, RedisTick
  PROVE  RedisInv'
<1>1. /\ rate' = IF rate.ttl = 0 THEN rate
                 ELSE IF rate.ttl = 1 THEN NoKey ELSE [rate EXCEPT !.ttl = rate.ttl - 1]
      /\ waited' = [c \in Callers |-> IF pc[c] = "popping" /\ waited[c] < PopTimeout
                                       THEN waited[c] + 1 ELSE waited[c]]
      /\ UNCHANGED <<mode, pc, calls, stuck, jobs, cached, count>>
  BY DEF RedisTick, templating
<1>2. /\ rate \in RateType /\ rate.ttl \in Nat /\ rate.count \in Nat /\ Expiry \in Nat /\ PopTimeout \in Nat
      /\ MaxCalls \in Nat /\ Limit \in Nat /\ calls \in Nat
      /\ waited \in [Callers -> 0..PopTimeout]
  BY Numbers, RedisAssumption DEF RedisInv, RedisTypeOK, RateType
<1>3. waited' \in [Callers -> 0..PopTimeout]
  <2>. SUFFICES ASSUME NEW c \in Callers
                PROVE  (IF pc[c] = "popping" /\ waited[c] < PopTimeout THEN waited[c] + 1 ELSE waited[c]) \in 0..PopTimeout
    BY <1>1
  <2>1. waited[c] \in 0..PopTimeout
    BY <1>2
  <2>. QED  BY <1>2, <2>1
<1>4. /\ rate' \in RateType
      /\ rate'.count <= calls' /\ rate'.letIn = IF rate'.count <= Limit THEN rate'.count ELSE Limit
      /\ rate'.count > 0 => rate'.ttl > 0 \/ stuck' \/ \E c \in Callers : pc'[c] = "incremented"
      /\ stuck' => rate'.count > 0
      /\ rate'.ttl > 0 => rate'.count > 0 /\ ~stuck'
  <2>1. /\ rate.count <= calls /\ rate.letIn = IF rate.count <= Limit THEN rate.count ELSE Limit
        /\ rate.count > 0 => rate.ttl > 0 \/ stuck \/ \E c \in Callers : pc[c] = "incremented"
        /\ stuck => rate.count > 0
        /\ rate.ttl > 0 => rate.count > 0 /\ ~stuck
    BY DEF RedisInv, EffectsAreSent, KeysExpire
  <2>2. CASE rate.ttl = 0
    BY <1>1, <1>2, <2>1, <2>2
  <2>3. CASE rate.ttl = 1
    <3>1. rate' = NoKey /\ ~stuck /\ stuck' = stuck
      BY <1>1, <2>1, <2>3
    <3>2. rate'.count = 0 /\ rate'.ttl = 0 /\ rate'.letIn = 0 /\ rate' \in RateType
      BY <1>2, <3>1 DEF NoKey, RateType
    <3>. QED  BY <1>1, <1>2, <3>1, <3>2
  <2>4. CASE rate.ttl > 1
    <3>1. rate' = [rate EXCEPT !.ttl = rate.ttl - 1] /\ rate.ttl - 1 \in 0..Expiry /\ rate.ttl - 1 > 0
      BY <1>1, <1>2, <2>4 DEF RateType
    <3>2. rate'.count = rate.count /\ rate'.letIn = rate.letIn /\ rate'.ttl = rate.ttl - 1 /\ rate' \in RateType
      BY <1>2, <3>1 DEF RateType
    <3>3. rate.count > 0 /\ ~stuck /\ rate'.ttl > 0
      BY <1>2, <2>1, <2>4, <3>1, <3>2
    <3>. QED  BY <1>1, <2>1, <3>2, <3>3
  <2>. QED  BY <1>2, <2>2, <2>3, <2>4
<1>5. RedisTypeOK'
  <2>1. Connected' = Connected
    BY <1>1 DEF Connected
  <2>. QED  BY <1>1, <1>3, <1>4, <2>1 DEF RedisInv, RedisTypeOK, RateType
<1>6. EffectsAreSent'
  BY <1>1, <1>4 DEF RedisInv, EffectsAreSent
<1>. QED  BY <1>4, <1>5, <1>6 DEF RedisInv, KeysExpire

\* Every step keeps the invariant.
LEMMA RedisNextInv ==
  ASSUME RedisInv, [RedisNext]_redisVars
  PROVE  RedisInv'
<1>1. CASE UNCHANGED redisVars
  BY <1>1 DEF redisVars, limiting, templating, RedisInv, RedisTypeOK, Connected, KeysExpire,
              EffectsAreSent
<1>2. ASSUME NEW c \in Callers,
             \/ Incr(c) \/ IncrAgain(c) \/ ExpireLost(c) \/ Returns(c)
             \/ Enqueue(c) \/ PushAgain(c) \/ Dequeue(c) \/ PopAgain(c)
             \/ UpdateTemplateCount(c) \/ CacheTemplate(c)
      PROVE  RedisInv'
  BY <1>2, IncrInv, ExpireInv, EnqueueInv, DequeueInv, TemplatesInv DEF Returns
<1>3. ASSUME CacheExpires
      PROVE  RedisInv'
  <2>1. CASE Callers # {}
    BY <1>3, <2>1, TemplatesInv
  <2>2. CASE Callers = {}
    BY <1>3, <2>2 DEF CacheExpires, limiting, RedisInv, RedisTypeOK, Connected, KeysExpire,
                  EffectsAreSent
  <2>. QED  BY <2>1, <2>2
<1>. QED  BY <1>1, <1>2, <1>3, TickInv DEF RedisNext

----------------------------------------------------------------------------
(* The theorems about RedisClient.                                         *)

\* The inductive invariant: the types with the bound of the pool, what a key counts, when
\* it expires.
THEOREM RedisInvariance == RedisSpec => []RedisInv
<1>1. RedisInit => RedisInv
  BY RedisInitInv
<1>2. RedisInv /\ [RedisNext]_redisVars => RedisInv'
  BY RedisNextInv
<1>. QED  BY <1>1, <1>2, PTL DEF RedisSpec

\* CheckRateLimit lets in no more calls than the limit in the life of a key, whatever the
\* callers' pipelines interleave and wherever their connections break.
THEOREM LimitIsKept == RedisSpec => []RateLimitHolds
<1>1. RedisInv => RateLimitHolds
  BY Numbers, RedisAssumption DEF RedisInv, EffectsAreSent, RateLimitHolds
<1>. QED  BY <1>1, RedisInvariance, PTL

\* When no call of CheckRateLimit is in its pipeline, a key has an expiry, unless the last
\* connection broke before EXPIRE: refused callers do not wait for ever.
THEOREM QuietKeysExpire ==
  RedisSpec =>
    []((\A c \in Callers : pc[c] # "incremented") /\ rate.count > 0 /\ ~stuck => rate.ttl > 0)
<1>. DEFINE P == (\A c \in Callers : pc[c] # "incremented") /\ rate.count > 0 /\ ~stuck => rate.ttl > 0
<1>1. RedisInv => P
  BY DEF RedisInv, KeysExpire
<1>. HIDE DEF P
<1>2. RedisSpec => []P
  BY <1>1, RedisInvariance, PTL
<1>. QED  BY <1>2 DEF P

----------------------------------------------------------------------------
(* PostgresClient.                                                         *)

----------------------------------------------------------------------------
(* The order of the rows.                                                  *)

\* The rows are finitely many, numbered from 1, and their times are numbers.
LEMMA RowsAreNumbered ==
  ASSUME PostgresTypeOK
  PROVE  /\ DOMAIN rows = 1..Len(rows) /\ Len(rows) \in Nat
         /\ Listed \subseteq DOMAIN rows
         /\ IsFiniteSet(Listed) /\ Cardinality(Listed) \in Nat
         /\ \A id \in Listed : rows[id].created \in Nat
         /\ \A id : IsFiniteSet({j \in Listed : ComesBefore(j, id)}) /\ Rank(id) \in Nat
<1>1. DOMAIN rows = 1..Len(rows) /\ Len(rows) \in Nat
  BY DEF PostgresTypeOK
<1>2. Listed \subseteq DOMAIN rows
  BY DEF Listed
<1>3. IsFiniteSet(Listed) /\ Cardinality(Listed) \in Nat
  <2>1. IsFiniteSet(1..Len(rows))
    BY <1>1, FS_Interval
  <2>2. IsFiniteSet(Listed)
    BY <1>1, <1>2, <2>1, FS_Subset
  <2>. QED  BY <2>2, FS_CardinalityType
<1>4. \A id : IsFiniteSet({j \in Listed : ComesBefore(j, id)})
  BY <1>3, FS_Subset
<1>5. \A id \in Listed : rows[id].created \in Nat
  <2>. SUFFICES ASSUME NEW id \in DOMAIN rows  PROVE rows[id].created \in Nat
    BY <1>2
  <2>. DEFINE Row == [success : BOOLEAN, score : Scores \cup {0}, refs : Nat,
                      created : Instants, updated : 1..clock]
  <2>1. rows \in Seq(Row)
    BY DEF PostgresTypeOK
  <2>2. rows[id] \in Row
    <3>. HIDE DEF Row
    <3>. QED  BY <2>1
  <2>. QED  BY <2>2, PostgresAssumption
<1>. QED  BY <1>1, <1>2, <1>3, <1>4, <1>5, FS_CardinalityType DEF Rank

\* Of the rows that share their time with no other, the first n are those of the ranks
\* below n.
LEMMA FirstRowsHaveRanks ==
  ASSUME PostgresTypeOK, NEW n \in Nat, NEW S \in FirstRows(n), NEW id \in Listed, ~Tied(id)
  PROVE  id \in S <=> Rank(id) < n
<1>. DEFINE B == {j \in Listed : ComesBefore(j, id)}
<1>1. /\ IsFiniteSet(Listed) /\ Cardinality(Listed) \in Nat
      /\ \A j \in Listed : rows[j].created \in Nat
      /\ IsFiniteSet(B) /\ Rank(id) = Cardinality(B) /\ Rank(id) \in Nat
  BY RowsAreNumbered DEF Rank
<1>2. /\ S \subseteq Listed
      /\ Cardinality(S) = IF n < Cardinality(Listed) THEN n ELSE Cardinality(Listed)
      /\ \A i \in S, j \in Listed : ComesBefore(j, i) => j \in S
  BY DEF FirstRows
<1>3. IsFiniteSet(S)
  BY <1>1, <1>2, FS_Subset
<1>4. Cardinality(S) \in Nat
  BY <1>3, FS_CardinalityType
<1>5. ASSUME id \in S
      PROVE  Rank(id) < n
  <2>1. id \notin B /\ B \subseteq S
    BY <1>1, <1>2, <1>5 DEF ComesBefore
  <2>. DEFINE C == B \cup {id}
  <2>. HIDE DEF B
  <2>2. IsFiniteSet(C) /\ Cardinality(C) = Cardinality(B) + 1
    BY <1>1, <2>1, FS_AddElement
  <2>3. C \subseteq S
    BY <1>5, <2>1
  <2>. HIDE DEF C
  <2>4. Cardinality(C) <= Cardinality(S)
    BY <1>3, <2>3, FS_Subset
  <2>. QED  BY <1>1, <1>2, <1>4, <2>2, <2>4
<1>6. ASSUME Rank(id) < n, id \notin S
      PROVE  FALSE
  <2>1. S \subseteq B
    <3>. SUFFICES ASSUME NEW s \in S  PROVE s \in B
      OBVIOUS
    <3>1. s \in Listed /\ s # id /\ ~ComesBefore(id, s)
      BY <1>2, <1>6
    <3>2. rows[s].created # rows[id].created
      BY <3>1 DEF Tied
    <3>. QED  BY <1>1, <3>1, <3>2 DEF ComesBefore
  <2>. HIDE DEF B
  <2>2. Cardinality(S) <= Cardinality(B)
    BY <1>1, <2>1, FS_Subset
  <2>3. Cardinality(S) = Cardinality(Listed)
    BY <1>1, <1>2, <1>4, <1>6, <2>2
  <2>4. S = Listed
    BY <1>1, <1>2, <2>3, FS_Subset
  <2>. QED  BY <1>6, <2>4
<1>. QED  BY <1>5, <1>6

\* What is read of a page, if it is not longer than n, stands behind the rows that were
\* passed over; if it is shorter than n, there is nothing behind it.
LEMMA PagesAreBounded ==
  ASSUME PostgresTypeOK, NEW offset \in Nat, NEW n \in Nat, NEW page \in Pages(offset, n)
  PROVE  /\ page \subseteq Listed /\ Cardinality(page) \in 0..n
         /\ \A id \in Listed : ~Tied(id) /\ Rank(id) < offset + n => Rank(id) < offset \/ id \in page
         /\ Cardinality(page) < n =>
              \A id \in Listed : ~Tied(id) => Rank(id) < offset \/ id \in page
<1>1. PICK S \in FirstRows(offset) : page \cap S = {} /\ page \cup S \in FirstRows(offset + n)
  BY DEF Pages
<1>2. page \subseteq Listed
  BY DEF Pages
<1>3. IsFiniteSet(Listed) /\ Cardinality(Listed) \in Nat
  BY RowsAreNumbered
<1>4. /\ S \subseteq Listed
      /\ Cardinality(S) = IF offset < Cardinality(Listed) THEN offset ELSE Cardinality(Listed)
  BY DEF FirstRows
<1>. DEFINE U == page \cup S
<1>5. /\ U \subseteq Listed
      /\ Cardinality(U) = IF offset + n < Cardinality(Listed) THEN offset + n ELSE Cardinality(Listed)
  BY <1>1 DEF FirstRows
<1>6. IsFiniteSet(page) /\ IsFiniteSet(S)
  BY <1>2, <1>3, <1>4, FS_Subset
<1>7. Cardinality(page) \in Nat /\ Cardinality(S) \in Nat
  BY <1>6, FS_CardinalityType
<1>8. Cardinality(U) = Cardinality(page) + Cardinality(S)
  <2>1. Cardinality(page \cup S) = Cardinality(page) + Cardinality(S) - Cardinality(page \cap S)
    BY <1>6, FS_Union, Zenon
  <2>2. Cardinality(page \cap S) = 0
    BY <1>1, FS_EmptySet, Zenon
  <2>. HIDE DEF U
  <2>3. Cardinality(U) = Cardinality(page) + Cardinality(S) - 0
    BY <2>1, <2>2, Zenon DEF U
  <2>. QED  BY ONLY <1>7, <2>3, SMT
<1>9. offset + n \in Nat
  OBVIOUS
<1>10. \A id \in Listed : ~Tied(id) =>
         /\ id \in U <=> Rank(id) < offset + n
         /\ id \in S <=> Rank(id) < offset
  BY <1>1, <1>9, FirstRowsHaveRanks
<1>11. \A id \in Listed : ~Tied(id) /\ Rank(id) < offset + n => Rank(id) < offset \/ id \in page
  BY <1>10
<1>12. ASSUME Cardinality(page) < n
       PROVE  \A id \in Listed : ~Tied(id) => Rank(id) < offset \/ id \in page
  <2>. HIDE DEF U
  <2>1. Cardinality(U) = Cardinality(Listed)
    BY <1>3, <1>4, <1>5, <1>7, <1>8, <1>12
  <2>2. U = Listed
    BY <1>3, <1>5, <2>1, FS_Subset
  <2>. QED  BY <1>10, <2>2 DEF U
<1>. HIDE DEF U
<1>13. Cardinality(page) \in 0..n
  BY <1>3, <1>4, <1>5, <1>7, <1>8
<1>. QED  BY <1>2, <1>11, <1>12, <1>13

LEMMA NextRanks == PostgresTypeOK' => \A id : Rank(id)' \in Nat
<1>. DEFINE P == \A id : Rank(id) \in Nat
<1>1. PostgresTypeOK => P
  BY RowsAreNumbered
<1>. HIDE DEF P
<1>2. PostgresTypeOK' => P'
  BY <1>1, PTL
<1>. QED  BY <1>2 DEF P

\* Rows that are added or touched move the others back, if at all, and rows of one time
\* stay so.
LEMMA RowsMoveBack ==
  ASSUME PostgresTypeOK, PostgresTypeOK', DOMAIN rows \subseteq DOMAIN rows',
         \A id \in DOMAIN rows :
           rows'[id].success = rows[id].success /\ rows'[id].created = rows[id].created
  PROVE  /\ Listed \subseteq Listed'
         /\ \A id \in Listed : Rank(id) <= Rank(id)' /\ (Tied(id) => Tied(id)')
<1>1. Listed \subseteq Listed'
  BY DEF Listed
<1>2. IsFiniteSet(Listed')
  <2>1. DOMAIN rows' = 1..Len(rows') /\ Len(rows') \in Nat
    BY DEF PostgresTypeOK
  <2>2. Listed' \subseteq 1..Len(rows')
    BY <2>1 DEF Listed
  <2>3. IsFiniteSet(1..Len(rows'))
    BY <2>1, FS_Interval
  <2>. QED  BY <2>2, <2>3, FS_Subset
<1>3. Listed \subseteq DOMAIN rows
  BY DEF Listed
<1>4. ASSUME NEW id \in Listed
      PROVE  Rank(id) <= Rank(id)'
  <2>. DEFINE B == {j \in Listed : rows[j].created > rows[id].created}
              C == {j \in Listed' : rows'[j].created > rows'[id].created}
  <2>1. B \subseteq C
    BY <1>1, <1>3
  <2>2. IsFiniteSet(C)
    BY <1>2, FS_Subset
  <2>3. Rank(id) = Cardinality(B) /\ Rank(id)' = Cardinality(C)
    BY DEF Rank, ComesBefore
  <2>. HIDE DEF B, C
  <2>. QED  BY <2>1, <2>2, <2>3, FS_Subset
<1>5. ASSUME NEW id \in Listed, Tied(id)
      PROVE  Tied(id)'
  BY <1>1, <1>3, <1>5 DEF Tied
<1>. QED  BY <1>1, <1>4, <1>5


----------------------------------------------------------------------------
(* The steps.                                                              *)

LEMMA PostgresInitInv ==
  ASSUME PostgresInit
  PROVE  PostgresInv
<1>1. PostgresTypeOK
  <2>1. rows \in Seq([success : BOOLEAN, score : Scores \cup {0}, refs : Nat,
                      created : Instants, updated : 1..clock])
        /\ alerts \in Seq({"open", "resolved"}) /\ Len(rows) = 0 /\ Len(alerts) = 0
    BY DEF PostgresInit
  <2>2. 0 \in 0..MaxFailures /\ 0 <= MaxRows /\ 0 <= MaxAlerts
    BY PostgresAssumption
  <2>. QED  BY <2>1, <2>2 DEF PostgresInit, PostgresTypeOK
<1>. QED  BY <1>1 DEF PostgresInit, PostgresInv, ListingIsComplete, SchemaInOrder, PagesCover

\* InitSchema touches the schema only.
LEMMA InstallsInv ==
  ASSUME PostgresInv, NEW i \in Installers, Installs(i)
  PROVE  PostgresInv'
<1>1. UNCHANGED <<database, pager>>
  BY DEF Installs, Create, CreateFails, InitSchemaAgain
<1>2. installer \in [Installers -> 0..4] /\ tables \subseteq Tables /\ failures \in 0..MaxFailures
  BY DEF PostgresInv, PostgresTypeOK
<1>3. /\ installer' \in [Installers -> 0..4] /\ tables' \subseteq Tables /\ failures' \in 0..MaxFailures
      /\ tables \subseteq tables'
      /\ \A j \in Installers : \A step \in 1..(installer'[j] - 1) : Table(step) \in tables'
      /\ \A tab \in tables' : References(tab) \subseteq tables'
  <2>1. /\ \A j \in Installers : \A step \in 1..(installer[j] - 1) : Table(step) \in tables
        /\ \A tab \in tables : References(tab) \subseteq tables
    BY DEF PostgresInv, SchemaInOrder
  <2>2. CASE Create(i)
    <3>1. /\ installer[i] \in 1..3 /\ References(Table(installer[i])) \subseteq tables
          /\ tables' = tables \cup {Table(installer[i])}
          /\ installer' = [installer EXCEPT ![i] = installer[i] + 1] /\ UNCHANGED failures
      BY <2>2 DEF Create
    <3>2. Table(installer[i]) \in Tables
      BY <3>1 DEF Table, Tables
    <3>3. \A step \in 1..(installer[i] + 1 - 1) : step = installer[i] \/ step \in 1..(installer[i] - 1)
      BY <3>1
    <3>4. \A step \in 1..(installer'[i] - 1) : Table(step) \in tables'
      BY <1>2, <2>1, <3>1, <3>3
    <3>5. \A j \in Installers \ {i} : \A step \in 1..(installer'[j] - 1) : Table(step) \in tables'
      BY <1>2, <2>1, <3>1
    <3>6. \A tab \in tables' : References(tab) \subseteq tables'
      BY <2>1, <3>1
    <3>7. installer' \in [Installers -> 0..4]
      BY <1>2, <3>1
    <3>. QED  BY <1>2, <3>1, <3>2, <3>4, <3>5, <3>6, <3>7
  <2>3. CASE CreateFails(i)
    <3>1. /\ installer' = [installer EXCEPT ![i] = 0] /\ UNCHANGED tables
          /\ failures' \in 0..MaxFailures
      BY <1>2, <2>3, PostgresAssumption DEF CreateFails
    <3>2. \A j \in Installers : \A step \in 1..(installer'[j] - 1) : Table(step) \in tables'
      BY <1>2, <2>1, <3>1
    <3>. QED  BY <1>2, <2>1, <3>1, <3>2
  <2>4. CASE InitSchemaAgain(i)
    <3>1. installer' = [installer EXCEPT ![i] = 1] /\ UNCHANGED <<tables, failures>>
      BY <2>4 DEF InitSchemaAgain
    <3>2. \A j \in Installers : \A step \in 1..(installer'[j] - 1) : Table(step) \in tables'
      BY <1>2, <2>1, <3>1
    <3>. QED  BY <1>2, <2>1, <3>1, <3>2
  <2>. QED  BY <2>2, <2>3, <2>4 DEF Installs
<1>4. SchemaInOrder'
  BY <1>1, <1>3 DEF PostgresInv, SchemaInOrder, Ready, database
<1>5. PostgresTypeOK'
  BY <1>1, <1>3 DEF PostgresInv, PostgresTypeOK, database
<1>. QED  BY <1>1, <1>4, <1>5
          DEF PostgresInv, ListingIsComplete, PagesCover, Listed, Rank, Tied, ComesBefore, database

\* What the steps keep that add or touch a row.
LEMMA RowsInv ==
  ASSUME PostgresInv, PostgresTypeOK', Ready, UNCHANGED <<tables, installer, alerts, pager>>,
         DOMAIN rows \subseteq DOMAIN rows',
         \A id \in DOMAIN rows :
           rows'[id].success = rows[id].success /\ rows'[id].created = rows[id].created
  PROVE  PostgresInv'
<1>1. /\ Listed \subseteq Listed'
      /\ \A id \in Listed : Rank(id) <= Rank(id)' /\ (Tied(id) => Tied(id)')
  BY RowsMoveBack DEF PostgresInv
<1>2. \A id : Rank(id) \in Nat /\ Rank(id)' \in Nat
  BY RowsAreNumbered, NextRanks DEF PostgresInv
<1>3. PagesCover'
  <2>1. pager.offset \in Nat
    BY DEF PostgresInv, PostgresTypeOK
  <2>2. \A id \in Listed : Rank(id)' < pager.offset => Rank(id) < pager.offset
    BY <1>1, <1>2, <2>1
  <2>3. pager.there \subseteq Listed
    BY DEF PostgresInv, PagesCover
  <2>. QED  BY <1>1, <2>2, <2>3 DEF PostgresInv, PagesCover
<1>5. ListingIsComplete'
  <2>1. pager.there \subseteq Listed
    BY DEF PostgresInv, PagesCover
  <2>. QED  BY <1>1, <2>1 DEF PostgresInv, ListingIsComplete
<1>4. SchemaInOrder'
  BY DEF PostgresInv, SchemaInOrder, Ready
<1>. QED  BY <1>3, <1>4, <1>5 DEF PostgresInv


\* A new row pushes the others back in every listing, never forward.
LEMMA CreateExperienceInv ==
  ASSUME PostgresInv, CreateExperience
  PROVE  PostgresInv'
<1>. DEFINE Row(k) == [success : BOOLEAN, score : Scores \cup {0}, refs : Nat,
                      created : Instants, updated : 1..k]
<1>1. PICK success \in BOOLEAN, created \in Instants :
        rows' = Append(rows, [success |-> success, score |-> 0, refs |-> 0,
                              created |-> created, updated |-> clock + 1])
  BY DEF CreateExperience
<1>2. /\ Ready /\ Len(rows) < MaxRows /\ clock' = clock + 1
      /\ UNCHANGED <<tables, installer, alerts, pager>>
      /\ failures' \in 0..MaxFailures
  BY PostgresAssumption DEF CreateExperience, PostgresInv, PostgresTypeOK
<1>3. clock \in Nat /\ rows \in Seq(Row(clock)) /\ Len(rows) \in Nat /\ DOMAIN rows = 1..Len(rows)
  BY DEF PostgresInv, PostgresTypeOK
<1>4. rows' \in Seq(Row(clock')) /\ Len(rows') = Len(rows) + 1 /\ Len(rows') <= MaxRows
  <2>1. Row(clock) \subseteq Row(clock') /\ rows \in Seq(Row(clock'))
    <3>1. 1..clock \subseteq 1..clock'
      BY <1>2, <1>3
    <3>2. Row(clock) \subseteq Row(clock')
      BY <3>1
    <3>. HIDE DEF Row
    <3>. QED  BY <1>3, <3>2
  <2>2. [success |-> success, score |-> 0, refs |-> 0, created |-> created, updated |-> clock + 1]
          \in Row(clock')
    BY <1>2, <1>3
  <2>. HIDE DEF Row
  <2>. QED  BY <1>1, <1>2, <1>3, <2>1, <2>2, PostgresAssumption
<1>5. /\ DOMAIN rows' = 1..(Len(rows) + 1)
      /\ \A id \in DOMAIN rows : rows'[id] = rows[id]
  BY <1>1, <1>3, <1>4
<1>6. DOMAIN rows \subseteq DOMAIN rows' /\ Len(rows) + 1 \in DOMAIN rows'
  BY <1>3, <1>5
<1>7. PostgresTypeOK'
  <2>1. pager' \in [pc : {"idle", "paging", "done"}, offset : Nat,
                    read : SUBSET DOMAIN rows', there : SUBSET DOMAIN rows', cut : BOOLEAN]
    BY <1>2, <1>6 DEF PostgresInv, PostgresTypeOK
  <2>2. clock' \in Nat
    BY <1>2, <1>3
  <2>. QED  BY <1>2, <1>4, <2>1, <2>2 DEF PostgresInv, PostgresTypeOK
<1>. QED  BY <1>2, <1>5, <1>6, <1>7, RowsInv

\* Feedback and references change a row in its place.
LEMMA TouchInv ==
  ASSUME PostgresInv, NEW id \in DOMAIN rows,
         UpdateFeedback(id) \/ IncrementReferences(id)
  PROVE  PostgresInv'
<1>. DEFINE Row(k) == [success : BOOLEAN, score : Scores \cup {0}, refs : Nat,
                      created : Instants, updated : 1..k]
<1>1. /\ Ready /\ clock' = clock + 1
      /\ UNCHANGED <<tables, installer, alerts, pager, failures>>
  BY DEF UpdateFeedback, IncrementReferences, Touch
<1>2. clock \in Nat /\ rows \in Seq(Row(clock)) /\ Len(rows) \in Nat /\ DOMAIN rows = 1..Len(rows)
  BY DEF PostgresInv, PostgresTypeOK
<1>3. rows[id] \in Row(clock)
  <2>. HIDE DEF Row
  <2>. QED  BY <1>2
<1>4. PICK row \in Row(clock') :
        /\ row.success = rows[id].success /\ row.created = rows[id].created
        /\ rows' = [rows EXCEPT ![id] = row]
  <2>1. CASE UpdateFeedback(id)
    <3>1. PICK score \in Scores :
            rows' = [rows EXCEPT ![id] = [[rows[id] EXCEPT !.score = score] EXCEPT !.updated = clock + 1]]
      BY <2>1 DEF UpdateFeedback, Touch
    <3>. DEFINE row == [[rows[id] EXCEPT !.score = score] EXCEPT !.updated = clock + 1]
    <3>2. clock + 1 \in 1..clock'
      BY <1>1, <1>2
    <3>. DEFINE scored == [rows[id] EXCEPT !.score = score]
    <3>3. /\ scored \in Row(clock) /\ scored.success = rows[id].success /\ scored.created = rows[id].created
          /\ row = [scored EXCEPT !.updated = clock + 1]
      BY <1>3
    <3>. HIDE DEF row, scored
    <3>4. row \in Row(clock') /\ row.success = rows[id].success /\ row.created = rows[id].created
      BY <3>2, <3>3
    <3>. QED  BY <3>1, <3>4 DEF row
  <2>2. CASE IncrementReferences(id)
    <3>. DEFINE row == [[rows[id] EXCEPT !.refs = rows[id].refs + 1] EXCEPT !.updated = clock + 1]
    <3>1. rows' = [rows EXCEPT ![id] = row]
      BY <2>2 DEF IncrementReferences, Touch
    <3>2. clock + 1 \in 1..clock' /\ rows[id].refs + 1 \in Nat
      BY <1>1, <1>2, <1>3
    <3>. DEFINE counted == [rows[id] EXCEPT !.refs = rows[id].refs + 1]
    <3>3. /\ counted \in Row(clock) /\ counted.success = rows[id].success /\ counted.created = rows[id].created
          /\ row = [counted EXCEPT !.updated = clock + 1]
      BY <1>3, <3>2
    <3>. HIDE DEF row, counted
    <3>4. row \in Row(clock') /\ row.success = rows[id].success /\ row.created = rows[id].created
      BY <3>2, <3>3
    <3>. QED  BY <3>1, <3>4 DEF row
  <2>. QED  BY <2>1, <2>2
<1>5. rows' \in Seq(Row(clock')) /\ Len(rows') = Len(rows)
  <2>1. 1..clock \subseteq 1..clock'
    BY <1>1, <1>2
  <2>2. Row(clock) \subseteq Row(clock')
    BY <2>1
  <2>. HIDE DEF Row
  <2>3. rows \in Seq(Row(clock'))
    BY <1>2, <2>2
  <2>. QED  BY <1>2, <1>4, <2>3
<1>6. /\ DOMAIN rows' = DOMAIN rows
      /\ \A j \in DOMAIN rows :
           rows'[j].success = rows[j].success /\ rows'[j].created = rows[j].created
  BY <1>4
<1>7. PostgresTypeOK'
  <2>1. clock' \in Nat
    BY <1>1, <1>2
  <2>. QED  BY <1>1, <1>5, <1>6, <2>1 DEF PostgresInv, PostgresTypeOK
<1>. QED  BY <1>1, <1>6, <1>7, RowsInv

\* At its beginning a listing has passed nothing.
LEMMA BeginListingInv ==
  ASSUME PostgresInv, BeginListing
  PROVE  PostgresInv'
<1>1. /\ Ready /\ UNCHANGED <<tables, installer, rows, alerts, clock, failures>>
      /\ pager' = [pager EXCEPT !.pc = "paging", !.there = Listed] /\ pager.pc = "idle"
  BY DEF BeginListing, database
<1>2. pager \in [pc : {"idle", "paging", "done"}, offset : Nat,
                 read : SUBSET DOMAIN rows, there : SUBSET DOMAIN rows, cut : BOOLEAN]
  BY DEF PostgresInv, PostgresTypeOK
<1>3. Listed \subseteq DOMAIN rows
  BY DEF Listed
<1>4. pager' = [pc |-> "paging", offset |-> 0, read |-> pager.read, there |-> Listed, cut |-> FALSE]
  BY <1>1, <1>2 DEF PostgresInv, PagesCover
<1>5. PostgresTypeOK'
  BY <1>1, <1>2, <1>3, <1>4 DEF PostgresInv, PostgresTypeOK
<1>6. Listed' = Listed /\ \A id : Rank(id)' \in Nat
  BY <1>1, <1>5, NextRanks DEF Listed
<1>7. PagesCover'
  BY <1>4, <1>6 DEF PagesCover
<1>. QED  BY <1>1, <1>4, <1>5, <1>7
          DEF PostgresInv, ListingIsComplete, SchemaInOrder, Ready

\* A page takes in what it passes over; a short one is the last, cut or not.
LEMMA ListPageInv ==
  ASSUME PostgresInv, ListPage
  PROVE  PostgresInv'
<1>1. PICK n \in 0..PageLimit, cut \in BOOLEAN : \E page \in Pages(pager.offset, n) :
        /\ Read(page, cut) /\ (~cut => n = PageLimit) /\ (cut => n < PageLimit)
        /\ failures' \in 0..MaxFailures
  <2>1. failures \in 0..MaxFailures /\ MaxFailures \in Nat /\ PageLimit \in Nat
    BY PostgresAssumption DEF PostgresInv, PostgresTypeOK
  <2>2. CASE (\E page \in Pages(pager.offset, PageLimit) : Read(page, FALSE)) /\ UNCHANGED failures
    <3>1. PICK page \in Pages(pager.offset, PageLimit) : Read(page, FALSE)
      BY <2>2
    <3>2. PageLimit \in 0..PageLimit /\ FALSE \in BOOLEAN /\ failures' \in 0..MaxFailures
      BY <2>1, <2>2
    <3>3. \E first \in Pages(pager.offset, PageLimit) :
            /\ Read(first, FALSE) /\ (~FALSE => PageLimit = PageLimit) /\ (FALSE => PageLimit < PageLimit)
            /\ failures' \in 0..MaxFailures
      BY <3>1, <3>2, Zenon
    <3>. QED  BY ONLY <3>2, <3>3, Zenon
  <2>3. CASE /\ failures < MaxFailures /\ failures' = failures + 1
             /\ \E n \in 0..(PageLimit - 1) : \E page \in Pages(pager.offset, n) : Read(page, TRUE)
    <3>1. PICK n \in 0..(PageLimit - 1) : \E page \in Pages(pager.offset, n) : Read(page, TRUE)
      BY <2>3
    <3>2. n \in 0..PageLimit /\ n < PageLimit /\ failures' \in 0..MaxFailures
      BY <2>1, <2>3
    <3>. QED  BY <3>1, <3>2
  <2>. QED  BY <2>2, <2>3 DEF ListPage
<1>0. PICK page \in Pages(pager.offset, n) : Read(page, cut)
  BY <1>1
<1>. DEFINE after == IF Cardinality(page) < PageLimit THEN "done" ELSE pager.pc
<1>2. /\ UNCHANGED <<tables, installer, rows, alerts, clock>> /\ pager.pc = "paging"
      /\ pager' = [pager EXCEPT !.offset = pager.offset + PageLimit, !.read = pager.read \cup page,
                                !.cut = cut, !.pc = after]
  BY <1>0 DEF ListPage, Read, database
<1>3. pager \in [pc : {"idle", "paging", "done"}, offset : Nat,
                 read : SUBSET DOMAIN rows, there : SUBSET DOMAIN rows, cut : BOOLEAN]
  BY DEF PostgresInv, PostgresTypeOK
<1>4. pager.offset \in Nat /\ PageLimit \in Nat /\ n \in Nat /\ pager.offset + PageLimit \in Nat
  BY <1>3, PostgresAssumption
<1>5. /\ page \subseteq Listed /\ Cardinality(page) \in 0..n
      /\ \A id \in Listed : ~Tied(id) /\ Rank(id) < pager.offset + n => Rank(id) < pager.offset \/ id \in page
      /\ Cardinality(page) < n =>
           \A id \in Listed : ~Tied(id) => Rank(id) < pager.offset \/ id \in page
  BY <1>4, PagesAreBounded DEF PostgresInv
<1>6. Listed' = Listed /\ \A id : Rank(id)' = Rank(id) /\ (Tied(id)' <=> Tied(id))
  BY <1>2 DEF Listed, Rank, Tied, ComesBefore
<1>7. /\ pager.there \subseteq Listed
      /\ \A id \in pager.there : Rank(id) < pager.offset => id \in pager.read \/ Tied(id)
  BY <1>2 DEF PostgresInv, PagesCover
<1>8. /\ pager' = [pc |-> after, offset |-> pager.offset + PageLimit, read |-> pager.read \cup page,
                   there |-> pager.there, cut |-> cut]
      /\ after \in {"paging", "done"} /\ (after = "done" <=> Cardinality(page) < PageLimit)
  BY <1>2, <1>3
<1>. HIDE DEF after
<1>9. PostgresTypeOK'
  <2>1. page \subseteq DOMAIN rows
    BY <1>5 DEF Listed
  <2>. QED  BY <1>1, <1>2, <1>3, <1>4, <1>8, <2>1 DEF PostgresInv, PostgresTypeOK
<1>10. PagesCover'
  <2>1. after = "paging" => ~cut
    BY <1>1, <1>4, <1>5, <1>8
  <2>2. ~cut => \A id \in pager.there : Rank(id) < pager.offset + PageLimit =>
                  id \in pager.read \cup page \/ Tied(id)
    BY <1>1, <1>5, <1>7
  <2>. QED  BY <1>6, <1>7, <1>8, <2>1, <2>2 DEF PagesCover
<1>11. ListingIsComplete'
  <2>1. after = "done" /\ ~cut => \A id \in pager.there : id \in pager.read \cup page \/ Tied(id)
    BY <1>1, <1>5, <1>7, <1>8
  <2>. QED  BY <1>6, <1>8, <2>1 DEF ListingIsComplete
<1>12. SchemaInOrder'
  BY <1>2, <1>8 DEF PostgresInv, SchemaInOrder, Ready
<1>. QED  BY <1>2, <1>9, <1>10, <1>11, <1>12 DEF PostgresInv

\* Alerts touch no experience.
LEMMA AlertRowsInv ==
  ASSUME PostgresInv, CreateAlert \/ \E id \in 1..(MaxAlerts + 1) : ResolveAlert(id)
  PROVE  PostgresInv'
<1>1. Ready /\ UNCHANGED <<tables, installer, rows, clock, pager, failures>>
  BY DEF CreateAlert, ResolveAlert
<1>2. alerts \in Seq({"open", "resolved"}) /\ Len(alerts) \in Nat /\ Len(alerts) <= MaxAlerts /\ MaxAlerts \in Nat
  BY PostgresAssumption DEF PostgresInv, PostgresTypeOK
<1>3. alerts' \in Seq({"open", "resolved"}) /\ Len(alerts') <= MaxAlerts
  <2>1. CASE CreateAlert
    BY <1>2, <2>1 DEF CreateAlert
  <2>2. ASSUME NEW id \in 1..(MaxAlerts + 1), ResolveAlert(id)
        PROVE  alerts' \in Seq({"open", "resolved"}) /\ Len(alerts') <= MaxAlerts
    <3>1. CASE id \in DOMAIN alerts
      BY <1>2, <2>2, <3>1 DEF ResolveAlert
    <3>2. CASE id \notin DOMAIN alerts
      BY <1>2, <2>2, <3>2 DEF ResolveAlert
    <3>. QED  BY <3>1, <3>2
  <2>. QED  BY <2>1, <2>2
<1>4. PostgresTypeOK'
  BY <1>1, <1>3 DEF PostgresInv, PostgresTypeOK
<1>5. SchemaInOrder'
  BY <1>1 DEF PostgresInv, SchemaInOrder, Ready
<1>. QED  BY <1>1, <1>4, <1>5
          DEF PostgresInv, ListingIsComplete, PagesCover, Listed, Rank, Tied, ComesBefore

\* Every step keeps the invariant.
LEMMA PostgresNextInv ==
  ASSUME PostgresInv, [PostgresNext]_postgresVars
  PROVE  PostgresInv'
<1>1. CASE UNCHANGED postgresVars
  <2>1. UNCHANGED <<tables, installer, rows, alerts, clock, pager, failures>>
    BY <1>1 DEF postgresVars, database
  <2>2. PostgresTypeOK' /\ SchemaInOrder'
    BY <2>1 DEF PostgresInv, PostgresTypeOK, SchemaInOrder, Ready
  <2>3. Listed' = Listed /\ \A id : Rank(id)' = Rank(id) /\ (Tied(id)' <=> Tied(id))
    BY <2>1 DEF Listed, Rank, Tied, ComesBefore
  <2>4. ListingIsComplete' /\ PagesCover'
    BY <2>1, <2>3 DEF PostgresInv, ListingIsComplete, PagesCover
  <2>. QED  BY <2>2, <2>4 DEF PostgresInv
<1>. QED  BY <1>1, InstallsInv, CreateExperienceInv, TouchInv, BeginListingInv, ListPageInv, AlertRowsInv
          DEF PostgresNext

----------------------------------------------------------------------------
(* The theorems about PostgresClient.                                      *)

\* The inductive invariant: the types, the order of the schema, what a listing covers.
THEOREM PostgresInvariance == PostgresSpec => []PostgresInv
<1>1. PostgresInit => PostgresInv
  BY PostgresInitInv
<1>2. PostgresInv /\ [PostgresNext]_postgresVars => PostgresInv'
  BY PostgresNextInv
<1>. QED  BY <1>1, <1>2, PTL DEF PostgresSpec

\* A caller that reads ListExperiences page after page until a short one has seen every
\* experience that was there when it began, whatever was created and updated meanwhile:
\* but for those that share their created_at with another, and for a page that was cut.
THEOREM PagesAreComplete == PostgresSpec => []ListingIsComplete
<1>1. PostgresInv => ListingIsComplete
  BY DEF PostgresInv
<1>. QED  BY <1>1, PostgresInvariance, PTL

\* An installer whose InitSchema returned nil left the whole schema, whoever else
\* installed it at the same time and whichever statements failed.
THEOREM InstalledMeansReady ==
  PostgresSpec => [](\A i \in Installers : installer[i] = 4 => Ready)
<1>. DEFINE P == \A i \in Installers : installer[i] = 4 => Ready
<1>1. PostgresInv => P
  <2>. SUFFICES ASSUME PostgresInv, NEW i \in Installers, installer[i] = 4  PROVE Ready
    OBVIOUS
  <2>1. \A step \in 1..3 : Table(step) \in tables
    BY DEF PostgresInv, SchemaInOrder
  <2>2. Table(1) = "experiences" /\ Table(2) = "alerts" /\ Table(3) = "fix_history"
    BY DEF Table
  <2>. QED  BY <2>1, <2>2 DEF Ready, Tables
<1>. HIDE DEF P
<1>2. PostgresSpec => []P
  BY <1>1, PostgresInvariance, PTL
<1>. QED  BY <1>2 DEF P

----------------------------------------------------------------------------
(* ClickHouseClient.                                                       *)

----------------------------------------------------------------------------
(* Counting.                                                               *)

\* Adding new elements, one for each of Q.
LEMMA AddNew ==
  ASSUME NEW S, IsFiniteSet(S), NEW Q, IsFiniteSet(Q), NEW c,
         \A q \in Q : c[q] \notin S,
         \A p, q \in Q : c[p] = c[q] => p = q
  PROVE  /\ IsFiniteSet(S \cup {c[q] : q \in Q})
         /\ Cardinality(S \cup {c[q] : q \in Q}) = Cardinality(S) + Cardinality(Q)
<1>. DEFINE N == {c[q] : q \in Q}
            f == [q \in Q |-> c[q]]
<1>1. f \in Bijection(Q, N)
  BY DEF Bijection, Injection, Surjection, IsInjective
<1>2. IsFiniteSet(N) /\ Cardinality(N) = Cardinality(Q)
  BY <1>1, FS_Bijection DEF ExistsBijection
<1>3. S \cap N = {}
  OBVIOUS
<1>. HIDE DEF N
<1>4. Cardinality(S \cap N) = 0
  BY <1>3, FS_EmptySet
<1>5. IsFiniteSet(S \cup N) /\ Cardinality(S \cup N) = Cardinality(S) + Cardinality(N) - Cardinality(S \cap N)
  BY <1>2, FS_Union
<1>6. Cardinality(S) \in Nat /\ Cardinality(N) \in Nat
  BY <1>2, FS_CardinalityType
<1>. QED  BY <1>2, <1>4, <1>5, <1>6 DEF N

\* The logs R were added to the rows T and gave U: one more row for each number, and as
\* many more for a template as there are logs of it.
Added(R, T, U) ==
  /\ IsFiniteSet(U)
  /\ \A n : Cardinality({r \in U : r.n = n}) =
            Cardinality({r \in T : r.n = n}) + IF \E r \in R : r.n = n THEN 1 ELSE 0
  /\ \A t : Cardinality({r \in U : r.template = t}) =
            Cardinality({r \in T : r.template = t}) + Cardinality({r \in R : r.template = t})

\* The logs of a statement have different numbers.
Distinct(R) == IsFiniteSet(R) /\ \A r, s \in R : r.n = s.n => r = s

\* c makes of the logs R rows that T does not have.
MakesNew(c, R, T) == \A r \in R : c[r].n = r.n /\ c[r].template = r.template /\ c[r] \notin T

\* What Store does to the counts.
LEMMA StoreCounts ==
  ASSUME NEW T, IsFiniteSet(T), NEW R, Distinct(R), NEW c, MakesNew(c, R, T),
         NEW U, U = T \cup {c[r] : r \in R}
  PROVE  Added(R, T, U)
<1>. USE DEF Distinct, MakesNew
<1>0. IsFiniteSet(R)
  OBVIOUS
<1>1. \A r, s \in R : c[r] = c[s] => r = s
  OBVIOUS
<1>2. ASSUME NEW S \in SUBSET T, NEW Q \in SUBSET R
      PROVE  Cardinality(S \cup {c[q] : q \in Q}) = Cardinality(S) + Cardinality(Q)
  <2>1. IsFiniteSet(S) /\ IsFiniteSet(Q)
    BY FS_Subset
  <2>2. /\ \A q \in Q : c[q] \notin S
        /\ \A p, q \in Q : c[p] = c[q] => p = q
    BY <1>1
  <2>. QED  BY ONLY <2>1, <2>2, AddNew
<1>3. IsFiniteSet(U)
  <2>1. \A r \in R : c[r] \notin T
    OBVIOUS
  <2>. QED  BY ONLY IsFiniteSet(T), <1>0, U = T \cup {c[r] : r \in R}, <1>1, <2>1, AddNew
<1>4. ASSUME NEW n
      PROVE  Cardinality({r \in U : r.n = n}) =
             Cardinality({r \in T : r.n = n}) + IF \E r \in R : r.n = n THEN 1 ELSE 0
  <2>. DEFINE Q == {r \in R : r.n = n}
  <2>1. {r \in U : r.n = n} = {r \in T : r.n = n} \cup {c[q] : q \in Q}
    OBVIOUS
  <2>2. Cardinality(Q) = IF \E r \in R : r.n = n THEN 1 ELSE 0
    <3>1. CASE \E r \in R : r.n = n
      <4>1. PICK r \in R : r.n = n
        BY <3>1
      <4>2. Q = {r}
        BY <4>1
      <4>. QED  BY <3>1, <4>2, FS_Singleton
    <3>2. CASE ~\E r \in R : r.n = n
      <4>1. Q = {}
        BY <3>2
      <4>. QED  BY <3>2, <4>1, FS_EmptySet
    <3>. QED  BY <3>1, <3>2
  <2>. QED  BY <1>2, <2>1, <2>2
<1>5. ASSUME NEW t
      PROVE  Cardinality({r \in U : r.template = t}) =
             Cardinality({r \in T : r.template = t}) + Cardinality({r \in R : r.template = t})
  <2>. DEFINE Q == {r \in R : r.template = t}
  <2>1. {r \in U : r.template = t} = {r \in T : r.template = t} \cup {c[q] : q \in Q}
    OBVIOUS
  <2>. QED  BY <1>2, <2>1
<1>. QED  BY <1>3, <1>4, <1>5 DEF Added

----------------------------------------------------------------------------
(* Inserts.                                                                *)

\* The counts are numbers; nothing is stored under a number that was not given out.
LEMMA CountsAreNumbers ==
  ASSUME ClickHouseInv
  PROVE  /\ \A n : Copies(n) \in Nat
         /\ \A t : Cardinality({r \in everStored : r.template = t}) \in Nat
         /\ \A t : Cardinality({r \in everStored : r.template = t}) <= Cardinality(everStored)
         /\ Cardinality(everStored) \in Nat
         /\ \A n : n \notin 1..(next - 1) => Copies(n) = 0
         /\ \A n : Copies(n) = 0 => \A r \in everStored : r.n # n
<1>1. IsFiniteSet(everStored)
  BY DEF ClickHouseInv, RowsAreCopies
<1>2. \A n : IsFiniteSet({r \in everStored : r.n = n})
  BY <1>1, FS_Subset
<1>3. \A t : IsFiniteSet({r \in everStored : r.template = t})
  BY <1>1, FS_Subset
<1>4. ASSUME NEW n, n \notin 1..(next - 1)
      PROVE  {r \in everStored : r.n = n} = {}
  BY <1>4 DEF ClickHouseInv, ClickHouseTypeOK
<1>5. ASSUME NEW n, {r \in everStored : r.n = n} = {}
      PROVE  \A r \in everStored : r.n # n
  BY <1>5
<1>6. \A t : Cardinality({r \in everStored : r.template = t}) <= Cardinality(everStored)
  BY <1>1, FS_Subset
<1>. QED  BY <1>1, <1>2, <1>3, <1>4, <1>5, <1>6, FS_CardinalityType, FS_EmptySet DEF Copies

\* What Store does: one more copy under each number, and as many more rows of a template
\* as there are logs of it.
LEMMA StoreAdds ==
  ASSUME ClickHouseInv, NEW R, Distinct(R), Store(R)
  PROVE  /\ IsFiniteSet(everStored')
         /\ \A n : Copies(n)' = Copies(n) + IF \E r \in R : r.n = n THEN 1 ELSE 0
         /\ \A t : Cardinality({r \in everStored' : r.template = t}) =
                   Cardinality({r \in everStored : r.template = t}) + Cardinality({r \in R : r.template = t})
         /\ everStored \subseteq everStored'
         /\ \A s \in everStored' \ everStored :
              \E r \in R : s.n = r.n /\ s.template = r.template /\ s.copy = Copies(r.n)
<1>. DEFINE c == [r \in R |-> Copy(r)]
<1>1. \A r \in R : /\ c[r].n = r.n /\ c[r].template = r.template /\ c[r].copy = Copies(r.n)
  BY DEF Copy, Copies
<1>2. \A r \in R : c[r] \notin everStored
  <2>1. \A s \in everStored : s.copy < Copies(s.n) /\ Copies(s.n) \in Nat
    BY CountsAreNumbers DEF ClickHouseInv, RowsAreCopies
  <2>. QED  BY <1>1, <2>1
<1>3. everStored' = everStored \cup {c[r] : r \in R}
  BY DEF Store
<1>4. IsFiniteSet(everStored)
  BY DEF ClickHouseInv, RowsAreCopies
<1>5. \A s \in everStored' \ everStored :
        \E r \in R : s.n = r.n /\ s.template = r.template /\ s.copy = Copies(r.n)
  BY <1>1, <1>3
<1>6. everStored \subseteq everStored'
  BY <1>3
<1>. HIDE DEF c
<1>7. MakesNew(c, R, everStored)
  BY <1>1, <1>2 DEF MakesNew
<1>8. Added(R, everStored, everStored')
  BY <1>3, <1>4, <1>7, StoreCounts
<1>. QED  BY <1>5, <1>6, <1>8 DEF Copies, Added

\* Q has the rows of R of some months.
WholeMonths(Q, R) == \A q \in Q, r \in R : Month[q.time] = Month[r.time] => r \in Q

\* A part of different logs.
LEMMA PartsAreDistinct ==
  ASSUME NEW R, Distinct(R), NEW Q \in SUBSET R
  PROVE  Distinct(Q)
BY FS_Subset DEF Distinct

\* An insert stores the logs of some months; of all, if the view or the answers change.
LEMMA InsertStores ==
  ASSUME NEW R, Insert(R)
  PROVE  \E Q \in SUBSET R : /\ Store(Q) /\ WholeMonths(Q, R)
                             /\ (Q = R /\ Count(R)) \/ UNCHANGED <<view, acknowledged>>
<1>1. CASE Store(R) /\ Count(R)
  BY <1>1 DEF WholeMonths
<1>2. CASE /\ \E months \in SUBSET {Month[r.time] : r \in R} : Store(OfMonths(R, months))
           /\ UNCHANGED <<view, acknowledged>>
  <2>1. PICK months \in SUBSET {Month[r.time] : r \in R} : Store(OfMonths(R, months))
    BY <1>2
  <2>2. OfMonths(R, months) \in SUBSET R /\ WholeMonths(OfMonths(R, months), R)
    BY DEF OfMonths, WholeMonths
  <2>. QED  BY <1>2, <2>1, <2>2
<1>. QED  BY <1>1, <1>2 DEF Insert

\* Whatever becomes of an insert, the logs of each month have as many more copies as each
\* other, and what is new is one of them.
LEMMA InsertIsWhole ==
  ASSUME ClickHouseInv, NEW R, Distinct(R), Insert(R)
  PROVE  /\ IsFiniteSet(everStored') /\ everStored \subseteq everStored'
         /\ past' = past => TableKeepsRows'
         /\ \E Q \in SUBSET R :
              WholeMonths(Q, R) /\ \A n : Copies(n)' = Copies(n) + IF \E r \in Q : r.n = n THEN 1 ELSE 0
         /\ \A s \in everStored' : s \in everStored \/ \E r \in R : s.n = r.n /\ s.template = r.template
         /\ \A s \in everStored' : s \in everStored \/ s.copy = Copies(s.n)
         /\ \A s \in everStored' \ everStored : Copies(s.n)' = Copies(s.n) + 1
<1>1. PICK Q \in SUBSET R : Store(Q) /\ WholeMonths(Q, R)
  BY InsertStores
<1>2. Distinct(Q)
  BY PartsAreDistinct
<1>3. \A n : Copies(n)' = Copies(n) + IF \E r \in Q : r.n = n THEN 1 ELSE 0
  BY <1>1, <1>2, StoreAdds
<1>4. \A s \in everStored' \ everStored :
        \E r \in Q : s.n = r.n /\ s.template = r.template /\ s.copy = Copies(r.n)
  BY <1>1, <1>2, StoreAdds
<1>5. IsFiniteSet(everStored') /\ everStored \subseteq everStored'
  BY <1>1, <1>2, StoreAdds
<1>6. past' = past => TableKeepsRows'
  <2>. DEFINE new == {Copy(r) : r \in Q}
  <2>1. everStored' = everStored \cup new /\ table' = table \cup new
    BY <1>1 DEF Store
  <2>2. table \subseteq everStored /\ \A r \in everStored \ table : r.time \in past
    BY DEF ClickHouseInv, TableKeepsRows
  <2>. HIDE DEF new
  <2>. QED  BY <2>1, <2>2 DEF TableKeepsRows
<1>7. \A s \in everStored' : s \in everStored \/ \E r \in R : s.n = r.n /\ s.template = r.template
  BY <1>4
<1>. QED  BY <1>1, <1>3, <1>4, <1>5, <1>6, <1>7

\* What is in the table agrees with the logs that are inserted.
Agrees(R) == \A r \in R : \A s \in everStored : s.n = r.n => s.template = r.template

\* The rows of the table remain copies.
LEMMA InsertKeepsCopies ==
  ASSUME ClickHouseInv, NEW R, Distinct(R), Insert(R), Agrees(R),
         next' \in Nat, next <= next',
         \A r \in R : r.n \in 1..(next' - 1) /\ r.template \in LogTemplates
  PROVE  /\ RowsAreCopies'
         /\ sends' \in 0..MaxSends
         /\ \A r \in everStored' : r.n \in 1..(next' - 1) /\ r.template \in LogTemplates /\ r.copy \in 0..MaxSends
<1>1. sends \in Nat /\ sends' = sends + 1 /\ sends' \in 0..MaxSends
  BY ClickHouseAssumption DEF Insert, ClickHouseInv
<1>2. next \in Nat \ {0}
  BY ClickHouseAssumption DEF ClickHouseInv
<1>3. PICK Q \in SUBSET R : \A n : Copies(n)' = Copies(n) + IF \E r \in Q : r.n = n THEN 1 ELSE 0
  BY InsertIsWhole
<1>4. \A n : Copies(n) \in 0..sends
  <2>1. \A n \in 1..(next - 1) : Copies(n) \in 0..sends
    BY <1>1, CountsAreNumbers DEF ClickHouseInv, RowsAreCopies
  <2>. QED  BY <1>1, <2>1, CountsAreNumbers
<1>5. \A n : Copies(n)' \in 0..sends' /\ Copies(n)' >= Copies(n)
  BY <1>1, <1>3, <1>4
<1>6. ASSUME NEW r \in everStored'
      PROVE  /\ r.n \in 1..(next' - 1) /\ r.template \in LogTemplates
             /\ r.copy \in 0..MaxSends /\ r.copy < Copies(r.n)'
  <2>1. CASE r \in everStored
    <3>1. r.n \in 1..(next - 1) /\ r.template \in LogTemplates /\ r.copy \in 0..MaxSends
      BY <2>1 DEF ClickHouseInv, ClickHouseTypeOK
    <3>2. r.copy < Copies(r.n)
      BY <2>1 DEF ClickHouseInv, RowsAreCopies
    <3>. QED  BY <3>1, <3>2, <1>2, <1>4, <1>5, <1>1
  <2>2. CASE r \notin everStored
    <3>1. r.copy = Copies(r.n) /\ Copies(r.n)' = Copies(r.n) + 1
      BY <2>2, InsertIsWhole
    <3>2. \E s \in R : r.n = s.n /\ r.template = s.template
      BY <2>2, InsertIsWhole
    <3>3. r.copy \in 0..MaxSends /\ r.copy < Copies(r.n)'
      BY <3>1, <1>4, <1>1, ClickHouseAssumption DEF ClickHouseInv
    <3>. QED  BY <3>2, <3>3
  <2>. QED  BY <2>1, <2>2
<1>7. ASSUME NEW r \in everStored', NEW s \in everStored', r.n = s.n
      PROVE  r.template = s.template
  <2>1. \A x, y \in everStored : x.n = y.n => x.template = y.template
    BY DEF ClickHouseInv, RowsAreCopies
  <2>2. \A x \in R, y \in everStored : x.n = y.n => x.template = y.template
    BY DEF Agrees
  <2>3. \A x, y \in R : x.n = y.n => x.template = y.template
    BY DEF Distinct
  <2>4. \A x \in everStored' : x \in everStored \/ \E y \in R : x.n = y.n /\ x.template = y.template
    BY InsertIsWhole
  <2>. QED  BY <1>7, <2>1, <2>2, <2>3, <2>4
<1>8. IsFiniteSet(everStored')
  BY InsertIsWhole
<1>9. \A n \in 1..(next' - 1) : Copies(n)' <= sends'
  BY <1>1, <1>5
<1>10. \A r \in everStored' : r.copy < Copies(r.n)'
  BY <1>6
<1>11. RowsAreCopies'
  BY <1>7, <1>8, <1>9, <1>10 DEF RowsAreCopies
<1>. QED  BY <1>1, <1>6, <1>11

\* Every answered log is there, and the view is behind the table and, if it was early,
\* ahead of the answers.
ViewOf(t) ==
  /\ view[t] <= Cardinality({r \in everStored : r.template = t})
  /\ \A n \in acknowledged : Copies(n) > 0
  /\ early => Cardinality({r.n : r \in {r \in everStored : r.template = t}} \cap acknowledged) <= view[t]

LEMMA ViewOfAll == ViewFollowsInserts <=> \A t \in LogTemplates : ViewOf(t)
BY DEF ViewFollowsInserts, ViewOf

\* What is stored is there.
LEMMA CopiesAreThere ==
  ASSUME NEW n, Copies(n) > 0
  PROVE  \E r \in everStored : r.n = n
<1>1. {r \in everStored : r.n = n} # {}
  BY FS_EmptySet DEF Copies
<1>. QED  BY <1>1

\* A set of rows has no more numbers than rows.
LEMMA NumbersOfLogs ==
  ASSUME NEW L, IsFiniteSet(L)
  PROVE  IsFiniteSet({r.n : r \in L}) /\ Cardinality({r.n : r \in L}) <= Cardinality(L)
<1>. DEFINE f == [r \in L |-> r.n]
<1>1. f \in Surjection(L, {r.n : r \in L})
  BY DEF Surjection
<1>. QED  BY <1>1, FS_Surjection

\* An insert of logs with numbers of their own adds to the view no more than to the
\* table.
LEMMA InsertKeepsView ==
  ASSUME ClickHouseInv, NEW R, Distinct(R), Insert(R), Agrees(R), UNCHANGED <<schema, early>>
  PROVE  /\ \A t \in LogTemplates : ViewOf(t)' /\ view'[t] \in Nat
         /\ view' = [t \in LogTemplates |-> view'[t]]
<1>1. IsFiniteSet(everStored) /\ IsFiniteSet(everStored') /\ IsFiniteSet(R)
  BY InsertIsWhole DEF ClickHouseInv, RowsAreCopies, Distinct
<1>2. view \in [LogTemplates -> Nat]
  BY CountsAreNumbers DEF ClickHouseInv, ClickHouseTypeOK
<1>3. view' = [t \in LogTemplates |-> view'[t]]
  BY <1>2 DEF Insert, Count
<1>. SUFFICES ASSUME NEW t \in LogTemplates
              PROVE  ViewOf(t)' /\ view'[t] \in Nat
  BY <1>3
<1>. DEFINE Rows == {r \in everStored : r.template = t}
            Logs == {r \in R : r.template = t}
            Known == {r.n : r \in Rows} \cap acknowledged
            Nums == {r.n : r \in Logs}
<1>4. /\ view[t] \in Nat /\ view[t] <= Cardinality(Rows) /\ Cardinality(Rows) \in Nat
      /\ early => Cardinality(Known) <= view[t]
      /\ \A n \in acknowledged : Copies(n) > 0
  BY <1>2, ViewOfAll, CountsAreNumbers DEF ClickHouseInv, ViewOf
<1>5. /\ IsFiniteSet(Logs) /\ Cardinality(Logs) \in Nat
      /\ IsFiniteSet(Known) /\ Cardinality(Known) \in Nat
      /\ IsFiniteSet(Nums) /\ Cardinality(Nums) \in Nat /\ Cardinality(Nums) <= Cardinality(Logs)
  <2>1. IsFiniteSet(Logs) /\ IsFiniteSet(Rows)
    BY <1>1, FS_Subset
  <2>2. IsFiniteSet({r.n : r \in Rows}) /\ IsFiniteSet(Nums) /\ Cardinality(Nums) <= Cardinality(Logs)
    BY <2>1, NumbersOfLogs
  <2>. HIDE DEF Logs, Rows, Nums
  <2>3. IsFiniteSet(Known)
    BY <2>2, FS_Intersection
  <2>. QED  BY <2>1, <2>2, <2>3, FS_CardinalityType
<1>6. /\ \A n : Copies(n)' >= Copies(n) /\ Copies(n) \in Nat /\ Copies(n)' \in Nat
      /\ Store(R) => \A r \in R : Copies(r.n)' > 0
  <2>1. PICK Q \in SUBSET R : \A n : Copies(n)' = Copies(n) + IF \E r \in Q : r.n = n THEN 1 ELSE 0
    BY InsertIsWhole
  <2>2. \A n : Copies(n)' >= Copies(n) /\ Copies(n) \in Nat /\ Copies(n)' \in Nat
    BY <2>1, CountsAreNumbers
  <2>3. Store(R) => \A r \in R : Copies(r.n)' > 0
    <3>. SUFFICES ASSUME Store(R), NEW r \in R  PROVE Copies(r.n)' > 0
      OBVIOUS
    <3>1. Copies(r.n)' = Copies(r.n) + 1
      BY StoreAdds
    <3>. QED  BY <3>1, <2>2
  <2>. QED  BY <2>2, <2>3
<1>7. \A r \in everStored' : r \in everStored \/ \E q \in R : r.n = q.n /\ r.template = q.template
  BY InsertIsWhole
<1>8. ASSUME NEW r \in everStored', r.template = t, r.n \in acknowledged
      PROVE  r.n \in Known
  <2>1. PICK s \in everStored : s.n = r.n
    BY <1>4, <1>8, CopiesAreThere
  <2>2. s.template = t
    BY <1>7, <1>8, <2>1 DEF Agrees, ClickHouseInv, RowsAreCopies
  <2>. QED  BY <1>8, <2>1, <2>2
<1>9. ASSUME NEW r \in everStored', r.template = t, NEW q \in R, r.n = q.n
      PROVE  r.n \in Nums
  <2>1. q.template = t
    BY <1>7, <1>9 DEF Agrees, Distinct
  <2>. QED  BY <1>9, <2>1
<1>10. UNCHANGED acknowledged => Known' \subseteq Known
  BY <1>8
<1>11. acknowledged' = acknowledged \cup {r.n : r \in R} => Known' \subseteq Known \cup Nums
  BY <1>8, <1>9
<1>12. /\ Cardinality(Known \cup Nums) <= Cardinality(Known) + Cardinality(Logs)
       /\ IsFiniteSet(Known \cup Nums) /\ Cardinality(Known \cup Nums) \in Nat
  <2>. HIDE DEF Known, Nums
  <2>1. /\ IsFiniteSet(Known \cup Nums)
        /\ Cardinality(Known \cup Nums) = Cardinality(Known) + Cardinality(Nums) - Cardinality(Known \cap Nums)
    BY <1>5, FS_Union
  <2>2. Cardinality(Known \cap Nums) \in Nat
    BY <1>5, FS_Intersection, FS_CardinalityType
  <2>. QED  BY <2>1, <2>2, <1>5, FS_CardinalityType
<1>13. /\ UNCHANGED acknowledged => Cardinality(Known') <= Cardinality(Known)
       /\ acknowledged' = acknowledged \cup {r.n : r \in R}
            => Cardinality(Known') <= Cardinality(Known) + Cardinality(Logs)
       /\ Cardinality(Known') \in Nat
  <2>. HIDE DEF Known, Nums
  <2>1. Known' \subseteq Known \cup Nums
    BY <1>10, <1>11 DEF Insert
  <2>2. Cardinality(Known') <= Cardinality(Known \cup Nums) /\ IsFiniteSet(Known')
    BY <2>1, <1>12, FS_Subset
  <2>3. UNCHANGED acknowledged => Cardinality(Known') <= Cardinality(Known)
    BY <1>5, <1>10, FS_Subset
  <2>. QED  BY <1>5, <1>12, <2>2, <2>3, FS_CardinalityType
<1>14. ASSUME Store(R)
       PROVE  Cardinality(Rows') = Cardinality(Rows) + Cardinality(Logs)
  <2>1. \A u : Cardinality({r \in everStored' : r.template = u}) =
               Cardinality({r \in everStored : r.template = u}) + Cardinality({r \in R : r.template = u})
    BY <1>14, StoreAdds
  <2>. QED  BY <2>1
<1>15. /\ Count(R) => view'[t] = view[t] + IF "view" \in schema THEN Cardinality(Logs) ELSE 0
       /\ early => "view" \in schema
  BY <1>2 DEF Count, ClickHouseInv
<1>16. ViewOf(t)' <=> /\ view'[t] <= Cardinality(Rows')
                      /\ \A n \in acknowledged' : Copies(n)' > 0
                      /\ early' => Cardinality(Known') <= view'[t]
  BY DEF ViewOf
<1>. HIDE DEF Rows, Logs, Known, Nums
<1>17. CASE Store(R) /\ Count(R) /\ acknowledged' = acknowledged \cup {r.n : r \in R}
  <2>1. \A n \in acknowledged' : Copies(n)' > 0
    BY <1>17, <1>4, <1>6
  <2>2. view'[t] <= Cardinality(Rows') /\ view'[t] \in Nat
    BY <1>17, <1>14, <1>15, <1>4, <1>5
  <2>3. early' => Cardinality(Known') <= view'[t]
    BY <1>17, <1>13, <1>15, <1>4, <1>5
  <2>. QED  BY <2>1, <2>2, <2>3, <1>16
<1>18. CASE Store(R) /\ UNCHANGED acknowledged /\ Count(R)
  <2>1. \A n \in acknowledged' : Copies(n)' > 0
    BY <1>18, <1>4, <1>6
  <2>2. view'[t] <= Cardinality(Rows') /\ view'[t] \in Nat
    BY <1>18, <1>14, <1>15, <1>4, <1>5
  <2>3. early' => Cardinality(Known') <= view'[t]
    BY <1>18, <1>13, <1>15, <1>4, <1>5
  <2>. QED  BY <2>1, <2>2, <2>3, <1>16
<1>19. CASE UNCHANGED <<view, acknowledged>>
  <2>1. \A n \in acknowledged' : Copies(n)' > 0
    BY <1>19, <1>4, <1>6
  <2>2. view'[t] <= Cardinality(Rows') /\ view'[t] \in Nat
    <3>1. IsFiniteSet(Rows') /\ Rows \subseteq Rows'
      BY InsertIsWhole, FS_Subset DEF Rows
    <3>2. Cardinality(Rows) <= Cardinality(Rows') /\ Cardinality(Rows') \in Nat
      BY <3>1, FS_Subset, FS_CardinalityType
    <3>. QED  BY <1>19, <1>4, <3>2
  <2>3. early' => Cardinality(Known') <= view'[t]
    BY <1>19, <1>13, <1>4, <1>5
  <2>. QED  BY <2>1, <2>2, <2>3, <1>16
<1>. QED  BY <1>17, <1>18, <1>19 DEF Insert

----------------------------------------------------------------------------
(* The steps.                                                              *)

LEMMA ClickHouseInitInv ==
  ASSUME ClickHouseInit
  PROVE  ClickHouseInv
<1>1. \A n : Copies(n) = 0
  <2>1. \A n : {r \in everStored : r.n = n} = {}
    BY DEF ClickHouseInit
  <2>. QED  BY <2>1, FS_EmptySet DEF Copies
<1>2. IsFiniteSet(everStored) /\ Cardinality(everStored) = 0
  BY FS_EmptySet DEF ClickHouseInit
<1>3. ASSUME NEW t \in LogTemplates
      PROVE  ViewOf(t)
  <2>1. {r \in everStored : r.template = t} = {}
    BY DEF ClickHouseInit
  <2>2. view[t] <= Cardinality({r \in everStored : r.template = t})
    BY <2>1, FS_EmptySet DEF ClickHouseInit
  <2>. QED  BY <2>2 DEF ViewOf, ClickHouseInit
<1>4. BatchHasItsNumbers /\ BatchIsAtomic
  BY DEF ClickHouseInit, NoBatch, BatchHasItsNumbers, BatchIsAtomic
<1>5. RowsAreCopies
  BY <1>1, <1>2 DEF ClickHouseInit, RowsAreCopies
<1>6. TableKeepsRows
  BY DEF ClickHouseInit, TableKeepsRows
<1>7. ClickHouseTypeOK
  BY <1>2, ClickHouseAssumption DEF ClickHouseInit, ClickHouseTypeOK, NoBatch
<1>. QED  BY <1>3, <1>4, <1>5, <1>6, <1>7, ViewOfAll, ClickHouseAssumption DEF ClickHouseInit, ClickHouseInv

\* What a step that stores nothing keeps.
LEMMA QuietKeeps ==
  ASSUME ClickHouseInv, UNCHANGED <<everStored, view, acknowledged>>
  PROVE  /\ \A n : Copies(n)' = Copies(n)
         /\ UNCHANGED early => ViewFollowsInserts'
         /\ next' = next /\ UNCHANGED sends => RowsAreCopies'
         /\ next' = next /\ UNCHANGED batch => BatchHasItsNumbers'
         /\ UNCHANGED batch => BatchIsAtomic'
         /\ UNCHANGED <<table, past>> => TableKeepsRows'
<1>1. \A n : Copies(n)' = Copies(n)
  BY DEF Copies
<1>2. ASSUME UNCHANGED early
      PROVE  ViewFollowsInserts'
  BY <1>1, <1>2 DEF ViewFollowsInserts, ClickHouseInv
<1>3. ASSUME next' = next, UNCHANGED sends
      PROVE  RowsAreCopies'
  BY <1>1, <1>3 DEF RowsAreCopies, ClickHouseInv
<1>4. ASSUME next' = next, UNCHANGED batch
      PROVE  BatchHasItsNumbers'
  BY <1>4 DEF BatchHasItsNumbers, ClickHouseInv
<1>5. ASSUME UNCHANGED batch
      PROVE  BatchIsAtomic'
  BY <1>1, <1>5 DEF BatchIsAtomic, ClickHouseInv
<1>6. ASSUME UNCHANGED <<table, past>>
      PROVE  TableKeepsRows'
  BY <1>6 DEF TableKeepsRows, ClickHouseInv
<1>. QED  BY <1>1, <1>2, <1>3, <1>4, <1>5, <1>6

\* The tables come before any row.
LEMMA CreateTablesInv ==
  ASSUME ClickHouseInv, CreateTables
  PROVE  ClickHouseInv'
<1>1. UNCHANGED <<early, batch, table, everStored, view, acknowledged, past, next, sends>>
  BY DEF CreateTables, inserted
<1>2. ClickHouseTypeOK'
  BY <1>1 DEF ClickHouseInv, ClickHouseTypeOK, CreateTables
<1>3. early => "view" \in schema'
  BY DEF ClickHouseInv, CreateTables
<1>. QED  BY <1>1, <1>2, <1>3, QuietKeeps DEF ClickHouseInv

\* A view that is made before the first log is early.
LEMMA CreateViewInv ==
  ASSUME ClickHouseInv, CreateView
  PROVE  ClickHouseInv'
<1>1. UNCHANGED <<batch, table, everStored, view, acknowledged, past, next, sends>>
  BY DEF CreateView, inserted
<1>2. ClickHouseTypeOK'
  BY <1>1 DEF ClickHouseInv, ClickHouseTypeOK, CreateView
<1>3. early' => "view" \in schema'
  BY DEF ClickHouseInv, CreateView
<1>4. ASSUME NEW t \in LogTemplates
      PROVE  ViewOf(t)'
  <2>1. ViewOf(t)
    BY ViewOfAll DEF ClickHouseInv
  <2>2. view[t] \in Nat
    BY CountsAreNumbers DEF ClickHouseInv, ClickHouseTypeOK
  <2>3. ASSUME early'
        PROVE  Cardinality({r.n : r \in {r \in everStored : r.template = t}} \cap acknowledged) <= view[t]
    <3>1. {r.n : r \in {r \in everStored : r.template = t}} \cap acknowledged = {}
      BY <2>3 DEF CreateView
    <3>. QED  BY <2>2, <3>1, FS_EmptySet
  <2>4. /\ view'[t] <= Cardinality({r \in everStored' : r.template = t})
        /\ \A n \in acknowledged' : Copies(n)' > 0
    BY <1>1, <2>1, QuietKeeps DEF ViewOf
  <2>. QED  BY <1>1, <2>3, <2>4 DEF ViewOf
<1>5. ViewFollowsInserts'
  BY <1>4 DEF ViewFollowsInserts, ViewOf
<1>. QED  BY <1>1, <1>2, <1>3, <1>5, QuietKeeps DEF ClickHouseInv

BatchType ==
  [pc : {"none", "appending", "failed", "sent"}, appended : 0..BatchSize,
   logs : Seq([n : Nat, template : LogTemplates, time : Times])]

\* The type of what an insert leaves.
LEMMA InsertKeepsTypes ==
  ASSUME ClickHouseInv, NEW R, Distinct(R), Insert(R), Agrees(R),
         next' \in 1..(MaxLogs + 1), next <= next', UNCHANGED <<schema, early, past>>,
         \A r \in R : r.n \in 1..(next' - 1) /\ r.template \in LogTemplates,
         batch' \in BatchType
  PROVE  /\ ClickHouseTypeOK' /\ RowsAreCopies' /\ ViewFollowsInserts' /\ TableKeepsRows'
         /\ next' \in 1..(MaxLogs + 1) /\ sends' \in 0..MaxSends
         /\ early' => "view" \in schema'
<1>0. next' \in Nat
  BY ClickHouseAssumption
<1>1. /\ RowsAreCopies' /\ sends' \in 0..MaxSends
      /\ \A r \in everStored' : r.n \in 1..(next' - 1) /\ r.template \in LogTemplates /\ r.copy \in 0..MaxSends
  BY <1>0, InsertKeepsCopies
<1>2. /\ \A t \in LogTemplates : ViewOf(t)' /\ view'[t] \in Nat
      /\ view' = [t \in LogTemplates |-> view'[t]]
  BY InsertKeepsView
<1>3. ViewFollowsInserts'
  BY <1>2 DEF ViewFollowsInserts, ViewOf
<1>4. ASSUME NEW t \in LogTemplates
      PROVE  view'[t] \in 0..Cardinality(everStored')
  <2>1. IsFiniteSet(everStored')
    BY <1>1 DEF RowsAreCopies
  <2>2. /\ Cardinality({r \in everStored' : r.template = t}) <= Cardinality(everStored')
        /\ Cardinality({r \in everStored' : r.template = t}) \in Nat /\ Cardinality(everStored') \in Nat
    BY <2>1, FS_Subset, FS_CardinalityType
  <2>3. view'[t] <= Cardinality({r \in everStored' : r.template = t}) /\ view'[t] \in Nat
    BY <1>2 DEF ViewOf
  <2>. QED  BY <2>2, <2>3
<1>5. ClickHouseTypeOK'
  BY <1>1, <1>2, <1>4 DEF ClickHouseTypeOK, ClickHouseInv, BatchType
<1>6. TableKeepsRows'
  BY InsertIsWhole
<1>. QED  BY <1>1, <1>3, <1>5, <1>6 DEF ClickHouseInv

\* A log has a number nobody used.
LEMMA InsertLogInv ==
  ASSUME ClickHouseInv, InsertLog
  PROVE  ClickHouseInv'
<1>1. PICK log \in NewLog(next) : Insert({log})
  BY DEF InsertLog
<1>2. log.n = next /\ log.template \in LogTemplates
  BY DEF NewLog
<1>3. /\ next \in 1..MaxLogs /\ next' = next + 1
      /\ UNCHANGED <<schema, early, batch, past>>
  BY ClickHouseAssumption DEF InsertLog, ClickHouseInv
<1>. DEFINE R == {log}
<1>4. Distinct(R)
  BY FS_Singleton DEF Distinct
<1>5. \A r \in everStored : r.n \in 1..(next - 1)
  BY DEF ClickHouseInv, ClickHouseTypeOK
<1>6. Agrees(R)
  BY <1>2, <1>3, <1>5 DEF Agrees
<1>7. \A r \in R : r.n \in 1..(next' - 1) /\ r.template \in LogTemplates
  BY <1>2, <1>3
<1>8. batch' \in BatchType
  BY <1>3 DEF ClickHouseInv, ClickHouseTypeOK, BatchType
<1>9. Insert(R) /\ next' \in 1..(MaxLogs + 1) /\ next <= next'
  BY <1>1, <1>3, ClickHouseAssumption
<1>10. /\ \E Q \in SUBSET R : \A n : Copies(n)' = Copies(n) + IF \E r \in Q : r.n = n THEN 1 ELSE 0
       /\ \A s \in everStored' : s \in everStored \/ \E r \in R : s.n = r.n /\ s.template = r.template
  BY <1>4, <1>9, InsertIsWhole
<1>11. \A i \in DOMAIN batch.logs : batch.logs[i].n \in 1..(next - 1)
  BY DEF ClickHouseInv, BatchHasItsNumbers
<1>12. BatchHasItsNumbers'
  <2>1. \A i \in DOMAIN batch.logs, s \in everStored' : s.n = batch.logs[i].n => s \in everStored
    BY <1>2, <1>3, <1>10, <1>11
  <2>2. BatchHasItsNumbers
    BY DEF ClickHouseInv
  <2>3. \A i \in DOMAIN batch.logs : batch.logs[i].n \in 1..(next' - 1)
    BY <1>3, <1>11
  <2>. QED  BY <1>3, <2>1, <2>2, <2>3 DEF BatchHasItsNumbers
<1>13. BatchIsAtomic'
  <2>1. \A i \in DOMAIN batch.logs : Copies(batch.logs[i].n)' = Copies(batch.logs[i].n)
    BY <1>2, <1>3, <1>10, <1>11, CountsAreNumbers
  <2>. QED  BY <1>3, <2>1 DEF BatchIsAtomic, ClickHouseInv
<1>. HIDE DEF R
<1>. QED  BY <1>3, <1>4, <1>6, <1>7, <1>8, <1>9, <1>12, <1>13, InsertKeepsTypes DEF ClickHouseInv

\* Send inserts the logs of the batch, all of them.
LEMMA SendInv ==
  ASSUME ClickHouseInv, SendBatch
  PROVE  ClickHouseInv'
<1>. DEFINE R == BatchRows(BatchSize)
<1>1. /\ Insert(R) /\ batch.pc = "appending"
      /\ batch' = [batch EXCEPT !.pc = "sent"]
      /\ UNCHANGED <<schema, early, past, next>>
  BY DEF SendBatch
<1>2. /\ DOMAIN batch.logs = 1..BatchSize
      /\ \A i, j \in 1..BatchSize : batch.logs[i].n = batch.logs[j].n => i = j
      /\ \A i \in 1..BatchSize :
           /\ batch.logs[i].n \in 1..(next - 1) /\ batch.logs[i].template \in LogTemplates
           /\ \A r \in everStored : r.n = batch.logs[i].n => r.template = batch.logs[i].template
  BY <1>1 DEF ClickHouseInv, BatchHasItsNumbers
<1>3. Distinct(R)
  <2>1. [i \in 1..BatchSize |-> batch.logs[i]] \in Surjection(1..BatchSize, R)
    BY DEF Surjection, BatchRows
  <2>2. IsFiniteSet(R)
    BY <2>1, FS_Surjection, FS_Interval, ClickHouseAssumption
  <2>. QED  BY <1>2, <2>2 DEF Distinct, BatchRows
<1>4. Agrees(R)
  BY <1>2 DEF Agrees, BatchRows
<1>5. next' \in 1..(MaxLogs + 1) /\ next <= next'
  BY <1>1, ClickHouseAssumption DEF ClickHouseInv
<1>6. \A r \in R : r.n \in 1..(next' - 1) /\ r.template \in LogTemplates
  BY <1>1, <1>2 DEF BatchRows
<1>7. batch' \in BatchType /\ batch'.pc # "none" /\ batch'.logs = batch.logs
  <2>1. batch \in BatchType
    BY DEF ClickHouseInv, ClickHouseTypeOK, BatchType
  <2>. QED  BY <1>1, <2>1 DEF BatchType
<1>8. /\ \E Q \in SUBSET R :
             WholeMonths(Q, R) /\ \A n : Copies(n)' = Copies(n) + IF \E r \in Q : r.n = n THEN 1 ELSE 0
      /\ \A s \in everStored' : s \in everStored \/ \E r \in R : s.n = r.n /\ s.template = r.template
  BY <1>1, <1>3, InsertIsWhole
<1>9. BatchHasItsNumbers'
  <2>1. \A i \in 1..BatchSize, s \in everStored' :
          s.n = batch.logs[i].n => s.template = batch.logs[i].template
    BY <1>2, <1>8 DEF BatchRows
  <2>2. DOMAIN batch'.logs = 1..BatchSize
    BY <1>2, <1>7
  <2>3. \A i \in 1..BatchSize : batch.logs[i].n \in 1..(next' - 1)
    BY <1>1, <1>2
  <2>4. \A i, j \in DOMAIN batch'.logs : batch'.logs[i].n = batch'.logs[j].n => i = j
    BY <1>2, <1>7
  <2>. QED  BY <1>2, <1>7, <2>1, <2>2, <2>3, <2>4 DEF BatchHasItsNumbers
<1>10. BatchIsAtomic'
  <2>1. PICK Q \in SUBSET R :
          WholeMonths(Q, R) /\ \A n : Copies(n)' = Copies(n) + IF \E r \in Q : r.n = n THEN 1 ELSE 0
    BY <1>8
  <2>. SUFFICES ASSUME NEW i \in 1..BatchSize, NEW j \in 1..BatchSize,
                       Month[batch.logs[i].time] = Month[batch.logs[j].time]
                PROVE  Copies(batch.logs[i].n)' = Copies(batch.logs[j].n)'
    BY <1>2, <1>7 DEF BatchIsAtomic
  <2>2. batch.logs[i] \in R /\ batch.logs[j] \in R
    BY DEF BatchRows
  <2>3. batch.logs[i] \in Q <=> batch.logs[j] \in Q
    BY <2>1, <2>2 DEF WholeMonths
  <2>4. /\ (\E r \in Q : r.n = batch.logs[i].n) <=> batch.logs[i] \in Q
        /\ (\E r \in Q : r.n = batch.logs[j].n) <=> batch.logs[j] \in Q
    BY <1>3, <2>2 DEF Distinct
  <2>5. Copies(batch.logs[i].n) = Copies(batch.logs[j].n)
    BY <1>2 DEF ClickHouseInv, BatchIsAtomic
  <2>6. \A n : Cardinality({r \in everStored' : r.n = n}) = Copies(n) + IF \E r \in Q : r.n = n THEN 1 ELSE 0
    BY <2>1 DEF Copies
  <2>7. Copies(batch.logs[i].n)' = Copies(batch.logs[i].n) + IF batch.logs[i] \in Q THEN 1 ELSE 0
    <3>1. Cardinality({r \in everStored' : r.n = batch.logs[i].n})
            = Copies(batch.logs[i].n) + IF batch.logs[i] \in Q THEN 1 ELSE 0
      BY <2>4, <2>6
    <3>. QED  BY <1>7, <3>1 DEF Copies
  <2>8. Copies(batch.logs[j].n)' = Copies(batch.logs[j].n) + IF batch.logs[j] \in Q THEN 1 ELSE 0
    <3>1. Cardinality({r \in everStored' : r.n = batch.logs[j].n})
            = Copies(batch.logs[j].n) + IF batch.logs[j] \in Q THEN 1 ELSE 0
      BY <2>4, <2>6
    <3>. QED  BY <1>7, <3>1 DEF Copies
  <2>. QED  BY <2>3, <2>5, <2>7, <2>8
<1>. HIDE DEF R
<1>. QED  BY <1>1, <1>3, <1>4, <1>5, <1>6, <1>7, <1>9, <1>10, InsertKeepsTypes DEF ClickHouseInv

LEMMA TuplesAreSequences ==
  ASSUME NEW S, NEW n \in Nat
  PROVE  [1..n -> S] \subseteq Seq(S)
OBVIOUS

\* The logs of a new batch get numbers under which nothing is stored.
LEMMA PrepareBatchInv ==
  ASSUME ClickHouseInv, PrepareBatch
  PROVE  ClickHouseInv'
<1>1. PICK logs \in [1..BatchSize -> [template : LogTemplates, time : Times]] :
        batch' = [pc |-> "appending", appended |-> 0,
                  logs |-> [i \in 1..BatchSize |-> [n |-> next + i - 1, template |-> logs[i].template,
                                                    time |-> logs[i].time]]]
  BY DEF PrepareBatch
<1>2. UNCHANGED <<schema, early, table, everStored, view, acknowledged, past, sends>>
  BY DEF PrepareBatch, inserted
<1>3. next \in Nat \ {0} /\ BatchSize \in Nat /\ next' = next + BatchSize /\ next' \in 1..(MaxLogs + 1)
  BY ClickHouseAssumption DEF PrepareBatch, ClickHouseInv
<1>4. /\ DOMAIN batch'.logs = 1..BatchSize /\ batch'.pc = "appending" /\ batch'.appended = 0
      /\ \A i \in 1..BatchSize : batch'.logs[i].n = next + i - 1 /\ batch'.logs[i].template \in LogTemplates
  BY <1>1
<1>5. \A r \in everStored : r.n \in 1..(next - 1)
  BY DEF ClickHouseInv, ClickHouseTypeOK
<1>6. BatchHasItsNumbers'
  <2>1. \A i \in 1..BatchSize : next + i - 1 \in next..(next' - 1)
    BY <1>3
  <2>2. \A i, j \in 1..BatchSize : next + i - 1 = next + j - 1 => i = j
    BY <1>3
  <2>3. \A i \in 1..BatchSize, r \in everStored : r.n # next + i - 1
    BY <1>3, <1>5
  <2>4. \A i, j \in DOMAIN batch'.logs : batch'.logs[i].n = batch'.logs[j].n => i = j
    BY <1>4, <2>2
  <2>5. \A i \in DOMAIN batch'.logs : batch'.logs[i].n \in 1..(next' - 1)
    <3>1. next' - 1 \in Int /\ \A i \in 1..BatchSize : next + i - 1 \in 1..(next' - 1)
      BY <1>3
    <3>. QED  BY <1>4, <3>1
  <2>6. \A i \in DOMAIN batch'.logs, r \in everStored' : r.n # batch'.logs[i].n
    BY <1>2, <1>4, <2>3
  <2>7. DOMAIN batch'.logs = IF batch'.pc = "none" THEN {} ELSE 1..BatchSize
    BY <1>4
  <2>. QED  BY <1>4, <2>4, <2>5, <2>6, <2>7 DEF BatchHasItsNumbers
<1>7. \A n : Copies(n)' = Copies(n)
  BY <1>2, QuietKeeps
<1>8. BatchIsAtomic'
  <2>1. \A i \in 1..BatchSize : Copies(next + i - 1) = 0
    BY <1>3, CountsAreNumbers
  <2>. QED  BY <1>4, <1>7, <2>1 DEF BatchIsAtomic
<1>9. RowsAreCopies'
  <2>1. \A n \in 1..(next' - 1) : Copies(n) <= sends
    BY <1>3, CountsAreNumbers DEF ClickHouseInv, RowsAreCopies
  <2>2. \A n \in 1..(next' - 1) : Copies(n)' <= sends'
    BY <1>2, <1>7, <2>1
  <2>. QED  BY <1>2, <1>7, <2>2 DEF ClickHouseInv, RowsAreCopies
<1>10. ClickHouseTypeOK'
  <2>1. \A r \in everStored' : r.n \in 1..(next' - 1)
    BY <1>2, <1>3, <1>5
  <2>2. batch'.logs \in Seq([n : Nat, template : LogTemplates, time : Times])
    <3>. DEFINE log(i) == [n |-> next + i - 1, template |-> logs[i].template, time |-> logs[i].time]
    <3>1. \A i \in 1..BatchSize : log(i) \in [n : Nat, template : LogTemplates, time : Times]
      BY <1>3
    <3>2. batch'.logs = [i \in 1..BatchSize |-> log(i)]
      BY <1>1
    <3>. HIDE DEF log
    <3>3. batch'.logs \in [1..BatchSize -> [n : Nat, template : LogTemplates, time : Times]]
      BY <3>1, <3>2
    <3>. QED  BY <1>3, <3>3, TuplesAreSequences
  <2>3. batch' \in BatchType
    BY <1>1, <1>3, <2>2 DEF BatchType
  <2>. QED  BY <1>2, <2>1, <2>3 DEF ClickHouseInv, ClickHouseTypeOK, BatchType
<1>. QED  BY <1>2, <1>3, <1>6, <1>8, <1>9, <1>10, QuietKeeps DEF ClickHouseInv

\* Appending to a block and starting over store nothing.
LEMMA FillInv ==
  ASSUME ClickHouseInv, AppendRow \/ Retry
  PROVE  ClickHouseInv'
<1>1. UNCHANGED <<schema, early, table, everStored, view, acknowledged, past, next, sends>>
  BY DEF AppendRow, Retry, inserted
<1>2. /\ batch'.logs = batch.logs /\ batch.pc # "none" /\ batch'.pc # "none"
      /\ batch' \in BatchType
  <2>1. batch \in BatchType
    BY DEF ClickHouseInv, ClickHouseTypeOK, BatchType
  <2>2. CASE AppendRow
    <3>1. batch.appended + 1 \in 0..BatchSize
      BY <2>1, <2>2, ClickHouseAssumption DEF AppendRow, BatchType
    <3>2. /\ batch.pc = "appending"
          /\ batch' = [batch EXCEPT !.appended = batch.appended + 1] \/ batch' = [batch EXCEPT !.pc = "failed"]
      BY <2>2 DEF AppendRow
    <3>. QED  BY <2>1, <3>1, <3>2 DEF BatchType
  <2>3. CASE Retry
    <3>1. batch.pc # "none" /\ batch' = [batch EXCEPT !.pc = "appending", !.appended = 0]
      BY <2>3 DEF Retry
    <3>2. 0 \in 0..BatchSize
      BY ClickHouseAssumption
    <3>. QED  BY <2>1, <3>1, <3>2 DEF BatchType
  <2>. QED  BY <2>2, <2>3
<1>3. ClickHouseTypeOK'
  BY <1>1, <1>2 DEF ClickHouseInv, ClickHouseTypeOK, BatchType
<1>4. BatchHasItsNumbers'
  BY <1>1, <1>2 DEF ClickHouseInv, BatchHasItsNumbers
<1>5. \A n : Copies(n)' = Copies(n)
  BY <1>1, QuietKeeps
<1>6. BatchIsAtomic'
  BY <1>2, <1>5 DEF ClickHouseInv, BatchIsAtomic
<1>. QED  BY <1>1, <1>3, <1>4, <1>6, QuietKeeps DEF ClickHouseInv

\* What leaves the table is past its time, and stays so.
LEMMA ExpiryInv ==
  ASSUME ClickHouseInv, TimePasses \/ ExpireRows
  PROVE  ClickHouseInv'
<1>1. UNCHANGED <<schema, early, batch, everStored, view, acknowledged, next, sends>>
  BY DEF TimePasses, ExpireRows, inserted
<1>2. past' \subseteq Times /\ TableKeepsRows'
  <2>1. past \subseteq Times /\ table \subseteq everStored /\ \A r \in everStored \ table : r.time \in past
    BY DEF ClickHouseInv, ClickHouseTypeOK, TableKeepsRows
  <2>2. CASE TimePasses
    <3>1. PICK time \in Times : past' = past \cup {time}
      BY <2>2 DEF TimePasses
    <3>2. UNCHANGED <<table, everStored>>
      BY <2>2 DEF TimePasses, inserted
    <3>. QED  BY <2>1, <3>1, <3>2 DEF TableKeepsRows
  <2>3. CASE ExpireRows
    <3>1. PICK row \in table : row.time \in past /\ table' = table \ {row}
      BY <2>3 DEF ExpireRows
    <3>2. UNCHANGED <<past, everStored>>
      BY <2>3 DEF ExpireRows
    <3>. QED  BY <2>1, <3>1, <3>2 DEF TableKeepsRows
  <2>. QED  BY <2>2, <2>3
<1>3. ClickHouseTypeOK'
  BY <1>1, <1>2 DEF ClickHouseInv, ClickHouseTypeOK
<1>. QED  BY <1>1, <1>2, <1>3, QuietKeeps DEF ClickHouseInv

\* Every step keeps the invariant.
LEMMA ClickHouseNextInv ==
  ASSUME ClickHouseInv, [ClickHouseNext]_clickHouseVars
  PROVE  ClickHouseInv'
<1>1. CASE UNCHANGED clickHouseVars
  <2>1. ClickHouseTypeOK' /\ (early' => "view" \in schema')
    BY <1>1 DEF clickHouseVars, inserted, ClickHouseInv, ClickHouseTypeOK
  <2>. QED  BY <1>1, <2>1, QuietKeeps DEF clickHouseVars, inserted, ClickHouseInv
<1>. QED  BY <1>1, CreateTablesInv, CreateViewInv, InsertLogInv, PrepareBatchInv, FillInv, SendInv,
             ExpiryInv DEF ClickHouseNext

----------------------------------------------------------------------------
(* The theorems about ClickHouseClient.                                    *)

\* The inductive invariant holds, whatever the size of batches and pages, the templates
\* and the bounds are.
THEOREM ClickHouseInvariance == ClickHouseSpec => []ClickHouseInv
<1>1. ClickHouseInit => ClickHouseInv
  BY ClickHouseInitInv
<1>2. ClickHouseInv /\ [ClickHouseNext]_clickHouseVars => ClickHouseInv'
  BY ClickHouseNextInv
<1>. QED  BY <1>1, <1>2, PTL DEF ClickHouseSpec

\* The logs of a batch that fall into one month, a partition of the table, are stored all
\* or none, as often as the sends succeeded for it: rows that were refused halfway, lost
\* answers and retries notwithstanding.
THEOREM BatchesAreAtomic == ClickHouseSpec => []BatchIsAtomic
<1>1. ClickHouseInv => BatchIsAtomic
  BY DEF ClickHouseInv
<1>. QED  BY <1>1, ClickHouseInvariance, PTL

\* The view counts nothing that was not inserted, duplicates included, and one that
\* CreateView made before the first log counts every log that was answered.
THEOREM ViewIsFaithful == ClickHouseSpec => []ViewFollowsInserts
<1>1. ClickHouseInv => ViewFollowsInserts
  BY DEF ClickHouseInv
<1>. QED  BY <1>1, ClickHouseInvariance, PTL

\* Of n rows or fewer, a selection that is not all of them is the newest.
LEMMA SelectionIsNewest ==
  ASSUME ClickHouseInv, NEW template, NEW from, NEW n \in Nat,
         NEW found \in FilterThenLimit(template, from, n),
         NEW r \in table, Selected(r, template, from), r \notin found
  PROVE  Cardinality(found) = n /\ \A s \in found : s.time >= r.time
<1>. DEFINE S == {x \in table : Selected(x, template, from)}
<1>1. /\ found \in SUBSET S
      /\ Cardinality(found) = IF Cardinality(S) < n THEN Cardinality(S) ELSE n
      /\ \A x \in found, s \in S \ found : x.time >= s.time
  BY DEF FilterThenLimit, Newest
<1>2. r \in S
  OBVIOUS
<1>3. IsFiniteSet(S)
  <2>1. IsFiniteSet(everStored) /\ S \subseteq everStored
    BY DEF ClickHouseInv, RowsAreCopies, TableKeepsRows
  <2>. QED  BY <2>1, FS_Subset
<1>. HIDE DEF S
<1>4. Cardinality(found) # Cardinality(S)
  BY <1>1, <1>2, <1>3, FS_Subset
<1>. QED  BY <1>1, <1>2, <1>4

\* QueryLogs shows every log of its filter whose insert was answered and whose 90 days are
\* not over, unless the answer is full or was cut: then it shows logs at least as new.
THEOREM QueriesShowAnswered == ClickHouseSpec => []AnsweredIsThere
<1>1. ClickHouseInv => AnsweredIsThere
  <2>. SUFFICES ASSUME ClickHouseInv,
                       NEW template \in LogTemplates \cup {"any"}, NEW from \in Times,
                       NEW answer \in QueryLogs(template, from),
                       NEW r \in everStored, r.n \in acknowledged, r.time \notin past,
                       Selected(r, template, from),
                       ~\E s \in answer.rows : s.n = r.n
                PROVE  /\ answer.cut \/ Cardinality(answer.rows) = QueryLimit
                       /\ \A s \in answer.rows : s.time >= r.time
    BY DEF AnsweredIsThere
  <2>1. r \in table /\ r \notin answer.rows
    BY DEF ClickHouseInv, TableKeepsRows
  <2>2. PICK n \in 0..QueryLimit :
          answer.rows \in FilterThenLimit(template, from, n) /\ (n = QueryLimit \/ answer.cut)
    <3>1. QueryLimit \in 0..QueryLimit /\ \A n \in 0..(QueryLimit - 1) : n \in 0..QueryLimit
      BY ClickHouseAssumption
    <3>2. CASE answer \in [rows : FilterThenLimit(template, from, QueryLimit), cut : {FALSE}]
      BY <3>1, <3>2, Zenon
    <3>3. CASE \E n \in 0..(QueryLimit - 1) : answer \in [rows : FilterThenLimit(template, from, n), cut : {TRUE}]
      <4>1. PICK n \in 0..(QueryLimit - 1) : answer \in [rows : FilterThenLimit(template, from, n), cut : {TRUE}]
        BY <3>3
      <4>2. answer.rows \in FilterThenLimit(template, from, n) /\ answer.cut
        BY <4>1
      <4>. QED  BY <3>1, <4>2, Zenon
    <3>. QED  BY <3>2, <3>3, Zenon DEF QueryLogs
  <2>3. n \in Nat
    BY ClickHouseAssumption
  <2>. QED  BY <2>1, <2>2, <2>3, SelectionIsNewest
<1>. QED  BY <1>1, ClickHouseInvariance, PTL
==============================================================================
