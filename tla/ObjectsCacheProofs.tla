-------------------------- MODULE ObjectsCacheProofs --------------------------
(***************************************************************************)
(* Theorems of ObjectsCache, for any keys, goroutines, values, retention   *)
(* and latency, and for a clock that may run for any length of time.       *)
(***************************************************************************)
EXTENDS ObjectsCache, TLAPS

\* An answer on its way is no older than the latency allows, and if it is wrong by now the
\* platform changed after it was read.
AnswersOnTheWay ==
  \A w \in Worker : call[w].pc = "store" =>
    /\ call[w].readAt <= now
    /\ now - call[w].readAt <= MaxLatency
    /\ call[w].data # platform[call[w].key] => call[w].readAt <= changedAt[call[w].key]

IInv == TypeOK /\ AnswersOnTheWay /\ EntriesExpireInTime

-----------------------------------------------------------------------------

CallType ==
  {NoCall} \union [pc : {"fetch"}, key : Key]
    \union [pc : {"store"}, key : Key, data : Data, readAt : 0..MaxTime]
    \union [pc : {"return"}, key : Key, data : Data]

Entry == [data : Data, expiresAt : 0..now + Retention]

\* What a goroutine that fetches or is about to store holds.
LEMMA CallShape ==
  ASSUME TypeOK, NEW w \in Worker
  PROVE  /\ call[w].pc = "fetch" => call[w].key \in Key
         /\ call[w].pc = "store" => /\ call[w].key \in Key /\ call[w].data \in Data
                                    /\ call[w].readAt \in 0..MaxTime
<1>1. call[w] \in CallType
  BY DEF TypeOK, CallType
<1> QED
  BY <1>1 DEF CallType, NoCall

\* An entry that is there is one of the cache's entries.
LEMMA EntryShape ==
  ASSUME TypeOK, NEW k \in Key, cache[k] # NoEntry
  PROVE  cache[k].data \in Data /\ cache[k].expiresAt \in Int /\ cache[k].expiresAt <= now + Retention
<1>1. cache[k] \in Entry
  BY DEF TypeOK, Entry
<1> QED
  BY <1>1, CacheAssumption DEF Entry, TypeOK

LEMMA InitIInv == Init => IInv
<1> SUFFICES ASSUME Init PROVE IInv
  OBVIOUS
<1>1. TypeOK
  BY CacheAssumption DEF Init, TypeOK
<1> QED
  BY <1>1 DEF Init, IInv, AnswersOnTheWay, EntriesExpireInTime, NoCall

-----------------------------------------------------------------------------
(* The steps of a goroutine: the clock and the platform stand still.        *)

\* A call that does not become a store leaves the answers on the way as they are.
LEMMA OneCallChanges ==
  ASSUME IInv, NEW w \in Worker, NEW new \in CallType, new.pc # "store",
         call' = [call EXCEPT ![w] = new], UNCHANGED <<now, platform, changedAt>>
  PROVE  /\ AnswersOnTheWay'
         /\ call' \in [Worker -> CallType]
<1>1. call' \in [Worker -> CallType]
  BY DEF IInv, TypeOK, CallType
<1>2. ASSUME NEW v \in Worker, call'[v].pc = "store"
      PROVE  v # w /\ call'[v] = call[v]
  BY <1>2 DEF IInv, TypeOK
<1>3. AnswersOnTheWay'
  BY <1>2 DEF IInv, AnswersOnTheWay
<1> QED
  BY <1>1, <1>3

LEMMA LookupStep ==
  ASSUME IInv, NEW w \in Worker, NEW k \in Key, Lookup(w, k)
  PROVE  IInv'
<1> DEFINE new == IF Hit(k) THEN [pc |-> "return", key |-> k, data |-> cache[k].data]
                  ELSE [pc |-> "fetch", key |-> k]
<1>1. call' = [call EXCEPT ![w] = new] /\ UNCHANGED <<now, platform, changedAt, cache>>
  BY DEF Lookup
<1>2. new \in CallType /\ new.pc # "store"
  <2>1. CASE Hit(k)
    <3>1. cache[k].data \in Data
      BY <2>1, EntryShape DEF Hit, IInv
    <3> QED
      BY <2>1, <3>1 DEF CallType
  <2>2. CASE ~Hit(k)
    BY <2>2 DEF CallType
  <2> QED
    BY <2>1, <2>2
<1> HIDE DEF new
<1>3. AnswersOnTheWay' /\ call' \in [Worker -> CallType]
  BY <1>1, <1>2, OneCallChanges
<1>4. TypeOK' /\ EntriesExpireInTime'
  BY <1>1, <1>3 DEF IInv, TypeOK, CallType, EntriesExpireInTime
<1> QED
  BY <1>3, <1>4 DEF IInv

LEMMA AnswerStep ==
  ASSUME IInv, NEW w \in Worker, Answer(w)
  PROVE  IInv'
<1> DEFINE k == call[w].key
           new == [pc |-> "store", key |-> k, data |-> platform[k], readAt |-> now]
<1>1. call' = [call EXCEPT ![w] = new] /\ UNCHANGED <<now, platform, changedAt, cache>>
  BY DEF Answer
<1>2. k \in Key
  BY CallShape DEF Answer, IInv
<1>3. new \in CallType
  BY <1>2 DEF IInv, TypeOK, CallType
<1>4. call' \in [Worker -> CallType]
  BY <1>1, <1>3 DEF IInv, TypeOK, CallType
<1>5. TypeOK' /\ EntriesExpireInTime'
  BY <1>1, <1>4 DEF IInv, TypeOK, CallType, EntriesExpireInTime
<1>6. ASSUME NEW v \in Worker, call'[v].pc = "store"
      PROVE  /\ call'[v].readAt <= now
             /\ now - call'[v].readAt <= MaxLatency
             /\ call'[v].data # platform[call'[v].key] => call'[v].readAt <= changedAt[call'[v].key]
  <2>1. CASE v = w
    <3>1. call'[v] = new
      BY <1>1, <2>1 DEF IInv, TypeOK
    <3>2. now \in Int
      BY CacheAssumption DEF IInv, TypeOK
    <3> QED
      BY <3>1, <3>2, CacheAssumption
  <2>2. CASE v # w
    <3>1. call'[v] = call[v]
      BY <1>1, <2>2 DEF IInv, TypeOK
    <3> QED
      BY <1>6, <3>1 DEF IInv, AnswersOnTheWay
  <2> QED
    BY <2>1, <2>2
<1>7. AnswersOnTheWay'
  BY <1>1, <1>6 DEF AnswersOnTheWay
<1> QED
  BY <1>5, <1>7 DEF IInv

\* Fail and Return: the call is over.
LEMMA EndStep ==
  ASSUME IInv, NEW w \in Worker, Fail(w) \/ Return(w)
  PROVE  IInv'
<1>1. call' = [call EXCEPT ![w] = NoCall] /\ UNCHANGED <<now, platform, changedAt, cache>>
  BY DEF Fail, Return
<1>2. NoCall \in CallType /\ NoCall.pc # "store"
  BY DEF CallType, NoCall
<1>3. AnswersOnTheWay' /\ call' \in [Worker -> CallType]
  BY <1>1, <1>2, OneCallChanges
<1>4. TypeOK' /\ EntriesExpireInTime'
  BY <1>1, <1>3 DEF IInv, TypeOK, CallType, EntriesExpireInTime
<1> QED
  BY <1>3, <1>4 DEF IInv

LEMMA StoreStep ==
  ASSUME IInv, NEW w \in Worker, Store(w)
  PROVE  IInv'
<1> DEFINE k == call[w].key
           entry == [data |-> call[w].data, expiresAt |-> now + Retention]
           new == [pc |-> "return", key |-> k, data |-> call[w].data]
<1>1. /\ call' = [call EXCEPT ![w] = new]
      /\ cache' = [cache EXCEPT ![k] = entry]
      /\ UNCHANGED <<now, platform, changedAt>>
      /\ call[w].pc = "store"
  BY DEF Store
<1>2. k \in Key /\ call[w].data \in Data /\ call[w].readAt \in Int
  BY <1>1, CallShape, CacheAssumption DEF IInv
<1>3. new \in CallType /\ new.pc # "store"
  BY <1>2 DEF CallType
<1>4. now \in Nat /\ now + Retention \in 0..now + Retention /\ changedAt[k] \in Int
  BY <1>2, CacheAssumption DEF IInv, TypeOK
<1>5. entry \in Entry
  BY <1>2, <1>4 DEF Entry
<1>6. entry.data # platform[k] => entry.expiresAt <= changedAt[k] + StalenessBound
  BY <1>1, <1>2, <1>4, CacheAssumption DEF IInv, AnswersOnTheWay, StalenessBound
<1> HIDE DEF new, entry, k
<1>7. AnswersOnTheWay' /\ call' \in [Worker -> CallType]
  BY <1>1, <1>3, OneCallChanges
<1>8. cache' \in [Key -> {NoEntry} \union Entry]
  BY <1>1, <1>5 DEF IInv, TypeOK, Entry
<1>9. TypeOK'
  BY <1>1, <1>7, <1>8 DEF IInv, TypeOK, CallType, Entry
<1>10. ASSUME NEW j \in Key, cache'[j] # NoEntry, cache'[j].data # platform[j]
       PROVE  cache'[j].expiresAt <= changedAt[j] + StalenessBound
  <2>1. CASE j = k
    BY <1>1, <1>2, <1>6, <1>10, <2>1 DEF IInv, TypeOK
  <2>2. CASE j # k
    BY <1>1, <1>10, <2>2 DEF IInv, TypeOK, EntriesExpireInTime
  <2> QED
    BY <2>1, <2>2
<1>11. EntriesExpireInTime'
  BY <1>1, <1>10 DEF EntriesExpireInTime, StalenessBound
<1> QED
  BY <1>7, <1>9, <1>11 DEF IInv

-----------------------------------------------------------------------------
(* The steps of the world: the platform changes, time passes.              *)

LEMMA ChangeStep ==
  ASSUME IInv, NEW k \in Key, NEW d \in Data, Change(k, d)
  PROVE  IInv'
<1>1. /\ platform' = [platform EXCEPT ![k] = d]
      /\ changedAt' = [changedAt EXCEPT ![k] = now]
      /\ UNCHANGED <<now, cache, call>>
  BY DEF Change
<1>2. TypeOK'
  BY <1>1 DEF IInv, TypeOK
<1>3. \A j \in Key : j # k => platform'[j] = platform[j] /\ changedAt'[j] = changedAt[j]
  BY <1>1 DEF IInv, TypeOK
<1>4. changedAt'[k] = now
  BY <1>1 DEF IInv, TypeOK
<1>5. AnswersOnTheWay'
  <2> SUFFICES ASSUME NEW w \in Worker, call[w].pc = "store"
               PROVE  /\ call[w].readAt <= now
                      /\ now - call[w].readAt <= MaxLatency
                      /\ call[w].data # platform'[call[w].key] => call[w].readAt <= changedAt'[call[w].key]
    BY <1>1 DEF AnswersOnTheWay
  <2>1. call[w].key \in Key
    BY CallShape DEF IInv
  <2> QED
    BY <1>3, <1>4, <2>1 DEF IInv, AnswersOnTheWay
<1>6. EntriesExpireInTime'
  <2> SUFFICES ASSUME NEW j \in Key, cache[j] # NoEntry, cache[j].data # platform'[j]
               PROVE  cache[j].expiresAt <= changedAt'[j] + StalenessBound
    BY <1>1 DEF EntriesExpireInTime, StalenessBound
  <2>1. CASE j = k
    <3>1. cache[j].expiresAt \in Int /\ cache[j].expiresAt <= now + Retention /\ now \in Int
      BY EntryShape, CacheAssumption DEF IInv, TypeOK
    <3> QED
      BY <1>4, <2>1, <3>1, CacheAssumption DEF StalenessBound
  <2>2. CASE j # k
    BY <1>3, <2>2 DEF IInv, EntriesExpireInTime
  <2> QED
    BY <2>1, <2>2
<1> QED
  BY <1>2, <1>5, <1>6 DEF IInv

LEMMA TickStep ==
  ASSUME IInv, Tick
  PROVE  IInv'
<1>1. /\ now' = now + 1 /\ now < MaxTime
      /\ UNCHANGED <<platform, changedAt, cache, call>>
      /\ \A w \in Worker : call[w].pc = "store" => now - call[w].readAt < MaxLatency
  BY DEF Tick
<1>2. now' \in 0..MaxTime /\ now \in Nat
  BY <1>1, CacheAssumption DEF IInv, TypeOK
<1>3. 0..now + Retention \subseteq 0..now' + Retention
  BY <1>1, <1>2, CacheAssumption
<1>4. cache' \in [Key -> {NoEntry} \union [data : Data, expiresAt : 0..now' + Retention]]
  BY <1>1, <1>3 DEF IInv, TypeOK
<1>5. TypeOK'
  BY <1>1, <1>2, <1>4 DEF IInv, TypeOK
<1>6. AnswersOnTheWay'
  <2> SUFFICES ASSUME NEW w \in Worker, call[w].pc = "store"
               PROVE  /\ call[w].readAt <= now'
                      /\ now' - call[w].readAt <= MaxLatency
                      /\ call[w].data # platform[call[w].key] => call[w].readAt <= changedAt[call[w].key]
    BY <1>1 DEF AnswersOnTheWay
  <2>1. call[w].readAt \in Int
    BY CallShape, CacheAssumption DEF IInv
  <2> QED
    BY <1>1, <1>2, <2>1, CacheAssumption DEF IInv, AnswersOnTheWay
<1>7. EntriesExpireInTime'
  BY <1>1 DEF IInv, EntriesExpireInTime, StalenessBound
<1> QED
  BY <1>5, <1>6, <1>7 DEF IInv

LEMMA NextIInv == IInv /\ [Next]_vars => IInv'
<1> SUFFICES ASSUME IInv, [Next]_vars PROVE IInv'
  OBVIOUS
<1>1. ASSUME NEW w \in Worker, \/ \E k \in Key : Lookup(w, k)
                               \/ Answer(w) \/ Fail(w) \/ Store(w) \/ Return(w)
      PROVE  IInv'
  BY <1>1, LookupStep, AnswerStep, EndStep, StoreStep
<1>2. ASSUME NEW k \in Key, NEW d \in Data, Change(k, d) PROVE IInv'
  BY <1>2, ChangeStep
<1>3. CASE Tick
  BY <1>3, TickStep
<1>4. CASE UNCHANGED vars
  BY <1>4 DEF vars, IInv, TypeOK, AnswersOnTheWay, EntriesExpireInTime, StalenessBound
<1> QED
  BY <1>1, <1>2, <1>3, <1>4 DEF Next

LEMMA AlwaysIInv == Spec => []IInv
BY InitIInv, NextIInv, PTL DEF Spec

-----------------------------------------------------------------------------

\* The types of the variables: above all, no entry ever has more than the retention left.
THEOREM TypeCorrect == Spec => []TypeOK
<1>1. IInv => TypeOK
  BY DEF IInv
<1> QED
  BY <1>1, AlwaysIInv, PTL

\* An entry that is wrong about the platform has expired once the retention and the time of
\* one answer have passed since the change, whoever stored it and in whatever order
\* (dataCache.Put replaces a newer entry with an older answer too).
THEOREM EntriesAlwaysExpire == Spec => []EntriesExpireInTime
<1>1. IInv => EntriesExpireInTime
  BY DEF IInv
<1> QED
  BY <1>1, AlwaysIInv, PTL

\* What a lookup returns, from the cache or from the API, is right or was right so recently.
LEMMA ReturnsFresh ==
  ASSUME IInv, [Next]_vars, NEW w \in Worker, call[w].pc # "return", call'[w].pc = "return"
  PROVE  OutdatedOnlyIfRecent(call'[w].key, call'[w].data)
<1>1. call' # call
  OBVIOUS
<1>2. PICK v \in Worker : (\E k \in Key : Lookup(v, k)) \/ Store(v) \/ Answer(v) \/ Fail(v) \/ Return(v)
  BY <1>1 DEF Next, vars, Change, Tick
<1>3. now \in Int /\ StalenessBound = Retention + MaxLatency
  BY CacheAssumption DEF IInv, TypeOK, StalenessBound
<1>4. call \in [Worker -> CallType]
  BY DEF IInv, TypeOK, CallType
<1>5. v = w
  BY <1>2, <1>4 DEF Lookup, Store, Answer, Fail, Return
<1>6. CASE \E k \in Key : Lookup(v, k)
  <2>1. PICK k \in Key : Lookup(w, k)
    BY <1>5, <1>6
  <2>2. Hit(k) /\ call'[w] = [pc |-> "return", key |-> k, data |-> cache[k].data]
    BY <1>4, <2>1 DEF Lookup
  <2>3. cache[k] # NoEntry /\ cache[k].expiresAt \in Int /\ ~(now > cache[k].expiresAt)
    BY <2>2, EntryShape DEF Hit, IInv
  <2>4. changedAt[k] \in Int
    BY CacheAssumption DEF IInv, TypeOK
  <2>5. cache[k].data # platform[k] => now - changedAt[k] <= StalenessBound
    BY <1>3, <2>3, <2>4, CacheAssumption DEF IInv, EntriesExpireInTime
  <2> QED
    BY <2>2, <2>5 DEF OutdatedOnlyIfRecent
<1>7. CASE Store(v)
  <2> DEFINE k == call[w].key
             d == call[w].data
  <2>1. call[w].pc = "store" /\ call'[w] = [pc |-> "return", key |-> k, data |-> d]
    BY <1>4, <1>5, <1>7 DEF Store
  <2>2. k \in Key /\ call[w].readAt \in Int /\ changedAt[k] \in Int
    BY <2>1, CallShape, CacheAssumption DEF IInv, TypeOK
  <2>3. d # platform[k] => now - changedAt[k] <= StalenessBound
    BY <1>3, <2>1, <2>2, CacheAssumption DEF IInv, AnswersOnTheWay
  <2> QED
    BY <2>1, <2>3 DEF OutdatedOnlyIfRecent
<1>8. CASE Answer(v) \/ Fail(v) \/ Return(v)
  BY <1>4, <1>5, <1>8 DEF Answer, Fail, Return, NoCall
<1> QED
  BY <1>2, <1>6, <1>7, <1>8

\* No lookup ever answers with something the platform has not had for longer than the
\* retention and the time of one answer.
THEOREM StalenessAlwaysBounded == Spec => BoundedStaleness
<1>1. IInv /\ [Next]_vars =>
        [\A w \in Worker : (call[w].pc # "return" /\ call'[w].pc = "return")
           => OutdatedOnlyIfRecent(call'[w].key, call'[w].data)]_vars
  BY ReturnsFresh
<1> QED
  BY <1>1, AlwaysIInv, PTL DEF Spec, BoundedStaleness
=============================================================================
