----------------------------- MODULE ObjectsCache -----------------------------
(***************************************************************************)
(* nobl9repo: the platform's objects as the providers see them through the *)
(* dataCache.  GetObject, GetAllNames, GetUser and GetRoles have one shape: *)
(* look in the cache, else ask the API, store its answer, return it.  The  *)
(* lock covers a lookup and a store, not what lies between them, and the   *)
(* goroutines of DiagnoseFile and the message reader ask at the same time. *)
(***************************************************************************)
EXTENDS Integers

CONSTANTS
  Key,         \* the cache keys: an operation with its arguments
  Value,       \* what the platform may have for a key
  Absent,      \* nothing found: cached as nil, like any other answer
  NoEntry,     \* no cache entry
  Worker,      \* the goroutines that ask
  Retention,   \* dataCache.retention, in ticks
  MaxLatency,  \* assumed of the API: an answer is stored so soon after it was read
  MaxTime      \* bound: when the clock stops

ASSUME CacheAssumption ==
  /\ Retention \in Nat
  /\ MaxLatency \in Nat
  /\ MaxTime \in Nat
  /\ NoEntry \notin [data : Value \union {Absent}, expiresAt : Nat]

Data == Value \union {Absent}

VARIABLES
  now,        \* the clock
  platform,   \* what the platform has for each key
  changedAt,  \* history: when that last changed
  cache,      \* dataCache.cache
  call        \* each goroutine's call

vars == <<now, platform, changedAt, cache, call>>

NoCall == [pc |-> "idle"]

Init ==
  /\ now = 0
  /\ platform \in [Key -> Data]
  /\ changedAt = [k \in Key |-> 0]
  /\ cache = [k \in Key |-> NoEntry]
  /\ call = [w \in Worker |-> NoCall]

\* Mutant: an expired entry is still a hit.
HitMutant(k) == cache[k] # NoEntry

\* dataCache.Get
Hit(k) == cache[k] # NoEntry /\ ~(now > cache[k].expiresAt)

Lookup(w, k) ==
  /\ call[w] = NoCall
  /\ call' = [call EXCEPT ![w] =
       IF Hit(k) THEN [pc |-> "return", key |-> k, data |-> cache[k].data]
       ELSE [pc |-> "fetch", key |-> k]]
  /\ UNCHANGED <<now, platform, changedAt, cache>>

\* The API reads what the platform has; its answer is still on the way.
Answer(w) ==
  /\ call[w].pc = "fetch"
  /\ call' = [call EXCEPT ![w] =
       [pc |-> "store", key |-> call[w].key, data |-> platform[call[w].key], readAt |-> now]]
  /\ UNCHANGED <<now, platform, changedAt, cache>>

\* Mutant: a failed call leaves a nil entry.
FailMutant(w) ==
  /\ call[w].pc = "fetch"
  /\ cache' = [cache EXCEPT ![call[w].key] = [data |-> Absent, expiresAt |-> now + Retention]]
  /\ call' = [call EXCEPT ![w] = NoCall]
  /\ UNCHANGED <<now, platform, changedAt>>

\* An error goes to the caller and not into the cache.
Fail(w) ==
  /\ call[w].pc = "fetch"
  /\ call' = [call EXCEPT ![w] = NoCall]
  /\ UNCHANGED <<now, platform, changedAt, cache>>

\* Mutant: a store prolongs the entry that is there.
StoreMutant(w) ==
  /\ call[w].pc = "store"
  /\ LET k == call[w].key IN
       cache' = [cache EXCEPT ![k] =
         [data |-> call[w].data,
          expiresAt |-> Retention + IF cache[k] # NoEntry THEN cache[k].expiresAt ELSE now]]
  /\ call' = [call EXCEPT ![w] =
       [pc |-> "return", key |-> call[w].key, data |-> call[w].data]]
  /\ UNCHANGED <<now, platform, changedAt>>

\* dataCache.Put: whatever is there is replaced, by an older answer too.
Store(w) ==
  /\ call[w].pc = "store"
  /\ cache' = [cache EXCEPT ![call[w].key] =
       [data |-> call[w].data, expiresAt |-> now + Retention]]
  /\ call' = [call EXCEPT ![w] =
       [pc |-> "return", key |-> call[w].key, data |-> call[w].data]]
  /\ UNCHANGED <<now, platform, changedAt>>

Return(w) ==
  /\ call[w].pc = "return"
  /\ call' = [call EXCEPT ![w] = NoCall]
  /\ UNCHANGED <<now, platform, changedAt, cache>>

\* Anyone changes the platform, this server's Apply and Delete included: they leave the
\* cache alone.
Change(k, d) ==
  /\ d # platform[k]
  /\ platform' = [platform EXCEPT ![k] = d]
  /\ changedAt' = [changedAt EXCEPT ![k] = now]
  /\ UNCHANGED <<now, cache, call>>

Tick ==
  /\ now < MaxTime
  /\ \A w \in Worker : call[w].pc = "store" => now - call[w].readAt < MaxLatency
  /\ now' = now + 1
  /\ UNCHANGED <<platform, changedAt, cache, call>>

Next ==
  \/ \E w \in Worker :
       \/ \E k \in Key : Lookup(w, k)
       \/ Answer(w) \/ Fail(w) \/ Store(w) \/ Return(w)
  \/ \E k \in Key, d \in Data : Change(k, d)
  \/ Tick

Spec == Init /\ [][Next]_vars

-----------------------------------------------------------------------------
(* Properties.                                                              *)

\* The type invariant: an entry never lives longer than the retention from now.
TypeOK ==
  /\ now \in 0..MaxTime
  /\ platform \in [Key -> Data]
  /\ changedAt \in [Key -> 0..MaxTime]
  /\ cache \in [Key -> {NoEntry} \union [data : Data, expiresAt : 0..now + Retention]]
  /\ call \in [Worker -> {NoCall}
       \union [pc : {"fetch"}, key : Key]
       \union [pc : {"store"}, key : Key, data : Data, readAt : 0..MaxTime]
       \union [pc : {"return"}, key : Key, data : Data]]

\* An answer that is no longer what the platform has is never older than the retention
\* and the time an answer may be on its way, however the goroutines' stores overtake
\* each other and however often an entry is replaced.  The bound counts from the last change:
\* as Change is free to happen or not, that says of every answer that it was true at most
\* the bound ago.
StalenessBound == Retention + MaxLatency

OutdatedOnlyIfRecent(k, d) == d # platform[k] => now - changedAt[k] <= StalenessBound

BoundedStaleness ==
  [][\A w \in Worker :
       (call[w].pc # "return" /\ call'[w].pc = "return")
         => OutdatedOnlyIfRecent(call'[w].key, call'[w].data)]_vars

\* No entry outlives its claim: one that can still be hit and is wrong about the platform
\* was read before the last change, and will be gone once the bound has passed since.
EntriesExpireInTime ==
  \A k \in Key :
    (cache[k] # NoEntry /\ cache[k].data # platform[k])
      => cache[k].expiresAt <= changedAt[k] + StalenessBound
=============================================================================
