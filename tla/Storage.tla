------------------------------ MODULE Storage ------------------------------
(***************************************************************************)
(* Storage with its LRU policy and its TTLManager: the state that the      *)
(* client thread and the expiry sweeper thread share.                      *)
(*                                                                         *)
(* Two mutexes guard it.  Storage::lock_ is held for the whole of set,     *)
(* get, del and expire_key, and guards data, lru and the counters.         *)
(* TTLManager::lock_ is held for the whole of each TTLManager method and   *)
(* guards expiries and stop.  A TTLManager method that Storage calls is one*)
(* step, and a Storage method is one step per TTLManager method it calls:  *)
(* what it does to data and lru before that call can be seen by no one     *)
(* until Storage::lock_ is released.  get and del make one such call.  set *)
(* makes one, then one for every key it evicts: `setting' is the key it    *)
(* works for, and lock_ is held, in between.  The sweeper takes the TTL    *)
(* lock in one step and collects in another, and Storage may find it taken.*)
(*                                                                         *)
(* The counters hits_, misses_, largest_item_bytes_ and used_memory_peak_  *)
(* are only ever reported and are left out.                                *)
(***************************************************************************)
EXTENDS LRU, Totals, FiniteSets

CONSTANTS
  Values,          \* the values clients store, as [size, capacity]
  Ttls,            \* the ttl_sec arguments of set: none when not positive
  kEntryOverhead,  \* bytes charged for every entry
  kMaxKeySize,
  max_value_size,
  memory_limit,
  BucketBytes,     \* bytes of the bucket array once n keys have been stored
  ThrowPoints,     \* where in set() an allocation may throw bad_alloc
  MaxTime,         \* bound on the clock
  MaxCalls         \* bound on the client's calls

AllThrowPoints == {"blob", "emplace", "push_front", "index", "set_ttl", "evict"}

ASSUME ValuesAssumption ==
  /\ Values \subseteq [size : Nat, capacity : Nat]
  /\ Ttls \subseteq Int
ASSUME LimitsAssumption ==
  /\ {kEntryOverhead, kMaxKeySize, max_value_size, memory_limit} \subseteq Nat
  /\ {MaxTime, MaxCalls} \subseteq Nat
  /\ ThrowPoints \subseteq AllThrowPoints
\* The bucket array of data_ only grows, and alone never fills the budget: a
\* limit is at least 1MB (main.cpp), an entry costs over 128 bytes and adds
\* a few pointers to the array.
ASSUME BucketAssumption ==
  /\ IsFiniteSet(Keys)
  /\ BucketBytes \in [0 .. Cardinality(Keys) -> 0 .. memory_limit]

VARIABLES
  data,          \* data_: the stored value and accounted size of each key
  lru,           \* policy_
  value_bytes,   \* value_bytes_
  buckets,       \* the bucket array: the most keys data_ ever held at once
  evictions,     \* evictions_
  expired_keys,  \* expired_keys_
  setting,       \* {key} while set(key, ..) is evicting, {} otherwise
  expiries,      \* TTLManager::expiries_
  stop,          \* TTLManager::stop_
  sweeper,       \* where the sweeper thread is in sweep_loop
  batch,         \* the keys it took and has yet to expire
  now,           \* steady_clock::now()
  calls,         \* bound: the client's calls so far
  due,           \* history: when the stored value of a key is to expire
  stored         \* history: keys inserted less keys deleted

storageVars == <<data, lru, value_bytes, buckets, evictions, expired_keys>>
sweepVars == <<stop, sweeper, batch>>
vars == <<storageVars, setting, expiries, sweepVars, now, calls, due, stored>>

\* std::unordered_map: m[key] = x, and m.erase(key).
Put(m, key, x) ==
  [k \in DOMAIN m \cup {key} |-> IF k = key THEN x ELSE m[k]]
Erase(m, key) == [k \in DOMAIN m \ {key} |-> m[k]]
-----------------------------------------------------------------------------
\* Storage::lock_ is free.
Unlocked == setting = {}

\* The TTL lock held for the whole of a sweep, and only while it collects.
TtlUnlockedLate == sweeper \notin {"collecting", "expiring"}
TtlUnlocked == sweeper # "collecting"

Accounted(value) == value.capacity + kEntryOverhead

can_store(key, value) ==
  /\ KeySize[key] <= kMaxKeySize
  /\ value.size <= max_value_size
  /\ Accounted(value) + KeySize[key] <= memory_limit

bucket_bytes == BucketBytes[buckets]
used_memory == lru.memory_used + bucket_bytes

\* A limit check that forgets the bucket array.
OverLimitOnEntries == lru.memory_used > memory_limit

\* used_memory() > memory_limit_, on size_t: a count below zero has wrapped
\* and exceeds every limit.
OverLimit == used_memory < 0 \/ used_memory > memory_limit

\* The bytes the string keeps, in place of those it holds.
PayloadCapacity(key) ==
  IF key \in DOMAIN data THEN data[key].value.capacity ELSE 0

\* The payload to take off value_bytes_ when the key's value goes.
Payload(key) == IF key \in DOMAIN data THEN data[key].value.size ELSE 0

\* data_.erase, with the value's bytes taken off value_bytes_; nothing when
\* the key is not there.
EraseData(key) ==
  /\ data' = Erase(data, key)
  /\ value_bytes' = value_bytes - Payload(key)
  /\ due' = Erase(due, key)

\* data_ gets the entry, growing its bucket array when it has to.
EmplaceData(key, value) ==
  /\ data' = Put(data, key, [value |-> value, size |-> Accounted(value)])
  /\ buckets' = LET n == Cardinality(DOMAIN data \cup {key})
                IN  IF n > buckets THEN n ELSE buckets
  /\ stored' = IF key \in DOMAIN data THEN stored ELSE stored + 1

\* The client thread calls Storage: it can while it is not inside set and
\* Storage is not being destroyed.
Call ==
  /\ Unlocked
  /\ ~stop
  /\ calls < MaxCalls
  /\ calls' = calls + 1
-----------------------------------------------------------------------------
(***************************************************************************)
(* TTLManager.                                                             *)
(***************************************************************************)
\* A set without a TTL that leaves the TTL of the value it replaces.
set_ttlKeepsOld(key, seconds) ==
  expiries' = IF seconds > 0 THEN Put(expiries, key, now + seconds) ELSE expiries

\* set_ttl(key, seconds), or erase(key) when there is no TTL.
set_ttl(key, seconds) ==
  expiries' = IF seconds > 0 THEN Put(expiries, key, now + seconds)
                             ELSE Erase(expiries, key)

\* A deadline that passes one tick late.
ExpiredLate(key) == key \in DOMAIN expiries /\ expiries[key] < now

\* What is_expired(key) returns; it erases the entry when it is true.
Expired(key) == key \in DOMAIN expiries /\ expiries[key] <= now
-----------------------------------------------------------------------------
(***************************************************************************)
(* The client thread.                                                      *)
(***************************************************************************)
SetRefused(key, value) ==
  /\ Call
  /\ ~can_store(key, value)
  /\ UNCHANGED <<storageVars, setting, expiries, sweepVars, now, due, stored>>

\* set(key, value, ttl) up to its eviction loop.
Set(key, value, ttl) ==
  /\ Call /\ TtlUnlocked
  /\ can_store(key, value)
  /\ EmplaceData(key, value)
  /\ value_bytes' = value_bytes - Payload(key) + value.size
  /\ lru' = add(lru, key, Accounted(value))
  /\ set_ttl(key, ttl)
  /\ due' = IF ttl > 0 THEN Put(due, key, now + ttl) ELSE Erase(due, key)
  /\ setting' = {key}
  /\ UNCHANGED <<evictions, expired_keys, sweepVars, now>>

\* set(key, value, ttl) left by bad_alloc at one of its allocations.  What was
\* done before the throw stays done, and nothing after it happens: neither
\* the TTL nor the eviction loop.  Overwriting an indexed key allocates the
\* blob and perhaps a TTL node, and nothing else.  The allocation inside the
\* eviction loop is in SetReturns.
SetThrows(key, value, ttl, point) ==
  LET after(points) == point \notin points
      known == key \in lru.index
  IN  /\ Call
      /\ can_store(key, value)
      /\ point = "emplace" => key \notin DOMAIN data
      /\ point \in {"push_front", "index"} => ~known
      /\ point # "evict"
      /\ point = "set_ttl" => TtlUnlocked /\ ttl > 0 /\ key \notin DOMAIN expiries
      /\ value_bytes' = IF after({"blob"})
                        THEN value_bytes - Payload(key) + value.size
                        ELSE value_bytes
      /\ IF after({"blob", "emplace"})
         THEN /\ EmplaceData(key, value)
              /\ due' = IF ttl > 0 THEN Put(due, key, now + ttl)
                                   ELSE Erase(due, key)
         ELSE UNCHANGED <<data, buckets, stored, due>>
      /\ lru' = CASE point = "set_ttl" -> add(lru, key, Accounted(value))
                  [] point = "index" -> addThrows(lru, key, Accounted(value))
                  [] OTHER -> lru
      /\ UNCHANGED <<evictions, expired_keys, setting, expiries, sweepVars, now>>

\* An eviction loop that puts the key being set back when it is the victim.
EvictVictimSparesNewest ==
  LET key == victim(lru)
  IN  /\ ~Unlocked /\ TtlUnlocked
      /\ DOMAIN data # {} /\ OverLimit
      /\ IF key \in setting
         THEN /\ lru' = add(evict(lru), key, data[key].size)
              /\ UNCHANGED <<data, value_bytes, due, expiries, evictions>>
         ELSE /\ lru' = evict(lru)
              /\ EraseData(key)
              /\ expiries' = Erase(expiries, key)
              /\ evictions' = evictions + 1
      /\ UNCHANGED <<setting, buckets, expired_keys, sweepVars, now, calls,
                     stored>>

\* One turn of the loop of evict_if_over_limit.  A victim data_ does not hold
\* ends the loop, and set with it.
EvictVictim ==
  LET key == victim(lru)
  IN  /\ ~Unlocked /\ TtlUnlocked
      /\ DOMAIN data # {} /\ OverLimit
      /\ lru' = evict(lru)
      /\ IF key \in DOMAIN data
         THEN /\ EraseData(key)
              /\ expiries' = Erase(expiries, key)
              /\ evictions' = evictions + 1
              /\ UNCHANGED setting
         ELSE /\ setting' = {}
              /\ UNCHANGED <<data, value_bytes, due, expiries, evictions>>
      /\ UNCHANGED <<buckets, expired_keys, sweepVars, now, calls, stored>>

\* The loop has nothing (more) to evict, and set returns true; or evict(), copying
\* the victim's key, throws before it changes anything, and set is left.
SetReturns ==
  /\ ~Unlocked
  /\ DOMAIN data # {} /\ OverLimit => "evict" \in ThrowPoints
  /\ setting' = {}
  /\ UNCHANGED <<storageVars, expiries, sweepVars, now, calls, due, stored>>

\* get(key): expired, missing, or a hit.
Get(key) ==
  /\ Call /\ TtlUnlocked
  /\ IF Expired(key)
     THEN /\ expiries' = Erase(expiries, key)
          /\ EraseData(key)
          /\ lru' = IF key \in DOMAIN data THEN remove(lru, key) ELSE lru
          /\ expired_keys' = expired_keys + 1
     ELSE /\ lru' = IF key \in DOMAIN data THEN touch(lru, key) ELSE lru
          /\ UNCHANGED <<data, value_bytes, due, expiries, expired_keys>>
  /\ UNCHANGED <<buckets, evictions, setting, sweepVars, now, stored>>

\* del(key): an absent key keeps even its TTL.
Del(key) ==
  /\ Call
  /\ IF key \in DOMAIN data
     THEN /\ TtlUnlocked
          /\ EraseData(key)
          /\ lru' = remove(lru, key)
          /\ expiries' = Erase(expiries, key)
          /\ stored' = stored - 1
     ELSE UNCHANGED <<data, lru, value_bytes, due, expiries, stored>>
  /\ UNCHANGED <<buckets, evictions, expired_keys, setting, sweepVars, now>>

\* ~Storage, once the client thread is done: ~TTLManager tells the sweeper
\* to stop, and then joins it.
Destroy ==
  /\ Unlocked /\ TtlUnlocked
  /\ ~stop
  /\ stop' = TRUE
  /\ UNCHANGED <<storageVars, setting, expiries, sweeper, batch, now, calls,
                 due, stored>>
-----------------------------------------------------------------------------
(***************************************************************************)
(* The sweeper thread.                                                     *)
(***************************************************************************)
\* A sweeper that looks at stop_ only to end its wait.
SweepWakesBlind ==
  /\ sweeper = "waiting"
  /\ sweeper' = "awake"
  /\ UNCHANGED <<storageVars, setting, expiries, stop, batch, now, calls, due,
                 stored>>

\* wait_for ends, on its 100ms timeout or on the notification.
SweepWakes ==
  /\ sweeper = "waiting"
  /\ sweeper' = IF stop THEN "exited" ELSE "awake"
  /\ UNCHANGED <<storageVars, setting, expiries, stop, batch, now, calls, due,
                 stored>>

\* expired_keys() takes the TTL lock;
SweepLocks ==
  /\ sweeper = "awake"
  /\ sweeper' = "collecting"
  /\ UNCHANGED <<storageVars, setting, expiries, stop, batch, now, calls, due,
                 stored>>

\* the deadlines that have passed leave expiries_ for the sweeper's own vector,
\* and the lock is free again.
SweepCollects ==
  /\ sweeper = "collecting"
  /\ sweeper' = "expiring"
  /\ batch' = {k \in DOMAIN expiries : expiries[k] <= now}
  /\ expiries' = [k \in DOMAIN expiries \ batch' |-> expiries[k]]
  /\ UNCHANGED <<storageVars, setting, stop, now, calls, due, stored>>

\* An expire_key that does not tell the policy.
ExpireKeyUntracked(key) ==
  /\ sweeper = "expiring"
  /\ key \in batch
  /\ Unlocked
  /\ batch' = batch \ {key}
  /\ IF key \in DOMAIN data
     THEN EraseData(key) /\ expired_keys' = expired_keys + 1
     ELSE UNCHANGED <<data, value_bytes, due, expired_keys>>
  /\ UNCHANGED lru
  /\ UNCHANGED <<buckets, evictions, setting, expiries, stop, sweeper, now,
                 calls, stored>>

\* An expire_key that does not count.
ExpireKeyUncounted(key) ==
  /\ sweeper = "expiring"
  /\ key \in batch
  /\ Unlocked
  /\ batch' = batch \ {key}
  /\ IF key \in DOMAIN data
     THEN EraseData(key) /\ lru' = remove(lru, key)
     ELSE UNCHANGED <<data, lru, value_bytes, due>>
  /\ UNCHANGED expired_keys
  /\ UNCHANGED <<buckets, evictions, setting, expiries, stop, sweeper, now,
                 calls, stored>>

\* An expire_key that asks is_expired again: the sweeper has taken the answer.
ExpireKeyRechecks(key) ==
  /\ sweeper = "expiring"
  /\ key \in batch
  /\ Unlocked
  /\ batch' = batch \ {key}
  /\ IF Expired(key) /\ key \in DOMAIN data
     THEN /\ EraseData(key)
          /\ lru' = remove(lru, key)
          /\ expired_keys' = expired_keys + 1
     ELSE UNCHANGED <<data, lru, value_bytes, due, expired_keys>>
  /\ UNCHANGED <<buckets, evictions, setting, expiries, stop, sweeper, now,
                 calls, stored>>

\* on_expire_(key), that is expire_key(key); the order of the vector is that
\* of a hash table.
ExpireKey(key) ==
  /\ sweeper = "expiring"
  /\ key \in batch
  /\ Unlocked
  /\ batch' = batch \ {key}
  /\ IF key \in DOMAIN data
     THEN /\ EraseData(key)
          /\ lru' = remove(lru, key)
          /\ expired_keys' = expired_keys + 1
     ELSE UNCHANGED <<data, lru, value_bytes, due, expired_keys>>
  /\ UNCHANGED <<buckets, evictions, setting, expiries, stop, sweeper, now,
                 calls, stored>>

SweepDone ==
  /\ sweeper = "expiring"
  /\ batch = {}
  /\ sweeper' = "waiting"
  /\ UNCHANGED <<storageVars, setting, expiries, stop, batch, now, calls, due,
                 stored>>

\* Time passes.
Tick ==
  /\ now < MaxTime
  /\ now' = now + 1
  /\ UNCHANGED <<storageVars, setting, expiries, sweepVars, calls, due, stored>>

\* The sweeper has been joined and the object is gone.
Gone == sweeper = "exited" /\ UNCHANGED vars
-----------------------------------------------------------------------------
Empty == [k \in {} |-> 0]

Init ==
  /\ data = Empty
  /\ lru = EmptyLRU
  /\ value_bytes = 0
  /\ buckets = 0
  /\ evictions = 0
  /\ expired_keys = 0
  /\ setting = {}
  /\ expiries = Empty
  /\ stop = FALSE
  /\ sweeper = "waiting"
  /\ batch = {}
  /\ now = 0
  /\ calls = 0
  /\ due = Empty
  /\ stored = 0

Client ==
  \/ \E key \in Keys, value \in Values : SetRefused(key, value)
  \/ \E key \in Keys, value \in Values, ttl \in Ttls : Set(key, value, ttl)
  \/ \E key \in Keys, value \in Values, ttl \in Ttls, point \in ThrowPoints :
        SetThrows(key, value, ttl, point)
  \/ EvictVictim
  \/ SetReturns
  \/ \E key \in Keys : Get(key)
  \/ \E key \in Keys : Del(key)
  \/ Destroy

Expire == \E key \in Keys : ExpireKey(key)

Sweeper == SweepWakes \/ SweepLocks \/ SweepCollects \/ Expire \/ SweepDone

Next == Client \/ Sweeper \/ Tick \/ Gone

\* Inside set the client thread runs on, and gets the TTL lock, which the sweeper
\* holds for a moment every 100ms; the sweeper's wait times out and its loop runs
\* on, waiting only for lock_.  Clients need not call.
Fairness == SF_vars(EvictVictim \/ SetReturns) /\ WF_vars(Sweeper)

Spec == Init /\ [][Next]_vars /\ Fairness
-----------------------------------------------------------------------------
TypeOK ==
  /\ DOMAIN data \subseteq Keys
  /\ \A k \in DOMAIN data : data[k] \in [value : Values, size : Nat]
  /\ lru \in [list : Seq(Entry), index : SUBSET Keys, memory_used : Nat]
  /\ {value_bytes, evictions, expired_keys, now, calls, stored} \subseteq Int
  /\ buckets \in 0 .. Cardinality(Keys)
  /\ setting \in SUBSET Keys
  /\ DOMAIN expiries \subseteq Keys
  /\ \A k \in DOMAIN expiries : expiries[k] \in Int
  /\ stop \in BOOLEAN
  /\ sweeper \in {"waiting", "awake", "collecting", "expiring", "exited"}
  /\ batch \in SUBSET Keys
  /\ DOMAIN due \subseteq Keys
  /\ \A k \in DOMAIN due : due[k] \in Int

\* data_ and policy_ hold the same keys with the same accounted sizes, and
\* the policy's list, index and byte count agree, however set, get, del and
\* evict_if_over_limit interleave with the sweeper's expire_key.  So evict()
\* always names a stored key, and no key is stored that cannot be evicted.
PolicyTracksData ==
  /\ Sound(lru)
  /\ lru.index = DOMAIN data
  /\ \A k \in DOMAIN data : SizeOf(lru, k) = data[k].size

\* The accounting is exact: memory_used() is the key bytes, the capacity and
\* the overhead of every stored entry, and value_bytes_ their payload.
BytesMatchData ==
  /\ lru.memory_used = Total([k \in DOMAIN data |->
                               KeySize[k] + Accounted(data[k].value)])
  /\ value_bytes = Total([k \in DOMAIN data |-> data[k].value.size])

\* Whoever takes Storage::lock_ finds used_memory() within memory_limit_: the
\* limit is enforced before set lets anyone look.
WithinLimit == Unlocked => 0 <= used_memory /\ used_memory <= memory_limit

\* A stored value with a TTL never loses its deadline: it is on file in
\* expiries_ until it passes, and then the key is in the sweeper's vector.
\* A deadline on file for a stored key is that of its present value, not of
\* one it replaced.
DeadlineKept ==
  /\ DOMAIN due \subseteq DOMAIN data
  /\ \A k \in DOMAIN due :
        \/ k \in DOMAIN expiries
        \/ k \in batch /\ due[k] <= now
  /\ \A k \in DOMAIN expiries \cap DOMAIN data :
        k \in DOMAIN due /\ due[k] = expiries[k]

\* get serves a value past its deadline only in the window between the
\* sweeper's expired_keys() and its expire_key() for that key.
StaleOnlyInWindow ==
  [][\A k \in Keys :
        Get(k) /\ k \in DOMAIN data' /\ k \in DOMAIN due /\ due[k] <= now
          => k \in batch]_vars

\* evict_if_over_limit takes the key being set last of all: only when it is
\* alone and still does not fit.
NewestSurvives ==
  [][\A k \in setting \cap DOMAIN data :
        k \notin DOMAIN data' => DOMAIN data = {k}]_vars

\* No key vanishes uncounted: every key inserted is stored, deleted by the
\* client, or counted in evictions_ or expired_keys_.
KeysAccounted ==
  stored <= Cardinality(DOMAIN data) + evictions + expired_keys

\* set always gives Storage::lock_ back: its eviction loop ends.
LockReleased == ~Unlocked ~> Unlocked

\* A value past its deadline leaves the store without any client asking for
\* it, unless the store is destroyed first.
ExpiredLeaves ==
  \A k \in Keys :
     (k \in DOMAIN due /\ due[k] <= now /\ ~stop)
       ~> (k \notin DOMAIN due \/ due[k] > now \/ stop)

\* ~TTLManager returns: the sweeper it joins exits.
SweeperJoined == stop ~> sweeper = "exited"

\* What test_ttl (tests/test_storage.cpp) expects of a value whose TTL has not
\* run out: expiry does not take it.
FreshNotExpired ==
  [][\A k \in DOMAIN data :
        ExpireKey(k) => k \in DOMAIN due /\ due[k] <= now]_vars

\* What storage.h says of set, that it returns false when the value is too
\* large for the limits, and what test_empty_key_eviction
\* (tests/test_storage.cpp) asserts: when it returns true the value is stored.
SetStores == [][SetReturns => setting \subseteq DOMAIN data]_vars
=============================================================================
