---------------------------- MODULE StorageProofs ----------------------------
(***************************************************************************)
(* The theorems about Storage and its sweeper, for any keys, values, TTLs  *)
(* and limits, any number of calls and any interleaving of the two         *)
(* threads.  They assume that only the allocation of the blob, made before *)
(* set() takes the lock, may fail (SafeThrows): run storage_bad_alloc      *)
(* shows what a later failure does to them.                                *)
(*                                                                         *)
(* The invariant of the first part is IInv.  StoreInv ties data_ to the    *)
(* policy, DeadlineInv ties each stored value to its TTL, and LimitInv is  *)
(* the memory limit together with what makes the key being set the last to *)
(* be evicted: it is at the front of the policy's list.                    *)
(*                                                                         *)
(* The second part is about the byte and key counts, which are sums over   *)
(* the map: AccountInv, on top of the first invariant.                     *)
(***************************************************************************)
EXTENDS Storage, PolicyLemmas, FiniteSetTheorems

SafeThrows == ThrowPoints \subseteq {"blob"}

StoreInv ==
  /\ DOMAIN data \subseteq Keys
  /\ \A k \in DOMAIN data : data[k] \in [value : Values, size : Nat]
  /\ lru \in LRUObject
  /\ PolicyTracksData

\* The sweeper's vector is empty when it asks for the next one.
BatchInv ==
  /\ sweeper \in {"waiting", "awake", "collecting", "expiring", "exited"}
  /\ batch \in SUBSET Keys
  /\ sweeper # "expiring" => batch = {}

DeadlineInv ==
  /\ DOMAIN expiries \subseteq Keys
  /\ \A k \in DOMAIN expiries : expiries[k] \in Int
  /\ DOMAIN due \subseteq Keys
  /\ \A k \in DOMAIN due : due[k] \in Int
  /\ now \in Int
  /\ BatchInv
  /\ DeadlineKept

LimitInv ==
  /\ buckets \in 0 .. Cardinality(Keys)
  /\ setting \in SUBSET Keys
  /\ WithinLimit
  /\ \A k \in setting \cap DOMAIN data :
        Len(lru.list) > 0 /\ lru.list[1].key = k

CounterInv ==
  /\ {value_bytes, evictions, expired_keys, calls, stored} \subseteq Int
  /\ stop \in BOOLEAN

IInv == StoreInv /\ DeadlineInv /\ LimitInv /\ CounterInv
-----------------------------------------------------------------------------
(***************************************************************************)
(* StoreInv.                                                               *)
(***************************************************************************)
\* The accounted size of a value is a natural number.
LEMMA AccountedNat ==
  ASSUME NEW value \in Values
  PROVE  Accounted(value) \in Nat /\ value.size \in Nat
<1>1. value \in [size : Nat, capacity : Nat]
  BY ValuesAssumption
<1>2. kEntryOverhead \in Nat
  BY LimitsAssumption
<1>3. QED
  BY <1>1, <1>2 DEF Accounted

\* A key taken out of both data_ and the policy.
LEMMA ForgetKey ==
  ASSUME StoreInv, NEW key,
         data' = Erase(data, key),
         lru' \in LRUObject, Sound(lru'), lru'.index = lru.index \ {key},
         \A k \in lru'.index : SizeOf(lru', k) = SizeOf(lru, k)
  PROVE  StoreInv'
<1>1. /\ DOMAIN data' = DOMAIN data \ {key}
      /\ \A k \in DOMAIN data \ {key} : data'[k] = data[k]
  BY DEF Erase
<1>2. /\ lru.index = DOMAIN data
      /\ \A k \in DOMAIN data : SizeOf(lru, k) = data[k].size
  BY DEF StoreInv, PolicyTracksData
<1>3. lru'.index = DOMAIN data'
  BY <1>1, <1>2
<1>4. \A k \in DOMAIN data' : SizeOf(lru', k) = data'[k].size
  BY <1>1, <1>2, <1>3
<1>5. PolicyTracksData'
  BY <1>3, <1>4 DEF PolicyTracksData
<1>6. DOMAIN data' \subseteq Keys
  BY <1>1 DEF StoreInv
<1>7. \A k \in DOMAIN data' : data'[k] \in [value : Values, size : Nat]
  BY <1>1 DEF StoreInv
<1>8. QED
  BY <1>5, <1>6, <1>7 DEF StoreInv

\* expire, delete: the key leaves data_ and remove() tells the policy.
LEMMA RemoveKey ==
  ASSUME StoreInv, NEW key, data' = Erase(data, key), lru' = remove(lru, key)
  PROVE  StoreInv' /\ lru'.memory_used <= lru.memory_used
<1>1. lru \in LRUObject /\ Sound(lru)
  BY DEF StoreInv, PolicyTracksData
<1>2. /\ lru' \in LRUObject
      /\ Sound(lru')
      /\ lru'.index = lru.index \ {key}
      /\ lru'.memory_used <= lru.memory_used
      /\ \A k \in lru'.index : SizeOf(lru', k) = SizeOf(lru, k)
  BY <1>1, RemoveForgets
<1>3. QED
  BY <1>2, ForgetKey

\* evict: the victim is a stored key, and it leaves both.
LEMMA EvictKey ==
  ASSUME StoreInv, DOMAIN data # {}
  PROVE  /\ victim(lru) \in DOMAIN data
         /\ (data' = Erase(data, victim(lru)) /\ lru' = evict(lru)) => StoreInv'
<1>1. lru \in LRUObject /\ Sound(lru) /\ lru.index = DOMAIN data
  BY DEF StoreInv, PolicyTracksData
<1>2. victim(lru) \in DOMAIN data
  BY <1>1, EvictForgets
<1>3. ASSUME data' = Erase(data, victim(lru)), lru' = evict(lru)
      PROVE  StoreInv'
  <2>1. /\ lru' \in LRUObject
        /\ Sound(lru')
        /\ lru'.index = lru.index \ {victim(lru)}
        /\ \A k \in lru'.index : SizeOf(lru', k) = SizeOf(lru, k)
    BY <1>1, <1>3, EvictForgets
  <2>2. QED
    BY <1>3, <2>1, ForgetKey
<1>4. QED
  BY <1>2, <1>3

\* touch: the policy reorders, and that is all.
LEMMA TouchKey ==
  ASSUME StoreInv, NEW key, data' = data, lru' = touch(lru, key)
  PROVE  StoreInv' /\ lru'.memory_used = lru.memory_used
<1>1. lru \in LRUObject /\ Sound(lru)
  BY DEF StoreInv, PolicyTracksData
<1>2. /\ lru' \in LRUObject
      /\ Sound(lru')
      /\ lru'.index = lru.index
      /\ lru'.memory_used = lru.memory_used
      /\ \A k \in lru.index : SizeOf(lru', k) = SizeOf(lru, k)
  BY <1>1, TouchKeeps
<1>3. PolicyTracksData'
  BY <1>2 DEF PolicyTracksData, StoreInv
<1>4. QED
  BY <1>2, <1>3 DEF StoreInv

\* set: the key and its accounted size enter both, at the front of the list.
LEMMA AddKey ==
  ASSUME StoreInv, NEW key \in Keys, NEW value \in Values,
         data' = Put(data, key, [value |-> value, size |-> Accounted(value)]),
         lru' = add(lru, key, Accounted(value))
  PROVE  StoreInv' /\ Len(lru'.list) > 0 /\ lru'.list[1].key = key
<1> DEFINE x == [value |-> value, size |-> Accounted(value)]
           n == Accounted(value)
<1>1. lru \in LRUObject /\ Sound(lru) /\ lru.index = DOMAIN data
  BY DEF StoreInv, PolicyTracksData
<1>2. n \in Nat
  BY AccountedNat
<1> HIDE DEF n
<1>3. /\ lru' \in LRUObject
      /\ Sound(lru')
      /\ lru'.index = lru.index \cup {key}
      /\ SizeOf(lru', key) = n
      /\ \A k \in lru.index : k # key => SizeOf(lru', k) = SizeOf(lru, k)
      /\ Len(lru'.list) > 0
      /\ lru'.list[1] = [key |-> key, size |-> n]
  <2> DEFINE m == add(lru, key, n)
  <2>1. m \in LRUObject /\ Sound(m) /\ m.index = lru.index \cup {key}
    BY <1>1, <1>2, AddAdds
  <2>2. /\ SizeOf(m, key) = n
        /\ \A k \in lru.index : k # key => SizeOf(m, k) = SizeOf(lru, k)
    BY <1>1, <1>2, AddAdds, ZenonT(30)
  <2>3. Len(m.list) > 0 /\ m.list[1] = [key |-> key, size |-> n]
    BY <1>1, <1>2, AddAdds
  <2>4. lru' = m
    BY DEF n
  <2> HIDE DEF m
  <2>5. QED
    BY <2>1, <2>2, <2>3, <2>4
<1>4. /\ DOMAIN data' = DOMAIN data \cup {key}
      /\ data'[key] = x
      /\ \A k \in DOMAIN data : k # key => data'[k] = data[k]
  <2>1. data' = Put(data, key, x)
    OBVIOUS
  <2> HIDE DEF x
  <2>2. QED
    BY <2>1 DEF Put
<1>5. x \in [value : Values, size : Nat] /\ x.size = n
  <2>1. x = [value |-> value, size |-> n]
    BY DEF n
  <2> HIDE DEF x
  <2>2. QED
    BY <1>2, <2>1
<1> HIDE DEF x
<1>6. ASSUME NEW k \in DOMAIN data' PROVE SizeOf(lru', k) = data'[k].size
  <2>1. CASE k = key
    BY <1>3, <1>4, <1>5, <2>1
  <2>2. CASE k # key
    <3>1. k \in DOMAIN data /\ data'[k] = data[k]
      BY <1>4, <2>2
    <3>2. SizeOf(lru, k) = data[k].size
      BY <3>1 DEF StoreInv, PolicyTracksData
    <3>3. QED
      BY <1>1, <1>3, <2>2, <3>1, <3>2
  <2>3. QED
    BY <2>1, <2>2
<1>7. PolicyTracksData'
  BY <1>1, <1>3, <1>4, <1>6 DEF PolicyTracksData
<1>8. DOMAIN data' \subseteq Keys
  BY <1>4 DEF StoreInv
<1>9. \A k \in DOMAIN data' : data'[k] \in [value : Values, size : Nat]
  BY <1>4, <1>5 DEF StoreInv
<1>10. lru'.list[1].key = key
  BY <1>3
<1>11. QED
  BY <1>3, <1>7, <1>8, <1>9, <1>10 DEF StoreInv
-----------------------------------------------------------------------------
(***************************************************************************)
(* DeadlineInv: what the steps do to expiries_, the sweeper's vector and   *)
(* the deadlines.                                                          *)
(***************************************************************************)
\* A key leaves data_, and its deadline leaves expiries_ or had left it.
LEMMA ForgetDeadline ==
  ASSUME DeadlineInv, NEW key,
         data' = Erase(data, key), due' = Erase(due, key),
         \/ expiries' = Erase(expiries, key)
         \/ expiries' = expiries,
         UNCHANGED <<sweeper, batch, now>>
  PROVE  DeadlineInv'
<1>1. /\ DOMAIN data' = DOMAIN data \ {key}
      /\ DOMAIN due' = DOMAIN due \ {key}
      /\ \A k \in DOMAIN due \ {key} : due'[k] = due[k]
  BY DEF Erase
<1>2. /\ DOMAIN expiries \ {key} \subseteq DOMAIN expiries'
      /\ DOMAIN expiries' \subseteq DOMAIN expiries
      /\ \A k \in DOMAIN expiries' : expiries'[k] = expiries[k]
  BY DEF Erase
<1>3. DeadlineKept'
  BY <1>1, <1>2 DEF DeadlineInv, DeadlineKept
<1>4. BatchInv'
  BY DEF DeadlineInv, BatchInv
<1>5. QED
  BY <1>1, <1>2, <1>3, <1>4 DEF DeadlineInv

\* set gives the key a new deadline, or none, in expiries_.
LEMMA SetDeadline ==
  ASSUME DeadlineInv, NEW key \in Keys, NEW ttl \in Ttls,
         DOMAIN data' = DOMAIN data \cup {key}, set_ttl(key, ttl),
         due' = IF ttl > 0 THEN Put(due, key, now + ttl) ELSE Erase(due, key),
         UNCHANGED <<sweeper, batch, now>>
  PROVE  DeadlineInv'
<1>0. ttl \in Int /\ now \in Int
  BY ValuesAssumption DEF DeadlineInv
<1>1. BatchInv'
  BY DEF DeadlineInv, BatchInv
<1>2. CASE ttl > 0
  <2> DEFINE t == now + ttl
  <2>1. due' = Put(due, key, t) /\ expiries' = Put(expiries, key, t)
    BY <1>2 DEF set_ttl
  <2>2. t \in Int
    BY <1>0
  <2> HIDE DEF t
  <2>3. /\ DOMAIN due' = DOMAIN due \cup {key}
        /\ due'[key] = t
        /\ \A k \in DOMAIN due : k # key => due'[k] = due[k]
    BY <2>1 DEF Put
  <2>4. /\ DOMAIN expiries' = DOMAIN expiries \cup {key}
        /\ expiries'[key] = t
        /\ \A k \in DOMAIN expiries : k # key => expiries'[k] = expiries[k]
    BY <2>1 DEF Put
  <2>5. DeadlineKept'
    BY <2>3, <2>4 DEF DeadlineInv, DeadlineKept
  <2>6. QED
    BY <1>1, <2>2, <2>3, <2>4, <2>5 DEF DeadlineInv
<1>3. CASE ~(ttl > 0)
  <2>1. due' = Erase(due, key) /\ expiries' = Erase(expiries, key)
    BY <1>3 DEF set_ttl
  <2>2. /\ DOMAIN due' = DOMAIN due \ {key}
        /\ \A k \in DOMAIN due \ {key} : due'[k] = due[k]
    BY <2>1 DEF Erase
  <2>3. /\ DOMAIN expiries' = DOMAIN expiries \ {key}
        /\ \A k \in DOMAIN expiries \ {key} : expiries'[k] = expiries[k]
    BY <2>1 DEF Erase
  <2>4. DeadlineKept'
    BY <2>2, <2>3 DEF DeadlineInv, DeadlineKept
  <2>5. QED
    BY <1>1, <2>2, <2>3, <2>4 DEF DeadlineInv
<1>4. QED
  BY <1>2, <1>3

\* The sweeper takes the passed deadlines: each stays accounted for.
LEMMA CollectDeadlines ==
  ASSUME DeadlineInv, SweepCollects
  PROVE  DeadlineInv'
<1>1. /\ sweeper = "collecting" /\ sweeper' = "expiring"
      /\ batch' = {k \in DOMAIN expiries : expiries[k] <= now}
      /\ DOMAIN expiries' = DOMAIN expiries \ batch'
      /\ \A k \in DOMAIN expiries' : expiries'[k] = expiries[k]
      /\ data' = data /\ due' = due /\ now' = now
  BY DEF SweepCollects, storageVars
<1>2. batch = {}
  BY <1>1 DEF DeadlineInv, BatchInv
<1>3. BatchInv'
  BY <1>1 DEF DeadlineInv, BatchInv
<1>4. DeadlineKept'
  <2>1. ASSUME NEW k \in DOMAIN due
        PROVE  k \in DOMAIN expiries' \/ (k \in batch' /\ due[k] <= now)
    <3>1. k \in DOMAIN expiries /\ k \in DOMAIN data
      BY <1>2 DEF DeadlineInv, DeadlineKept
    <3>2. due[k] = expiries[k]
      BY <3>1 DEF DeadlineInv, DeadlineKept
    <3>3. QED
      BY <1>1, <3>1, <3>2
  <2>2. QED
    BY <1>1, <2>1 DEF DeadlineInv, DeadlineKept
<1>5. QED
  BY <1>1, <1>3, <1>4 DEF DeadlineInv

\* The sweeper is done with a key that is not stored (any more).
LEMMA DropFromBatch ==
  ASSUME DeadlineInv, NEW key,
         batch' = batch \ {key}, sweeper = "expiring", sweeper' = sweeper,
         UNCHANGED <<expiries, now>>,
         \/ data' = Erase(data, key) /\ due' = Erase(due, key)
         \/ key \notin DOMAIN data /\ data' = data /\ due' = due
  PROVE  DeadlineInv'
<1>1. /\ DOMAIN data' = DOMAIN data \ {key}
      /\ DOMAIN due' = DOMAIN due \ {key}
      /\ \A k \in DOMAIN due \ {key} : due'[k] = due[k]
  <2>1. DOMAIN due \subseteq DOMAIN data
    BY DEF DeadlineInv, DeadlineKept
  <2>2. QED
    BY <2>1 DEF Erase
<1>2. BatchInv'
  BY DEF DeadlineInv, BatchInv
<1>3. DeadlineKept'
  BY <1>1 DEF DeadlineInv, DeadlineKept
<1>4. QED
  BY <1>1, <1>2, <1>3 DEF DeadlineInv
-----------------------------------------------------------------------------
(***************************************************************************)
(* LimitInv and CounterInv.                                                *)
(***************************************************************************)
\* The bucket array alone is within the limit.
LEMMA BucketsFit ==
  ASSUME LimitInv
  PROVE  bucket_bytes \in Nat /\ memory_limit \in Nat /\ bucket_bytes <= memory_limit
<1>1. BucketBytes[buckets] \in 0 .. memory_limit
  BY BucketAssumption DEF LimitInv
<1>2. memory_limit \in Nat
  BY LimitsAssumption
<1>3. QED
  BY <1>1, <1>2 DEF bucket_bytes

\* The policy's byte count is a natural number, and 0 when nothing is stored.
LEMMA BytesNat ==
  ASSUME StoreInv
  PROVE  /\ lru.memory_used \in Nat
         /\ DOMAIN data = {} => lru.memory_used = 0
<1>1. lru \in LRUObject /\ Sound(lru) /\ lru.index = DOMAIN data
  BY DEF StoreInv, PolicyTracksData
<1>2. QED
  BY <1>1, SoundParts, EmptyObject

\* A step that frees memory, or leaves it as it is, keeps the limit.
LEMMA StaysWithinLimit ==
  ASSUME StoreInv, StoreInv', LimitInv, Unlocked,
         setting' = setting, buckets' = buckets,
         lru'.memory_used <= lru.memory_used
  PROVE  LimitInv'
<1>1. /\ lru.memory_used \in Nat
      /\ lru'.memory_used \in Nat
      /\ bucket_bytes \in Nat
      /\ bucket_bytes' = bucket_bytes
      /\ memory_limit \in Nat
  <2>1. lru'.memory_used \in Nat
    <3>1. lru' \in LRUObject
      BY DEF StoreInv
    <3>2. QED
      BY <3>1 DEF LRUObject
  <2>2. QED
    BY <2>1, BytesNat, BucketsFit DEF bucket_bytes
<1>2. lru.memory_used + bucket_bytes <= memory_limit
  BY DEF LimitInv, WithinLimit, used_memory
<1>3. WithinLimit'
  BY <1>1, <1>2 DEF WithinLimit, used_memory
<1>4. setting' = {}
  BY DEF Unlocked
<1>5. QED
  BY <1>3, <1>4 DEF LimitInv

\* What value_bytes_ gives back is an integer.
LEMMA PayloadInt ==
  ASSUME StoreInv, NEW key
  PROVE  Payload(key) \in Int
<1>1. CASE key \in DOMAIN data
  <2>1. data[key].value \in Values
    BY <1>1 DEF StoreInv
  <2>2. QED
    BY <1>1, <2>1, AccountedNat DEF Payload
<1>2. CASE key \notin DOMAIN data
  BY <1>2 DEF Payload
<1>3. QED
  BY <1>1, <1>2
-----------------------------------------------------------------------------
(***************************************************************************)
(* The actions, one by one.                                                *)
(***************************************************************************)
LEMMA SetStep ==
  ASSUME IInv, NEW key \in Keys, NEW value \in Values, NEW ttl \in Ttls,
         Set(key, value, ttl)
  PROVE  IInv'
<1> USE DEF IInv
<1>1. /\ data' = Put(data, key, [value |-> value, size |-> Accounted(value)])
      /\ buckets' = LET n == Cardinality(DOMAIN data \cup {key})
                    IN  IF n > buckets THEN n ELSE buckets
      /\ stored' = IF key \in DOMAIN data THEN stored ELSE stored + 1
      /\ value_bytes' = value_bytes - Payload(key) + value.size
      /\ lru' = add(lru, key, Accounted(value))
      /\ set_ttl(key, ttl)
      /\ due' = IF ttl > 0 THEN Put(due, key, now + ttl) ELSE Erase(due, key)
      /\ setting' = {key}
      /\ calls' = calls + 1
      /\ UNCHANGED <<evictions, expired_keys, stop, sweeper, batch, now>>
  BY DEF Set, EmplaceData, Call, sweepVars
<1>2. StoreInv' /\ Len(lru'.list) > 0 /\ lru'.list[1].key = key
  BY <1>1, AddKey
<1>3. DeadlineInv'
  <2>1. DOMAIN data' = DOMAIN data \cup {key}
    BY <1>1 DEF Put
  <2>2. QED
    BY <1>1, <2>1, SetDeadline
<1>4. LimitInv'
  <2> DEFINE n == Cardinality(DOMAIN data \cup {key})
  <2>1. n \in Nat /\ n <= Cardinality(Keys) /\ Cardinality(Keys) \in Nat
    <3>1. IsFiniteSet(Keys)
      BY BucketAssumption
    <3>2. DOMAIN data \cup {key} \subseteq Keys
      BY DEF StoreInv
    <3>3. QED
      BY <3>1, <3>2, FS_Subset, FS_CardinalityType
  <2> HIDE DEF n
  <2>2. buckets' = n \/ buckets' = buckets
    BY <1>1 DEF n
  <2>3. buckets' \in 0 .. Cardinality(Keys)
    BY <2>1, <2>2 DEF LimitInv
  <2>4. setting' \in SUBSET Keys /\ ~Unlocked'
    BY <1>1 DEF Unlocked
  <2>5. WithinLimit'
    BY <2>4 DEF WithinLimit
  <2>6. QED
    BY <1>1, <1>2, <2>3, <2>4, <2>5 DEF LimitInv
<1>5. CounterInv'
  <2>1. value.size \in Int /\ Payload(key) \in Int
    BY AccountedNat, PayloadInt
  <2>2. value_bytes' \in Int /\ calls' \in Int /\ stored' \in Int
    BY <1>1, <2>1 DEF CounterInv
  <2>3. QED
    BY <1>1, <2>2 DEF CounterInv
<1>6. QED
  BY <1>2, <1>3, <1>4, <1>5

\* The steps that change nothing but the clock, the call count or the
\* sweeper's place.
LEMMA QuietStep ==
  ASSUME IInv,
         UNCHANGED <<data, lru, value_bytes, buckets, evictions, expired_keys,
                     setting, expiries, due, stored>>,
         stop' \in BOOLEAN, calls' \in Int, now' \in Int, now <= now',
         batch' = batch, BatchInv'
  PROVE  IInv'
<1> USE DEF IInv
<1>1. StoreInv'
  BY DEF StoreInv, PolicyTracksData
<1>2. DeadlineInv'
  <2>1. DeadlineKept'
    <3>1. ASSUME NEW k \in DOMAIN due
          PROVE  k \in DOMAIN expiries \/ (k \in batch /\ due[k] <= now')
      <4>1. due[k] \in Int /\ now \in Int /\ now' \in Int
        BY DEF DeadlineInv
      <4>2. k \in DOMAIN expiries \/ (k \in batch /\ due[k] <= now)
        BY DEF DeadlineInv, DeadlineKept
      <4>3. QED
        BY <4>1, <4>2
    <3>2. QED
      BY <3>1 DEF DeadlineInv, DeadlineKept
  <2>2. QED
    BY <2>1 DEF DeadlineInv
<1>3. LimitInv'
  BY DEF LimitInv, WithinLimit, Unlocked, used_memory, bucket_bytes
<1>4. CounterInv'
  BY DEF CounterInv
<1>5. QED
  BY <1>1, <1>2, <1>3, <1>4

\* A key leaves the store while no set is in progress.
LEMMA LeaveStep ==
  ASSUME IInv, NEW key, Unlocked, EraseData(key), lru' = remove(lru, key),
         UNCHANGED <<buckets, setting, stop>>, DeadlineInv',
         {evictions', expired_keys', calls', stored'} \subseteq Int
  PROVE  IInv'
<1> USE DEF IInv
<1>1. data' = Erase(data, key) /\ value_bytes' = value_bytes - Payload(key)
  BY DEF EraseData
<1>2. StoreInv' /\ lru'.memory_used <= lru.memory_used
  BY <1>1, RemoveKey
<1>3. LimitInv'
  BY <1>2, StaysWithinLimit
<1>4. value_bytes' \in Int
  BY <1>1, PayloadInt DEF CounterInv
<1>5. CounterInv'
  BY <1>4 DEF CounterInv
<1>6. QED
  BY <1>2, <1>3, <1>5

\* A value that could never fit is refused.
LEMMA SetRefusedStep ==
  ASSUME IInv, NEW key, NEW value, SetRefused(key, value)
  PROVE  IInv'
<1>1. /\ UNCHANGED <<data, lru, value_bytes, buckets, evictions, expired_keys,
                     setting, expiries, due, stored>>
      /\ stop' = stop /\ now' = now /\ batch' = batch /\ sweeper' = sweeper
      /\ calls' = calls + 1
  BY DEF SetRefused, Call, storageVars, sweepVars
<1>2. /\ stop' \in BOOLEAN /\ calls' \in Int /\ now' \in Int /\ now <= now'
      /\ BatchInv'
  BY <1>1 DEF IInv, CounterInv, DeadlineInv, BatchInv
<1>3. QED
  BY <1>1, <1>2, QuietStep

\* When only the blob's allocation may fail, a set that throws has done
\* nothing.
LEMMA SetThrowsStep ==
  ASSUME IInv, SafeThrows, NEW key, NEW value, NEW ttl, NEW point \in ThrowPoints,
         SetThrows(key, value, ttl, point)
  PROVE  IInv'
<1>1. point = "blob"
  BY DEF SafeThrows
<1>2. /\ UNCHANGED <<data, lru, value_bytes, buckets, evictions, expired_keys,
                     setting, expiries, due, stored>>
      /\ stop' = stop /\ now' = now /\ batch' = batch /\ sweeper' = sweeper
      /\ calls' = calls + 1
  BY <1>1 DEF SetThrows, Call, sweepVars
<1>3. /\ stop' \in BOOLEAN /\ calls' \in Int /\ now' \in Int /\ now <= now'
      /\ BatchInv'
  BY <1>2 DEF IInv, CounterInv, DeadlineInv, BatchInv
<1>4. QED
  BY <1>2, <1>3, QuietStep

\* One turn of set's eviction loop.
LEMMA EvictVictimStep ==
  ASSUME IInv, EvictVictim
  PROVE  IInv'
<1> DEFINE key == victim(lru)
           n == Len(lru.list)
<1> USE DEF IInv
<1>1. key \in DOMAIN data
  BY EvictKey DEF EvictVictim
<1>2. /\ ~Unlocked
      /\ EraseData(key)
      /\ lru' = evict(lru)
      /\ expiries' = Erase(expiries, key)
      /\ evictions' = evictions + 1
      /\ UNCHANGED <<setting, buckets, expired_keys, stop, sweeper, batch, now,
                     calls, stored>>
  BY <1>1 DEF EvictVictim, sweepVars
<1>3. /\ data' = Erase(data, key)
      /\ value_bytes' = value_bytes - Payload(key)
      /\ due' = Erase(due, key)
  BY <1>2 DEF EraseData
<1>4. StoreInv'
  BY <1>1, <1>2, <1>3, EvictKey
<1>5. DeadlineInv'
  BY <1>2, <1>3, ForgetDeadline
<1>6. ASSUME NEW k \in setting \cap DOMAIN data'
      PROVE  Len(lru'.list) > 0 /\ lru'.list[1].key = k
  <2>1. /\ lru \in LRUObject /\ Sound(lru) /\ lru.index # {}
        /\ lru.list \in Seq(Entry) /\ NoKeyTwice(lru.list)
    BY <1>1, SoundParts DEF StoreInv, PolicyTracksData
  <2>2. n > 0 /\ key = lru.list[n].key /\ lru'.list = EraseNode(lru.list, n)
    BY <1>2, <2>1, EvictForgets
  <2>3. n \in Nat
    BY <2>1, SeqIsFunction
  <2>4. k \in DOMAIN data /\ k # key
    BY <1>3 DEF Erase
  <2>5. lru.list[1].key = k
    BY <2>4 DEF LimitInv
  <2>6. n \in 1 .. n /\ n > 1
    BY <2>2, <2>3, <2>4, <2>5
  <2>7. /\ Len(lru'.list) = n - 1
        /\ \A j \in 1 .. Len(lru'.list) :
              lru'.list[j] = IF j < n THEN lru.list[j] ELSE lru.list[j + 1]
    BY <2>1, <2>2, <2>6, EraseNodeDrops
  <2>8. 1 \in 1 .. Len(lru'.list) /\ 1 < n
    BY <2>3, <2>6, <2>7
  <2>9. QED
    BY <2>5, <2>7, <2>8
<1>7. LimitInv'
  <2>1. WithinLimit'
    BY <1>2 DEF WithinLimit, Unlocked
  <2>2. QED
    BY <1>2, <1>6, <2>1 DEF LimitInv
<1>8. CounterInv'
  <2>1. value_bytes' \in Int /\ evictions' \in Int
    BY <1>2, <1>3, PayloadInt DEF CounterInv
  <2>2. QED
    BY <1>2, <2>1 DEF CounterInv
<1>9. QED
  BY <1>4, <1>5, <1>7, <1>8

\* set ends within the limit.
LEMMA SetReturnsStep ==
  ASSUME SafeThrows, IInv, SetReturns
  PROVE  IInv'
<1> USE DEF IInv
<1>1. /\ setting' = {}
      /\ DOMAIN data = {} \/ ~OverLimit
      /\ UNCHANGED <<data, lru, value_bytes, buckets, evictions, expired_keys,
                     expiries, stop, sweeper, batch, now, calls, due, stored>>
  BY DEF SetReturns, SafeThrows, storageVars, sweepVars
<1>2. StoreInv' /\ DeadlineInv' /\ CounterInv'
  BY <1>1 DEF StoreInv, PolicyTracksData, DeadlineInv, DeadlineKept, BatchInv,
              CounterInv
<1>3. ~OverLimit
  <2>1. CASE DOMAIN data = {}
    <3>1. lru.memory_used = 0
      BY <2>1, BytesNat
    <3>2. QED
      BY <3>1, BucketsFit DEF OverLimit, used_memory
  <2>2. QED
    BY <1>1, <2>1
<1>4. WithinLimit'
  <2>1. lru.memory_used \in Nat /\ bucket_bytes \in Nat /\ memory_limit \in Nat
    BY BytesNat, BucketsFit
  <2>2. 0 <= used_memory /\ used_memory <= memory_limit
    BY <1>3, <2>1 DEF OverLimit, used_memory
  <2>3. used_memory' = used_memory
    BY <1>1 DEF used_memory, bucket_bytes
  <2>4. QED
    BY <2>2, <2>3 DEF WithinLimit
<1>5. LimitInv'
  BY <1>1, <1>4 DEF LimitInv
<1>6. QED
  BY <1>2, <1>5

\* get, which touches the key in the policy.
LEMMA GetStep ==
  ASSUME IInv, NEW key \in Keys, Get(key)
  PROVE  IInv'
<1> USE DEF IInv
<1>1. /\ Unlocked
      /\ calls' = calls + 1
      /\ UNCHANGED <<buckets, evictions, setting, stop, sweeper, batch, now,
                     stored>>
  BY DEF Get, Call, sweepVars
<1>2. lru.index = DOMAIN data
  BY DEF StoreInv, PolicyTracksData
<1>3. CASE Expired(key)
  <2>1. /\ expiries' = Erase(expiries, key)
        /\ EraseData(key)
        /\ lru' = IF key \in DOMAIN data THEN remove(lru, key) ELSE lru
        /\ expired_keys' = expired_keys + 1
    BY <1>3 DEF Get
  <2>2. lru' = remove(lru, key)
    BY <1>2, <2>1 DEF remove
  <2>3. data' = Erase(data, key) /\ due' = Erase(due, key)
    BY <2>1 DEF EraseData
  <2>4. DeadlineInv'
    BY <1>1, <2>1, <2>3, ForgetDeadline
  <2>5. {evictions', expired_keys', calls', stored'} \subseteq Int
    BY <1>1, <2>1 DEF CounterInv
  <2>6. QED
    BY <1>1, <2>1, <2>2, <2>4, <2>5, LeaveStep
<1>4. CASE ~Expired(key)
  <2>1. /\ lru' = IF key \in DOMAIN data THEN touch(lru, key) ELSE lru
        /\ UNCHANGED <<data, value_bytes, due, expiries, expired_keys>>
    BY <1>4 DEF Get
  <2>2. lru' = touch(lru, key)
    BY <1>2, <2>1 DEF touch
  <2>3. StoreInv' /\ lru'.memory_used = lru.memory_used
    BY <2>1, <2>2, TouchKey
  <2>4. DeadlineInv' /\ CounterInv'
    BY <1>1, <2>1 DEF DeadlineInv, DeadlineKept, BatchInv, CounterInv
  <2>5. lru'.memory_used <= lru.memory_used
    BY <2>3, BytesNat
  <2>6. LimitInv'
    BY <1>1, <2>3, <2>5, StaysWithinLimit
  <2>7. QED
    BY <2>3, <2>4, <2>6
<1>5. QED
  BY <1>3, <1>4

\* del forgets the key everywhere.
LEMMA DelStep ==
  ASSUME IInv, NEW key \in Keys, Del(key)
  PROVE  IInv'
<1> USE DEF IInv
<1>1. /\ Unlocked
      /\ calls' = calls + 1
      /\ UNCHANGED <<buckets, evictions, expired_keys, setting, stop, sweeper,
                     batch, now>>
  BY DEF Del, Call, sweepVars
<1>2. CASE key \in DOMAIN data
  <2>1. /\ EraseData(key)
        /\ lru' = remove(lru, key)
        /\ expiries' = Erase(expiries, key)
        /\ stored' = stored - 1
    BY <1>2 DEF Del
  <2>2. data' = Erase(data, key) /\ due' = Erase(due, key)
    BY <2>1 DEF EraseData
  <2>3. DeadlineInv'
    BY <1>1, <2>1, <2>2, ForgetDeadline
  <2>4. {evictions', expired_keys', calls', stored'} \subseteq Int
    BY <1>1, <2>1 DEF CounterInv
  <2>5. QED
    BY <1>1, <2>1, <2>3, <2>4, LeaveStep
<1>3. CASE key \notin DOMAIN data
  <2>1. UNCHANGED <<data, lru, value_bytes, due, expiries, stored>>
    BY <1>3 DEF Del
  <2>2. /\ stop' \in BOOLEAN /\ calls' \in Int /\ now' \in Int /\ now <= now'
        /\ BatchInv'
    BY <1>1 DEF CounterInv, DeadlineInv, BatchInv
  <2>3. QED
    BY <1>1, <2>1, <2>2, QuietStep
<1>4. QED
  BY <1>2, <1>3

\* The sweeper expires one key of its vector.
LEMMA ExpireKeyStep ==
  ASSUME IInv, NEW key \in Keys, ExpireKey(key)
  PROVE  IInv'
<1> USE DEF IInv
<1>1. /\ sweeper = "expiring"
      /\ Unlocked
      /\ batch' = batch \ {key}
      /\ UNCHANGED <<buckets, evictions, setting, expiries, stop, sweeper, now,
                     calls, stored>>
  BY DEF ExpireKey
<1>2. CASE key \in DOMAIN data
  <2>1. /\ EraseData(key)
        /\ lru' = remove(lru, key)
        /\ expired_keys' = expired_keys + 1
    BY <1>2 DEF ExpireKey
  <2>2. data' = Erase(data, key) /\ due' = Erase(due, key)
    BY <2>1 DEF EraseData
  <2>3. DeadlineInv'
    BY <1>1, <2>2, DropFromBatch
  <2>4. {evictions', expired_keys', calls', stored'} \subseteq Int
    BY <1>1, <2>1 DEF CounterInv
  <2>5. QED
    BY <1>1, <2>1, <2>3, <2>4, LeaveStep
<1>3. CASE key \notin DOMAIN data
  <2>1. UNCHANGED <<data, lru, value_bytes, due, expired_keys>>
    BY <1>3 DEF ExpireKey
  <2>2. DeadlineInv'
    BY <1>1, <1>3, <2>1, DropFromBatch
  <2>3. StoreInv' /\ LimitInv' /\ CounterInv'
    BY <1>1, <2>1 DEF StoreInv, PolicyTracksData, LimitInv, WithinLimit,
       Unlocked, used_memory, bucket_bytes, CounterInv
  <2>4. QED
    BY <2>2, <2>3
<1>4. QED
  BY <1>2, <1>3

\* The sweeper takes the keys that are due.
LEMMA SweepCollectsStep ==
  ASSUME IInv, SweepCollects
  PROVE  IInv'
<1> USE DEF IInv
<1>1. UNCHANGED <<data, lru, value_bytes, buckets, evictions, expired_keys,
                  setting, stop, calls, stored>>
  BY DEF SweepCollects, storageVars
<1>2. DeadlineInv'
  BY CollectDeadlines
<1>3. StoreInv' /\ LimitInv' /\ CounterInv'
  BY <1>1 DEF StoreInv, PolicyTracksData, LimitInv, WithinLimit, Unlocked,
     used_memory, bucket_bytes, CounterInv
<1>4. QED
  BY <1>2, <1>3

\* The other steps: of the sweeper, of the clock, and the destructor's.
LEMMA PlaceStep ==
  ASSUME IInv,
         Destroy \/ SweepWakes \/ SweepLocks \/ SweepDone \/ Tick \/ UNCHANGED vars
  PROVE  IInv'
<1>1. /\ UNCHANGED <<data, lru, value_bytes, buckets, evictions, expired_keys,
                     setting, expiries, due, stored>>
      /\ batch' = batch /\ calls' = calls
      /\ stop' = stop \/ stop' = TRUE
      /\ now' = now \/ now' = now + 1
  BY DEF Destroy, SweepWakes, SweepLocks, SweepDone, Tick, vars, storageVars, sweepVars
<1>2. BatchInv'
  BY <1>1 DEF IInv, DeadlineInv, BatchInv, Destroy, SweepWakes, SweepLocks, SweepDone,
              Tick, vars, sweepVars
<1>3. stop' \in BOOLEAN
  BY <1>1, Zenon DEF IInv, CounterInv
<1>4. calls' \in Int
  BY <1>1 DEF IInv, CounterInv
<1>5. now' \in Int /\ now <= now'
  BY <1>1 DEF IInv, DeadlineInv
<1>6. QED
  BY <1>1, <1>2, <1>3, <1>4, <1>5, QuietStep
-----------------------------------------------------------------------------
\* The empty cache.
LEMMA InitIInv == Init => IInv
<1> SUFFICES ASSUME Init PROVE IInv
  OBVIOUS
<1> USE DEF Init
<1>1. DOMAIN Empty = {}
  BY DEF Empty
<1>2. EmptyLRU \in LRUObject /\ Sound(EmptyLRU) /\ lru = EmptyLRU
  BY EmptyLRUSound
<1>3. lru.index = {} /\ lru.memory_used = 0
  BY DEF EmptyLRU
<1>4. StoreInv
  BY <1>1, <1>2, <1>3 DEF StoreInv, PolicyTracksData
<1>5. DeadlineInv
  BY <1>1 DEF DeadlineInv, DeadlineKept, BatchInv
<1>6. LimitInv
  <2>1. buckets \in 0 .. Cardinality(Keys)
    BY BucketAssumption, FS_CardinalityType
  <2>2. BucketBytes[buckets] \in 0 .. memory_limit
    BY <2>1, BucketAssumption
  <2>3. 0 <= used_memory /\ used_memory <= memory_limit
    BY <1>3, <2>2, LimitsAssumption DEF used_memory, bucket_bytes
  <2>4. QED
    BY <2>1, <2>3 DEF LimitInv, WithinLimit
<1>7. CounterInv
  <2>1. {value_bytes, evictions, expired_keys, calls, stored} \subseteq Int
    OBVIOUS
  <2>2. stop \in BOOLEAN
    BY Zenon
  <2>3. QED
    BY <2>1, <2>2, Zenon DEF CounterInv
<1>8. QED
  BY <1>4, <1>5, <1>6, <1>7 DEF IInv

\* Every step keeps the invariant.
LEMMA NextIInv ==
  ASSUME SafeThrows
  PROVE  IInv /\ [Next]_vars => IInv'
<1> SUFFICES ASSUME IInv, [Next]_vars PROVE IInv'
  OBVIOUS
<1>1. CASE \E key \in Keys, value \in Values : SetRefused(key, value)
  BY <1>1, SetRefusedStep
<1>2. CASE \E key \in Keys, value \in Values, ttl \in Ttls : Set(key, value, ttl)
  BY <1>2, SetStep
<1>3. CASE \E key \in Keys, value \in Values, ttl \in Ttls, point \in ThrowPoints :
              SetThrows(key, value, ttl, point)
  BY <1>3, SetThrowsStep
<1>4. CASE EvictVictim
  BY <1>4, EvictVictimStep
<1>5. CASE SetReturns
  BY <1>5, SetReturnsStep
<1>6. CASE \E key \in Keys : Get(key)
  BY <1>6, GetStep
<1>7. CASE \E key \in Keys : Del(key)
  BY <1>7, DelStep
<1>8. CASE SweepCollects
  BY <1>8, SweepCollectsStep
<1>9. CASE Expire
  BY <1>9, ExpireKeyStep DEF Expire
<1>10. CASE \/ Destroy \/ SweepWakes \/ SweepLocks \/ SweepDone \/ Tick \/ Gone
             \/ UNCHANGED vars
  BY <1>10, PlaceStep DEF Gone
<1>11. QED
  BY <1>1, <1>2, <1>3, <1>4, <1>5, <1>6, <1>7, <1>8, <1>9, <1>10
     DEF Next, Client, Sweeper

\* So it always holds.
LEMMA AlwaysIInv ==
  ASSUME SafeThrows
  PROVE  Spec => []IInv
BY InitIInv, NextIInv, PTL DEF Spec
-----------------------------------------------------------------------------
\* Every variable of Storage, LRU and TTLManager keeps its type; in
\* particular memory_used_, a size_t, never wraps below zero.
THEOREM StorageTypeCorrect ==
  ASSUME SafeThrows
  PROVE  Spec => []TypeOK
<1>1. IInv => TypeOK
  <2> SUFFICES ASSUME IInv PROVE TypeOK
    OBVIOUS
  <2>1. lru \in [list : Seq(Entry), index : SUBSET Keys, memory_used : Nat]
    BY DEF IInv, StoreInv, LRUObject
  <2>2. stop \in BOOLEAN
    BY DEF IInv, CounterInv
  <2>3. {value_bytes, evictions, expired_keys, now, calls, stored} \subseteq Int
    BY DEF IInv, CounterInv, DeadlineInv
  <2>4. QED
    BY <2>1, <2>2, <2>3
       DEF IInv, StoreInv, DeadlineInv, BatchInv, LimitInv, TypeOK
<1>2. QED
  BY <1>1, AlwaysIInv, PTL

\* data_ and the policy hold the same keys with the same sizes, and the
\* policy is sound, whatever the client and the sweeper do.
THEOREM PolicyAlwaysTracksData ==
  ASSUME SafeThrows
  PROVE  Spec => []PolicyTracksData
<1>1. IInv => PolicyTracksData
  BY DEF IInv, StoreInv
<1>2. QED
  BY <1>1, AlwaysIInv, PTL

\* used_memory() is within memory_limit_ whenever Storage::lock_ is free.
THEOREM MemoryLimitEnforced ==
  ASSUME SafeThrows
  PROVE  Spec => []WithinLimit
<1>1. IInv => WithinLimit
  BY DEF IInv, LimitInv
<1>2. QED
  BY <1>1, AlwaysIInv, PTL

\* A stored value with a TTL has its deadline on file, or in the sweeper's
\* hands once it has passed.
THEOREM DeadlineAlwaysKept ==
  ASSUME SafeThrows
  PROVE  Spec => []DeadlineKept
<1>1. IInv => DeadlineKept
  BY DEF IInv, DeadlineInv
<1>2. QED
  BY <1>1, AlwaysIInv, PTL

\* get serves a value past its deadline only while the sweeper holds the key
\* between expired_keys() and expire_key().
THEOREM StaleReadsOnlyInWindow ==
  ASSUME SafeThrows
  PROVE  Spec => StaleOnlyInWindow
<1> DEFINE A == \A k \in Keys :
        Get(k) /\ k \in DOMAIN data' /\ k \in DOMAIN due /\ due[k] <= now
          => k \in batch
<1>1. IInv => A
  <2> SUFFICES ASSUME IInv, NEW k \in Keys, Get(k), k \in DOMAIN data',
                      k \in DOMAIN due, due[k] <= now, k \notin batch
               PROVE  FALSE
    OBVIOUS
  <2>1. k \in DOMAIN expiries /\ due[k] = expiries[k]
    BY DEF IInv, DeadlineInv, DeadlineKept
  <2>2. Expired(k)
    BY <2>1 DEF Expired
  <2>3. data' = Erase(data, k)
    BY <2>2 DEF Get, EraseData
  <2>4. QED
    BY <2>3 DEF Erase
<1>2. IInv /\ [Next]_vars => [A]_vars
  BY <1>1
<1>3. QED
  BY <1>2, AlwaysIInv, PTL DEF Spec, StaleOnlyInWindow

\* Until it is the only key left, the key being set is not evicted: it heads
\* the policy's list and the victim is at the tail.
THEOREM NewestEvictedLast ==
  ASSUME SafeThrows
  PROVE  Spec => NewestSurvives
<1> DEFINE A == \A k \in setting \cap DOMAIN data :
        k \notin DOMAIN data' => DOMAIN data = {k}
<1>1. IInv /\ [Next]_vars => A
  <2> SUFFICES ASSUME IInv, [Next]_vars, NEW k \in setting \cap DOMAIN data,
                      k \notin DOMAIN data'
               PROVE  DOMAIN data = {k}
    OBVIOUS
  <2>1. ~Unlocked
    BY DEF Unlocked
  <2>2. EvictVictim
    BY <2>1 DEF Next, Client, Sweeper, Expire, SetRefused, Set, SetThrows,
       SetReturns, Get, Del, Destroy, SweepWakes, SweepLocks, SweepCollects,
       ExpireKey, SweepDone, Tick, Gone, Call, vars, storageVars
  <2>3. data' = Erase(data, victim(lru))
    BY <2>2 DEF EvictVictim, EraseData
  <2>4. victim(lru) = k
    BY <2>3 DEF Erase
  <2>5. Len(lru.list) > 0 /\ lru.list[1].key = k
    BY DEF IInv, LimitInv
  <2>6. lru.index = DOMAIN data /\ Sound(lru) /\ lru \in LRUObject
    BY DEF IInv, StoreInv, PolicyTracksData
  <2>7. lru.list[Len(lru.list)].key = k
    BY <2>4, <2>5 DEF victim
  <2>8. lru.list \in Seq(Entry) /\ NoKeyTwice(lru.list)
           /\ lru.index = KeysOf(lru.list)
    BY <2>6 DEF LRUObject, Sound, IndexMatches
  <2>9. lru.index = {k}
    BY <2>5, <2>7, <2>8 DEF NoKeyTwice, KeysOf
  <2>10. QED
    BY <2>6, <2>9
<1>2. IInv /\ [Next]_vars => [A]_vars
  BY <1>1
<1>3. QED
  BY <1>2, AlwaysIInv, PTL DEF Spec, NewestSurvives
-----------------------------------------------------------------------------
(***************************************************************************)
(* The accounts.                                                           *)
(***************************************************************************)
Charges  == [k \in DOMAIN data |-> KeySize[k] + Accounted(data[k].value)]
Payloads == [k \in DOMAIN data |-> data[k].value.size]

\* An entry is accounted for with the size of its value.
SizesKept == \A k \in DOMAIN data : data[k].size = Accounted(data[k].value)

AccountInv == SizesKept /\ BytesMatchData /\ KeysAccounted

\* What there is to add up.
LEMMA Addable ==
  ASSUME StoreInv
  PROVE  /\ IsFiniteSet(DOMAIN data) /\ Cardinality(DOMAIN data) \in Nat
         /\ DOMAIN Charges = DOMAIN data /\ DOMAIN Payloads = DOMAIN data
         /\ \A k \in DOMAIN data : Charges[k] \in Int /\ Payloads[k] \in Int
<1>1. IsFiniteSet(DOMAIN data) /\ Cardinality(DOMAIN data) \in Nat
  BY BucketAssumption, FS_Subset, FS_CardinalityType DEF StoreInv
<1>2. \A k \in DOMAIN data : data[k].value \in Values /\ KeySize[k] \in Nat
  BY KeySizeAssumption DEF StoreInv
<1>3. QED
  BY <1>1, <1>2, AccountedNat DEF Charges, Payloads

\* A key that leaves the store takes its bytes off both counts.
LEMMA EraseAccounts ==
  ASSUME StoreInv, AccountInv, NEW key, EraseData(key),
         lru'.memory_used = lru.memory_used - IF key \in DOMAIN data
                                              THEN KeySize[key] + SizeOf(lru, key)
                                              ELSE 0
  PROVE  SizesKept' /\ BytesMatchData'
<1>1. /\ DOMAIN data' = DOMAIN data \ {key}
      /\ \A k \in DOMAIN data' : data'[k] = data[k]
      /\ value_bytes' = value_bytes - Payload(key)
  BY DEF EraseData, Erase
<1>2. /\ DOMAIN Charges' = DOMAIN Charges \ {key}
      /\ \A k \in DOMAIN Charges' : Charges'[k] = Charges[k]
      /\ DOMAIN Payloads' = DOMAIN Payloads \ {key}
      /\ \A k \in DOMAIN Payloads' : Payloads'[k] = Payloads[k]
  BY <1>1 DEF Charges, Payloads, Accounted
<1>3. /\ Total(Charges') \in Int
      /\ Total(Charges) = Total(Charges') + IF key \in DOMAIN data THEN Charges[key] ELSE 0
  <2>1. /\ DOMAIN Charges = DOMAIN data /\ IsFiniteSet(DOMAIN Charges)
        /\ \A k \in DOMAIN Charges : Charges[k] \in Int
    BY Addable
  <2> DEFINE f == Charges
             h == Charges'
  <2>2. /\ DOMAIN h = DOMAIN f \ {key} /\ \A k \in DOMAIN h : h[k] = f[k]
        /\ IsFiniteSet(DOMAIN f) /\ \A k \in DOMAIN f : f[k] \in Int
    BY <1>2, <2>1
  <2> HIDE DEF f, h
  <2>3. /\ Total(h) \in Int
        /\ Total(f) = Total(h) + IF key \in DOMAIN f THEN f[key] ELSE 0
    BY <2>2, TotalErase, Zenon
  <2>4. QED
    BY <2>1, <2>3 DEF f, h
<1>4. /\ Total(Payloads') \in Int
      /\ Total(Payloads) = Total(Payloads')
                             + IF key \in DOMAIN data THEN Payloads[key] ELSE 0
  <2>1. /\ DOMAIN Payloads = DOMAIN data /\ IsFiniteSet(DOMAIN Payloads)
        /\ \A k \in DOMAIN Payloads : Payloads[k] \in Int
    BY Addable
  <2> DEFINE f == Payloads
             h == Payloads'
  <2>2. /\ DOMAIN h = DOMAIN f \ {key} /\ \A k \in DOMAIN h : h[k] = f[k]
        /\ IsFiniteSet(DOMAIN f) /\ \A k \in DOMAIN f : f[k] \in Int
    BY <1>2, <2>1
  <2> HIDE DEF f, h
  <2>3. /\ Total(h) \in Int
        /\ Total(f) = Total(h) + IF key \in DOMAIN f THEN f[key] ELSE 0
    BY <2>2, TotalErase, Zenon
  <2>4. QED
    BY <2>1, <2>3 DEF f, h
<1>5. key \in DOMAIN data => /\ Charges[key] = KeySize[key] + SizeOf(lru, key)
                             /\ Charges[key] \in Int
  BY Addable DEF Charges, AccountInv, SizesKept, StoreInv, PolicyTracksData
<1>6. Payload(key) = IF key \in DOMAIN data THEN Payloads[key] ELSE 0
  BY DEF Payload, Payloads
<1>7. Payload(key) \in Int
  BY PayloadInt
<1>8. lru.memory_used = Total(Charges) /\ value_bytes = Total(Payloads)
  BY DEF AccountInv, BytesMatchData, Charges, Payloads
<1>9. lru'.memory_used = Total(Charges')
  BY <1>3, <1>5, <1>8
<1>10. value_bytes' = Total(Payloads')
  BY <1>1, <1>4, <1>6, <1>7, <1>8
<1>11. SizesKept'
  BY <1>1 DEF AccountInv, SizesKept, Accounted
<1>12. QED
  BY <1>9, <1>10, <1>11 DEF BytesMatchData, Charges, Payloads, Accounted

\* What does not touch the store leaves the accounts as they are.
LEMMA SameAccounts ==
  ASSUME AccountInv, lru'.memory_used = lru.memory_used,
         UNCHANGED <<data, value_bytes, stored, evictions>>,
         expired_keys \in Int, expired_keys' \in Int, expired_keys <= expired_keys',
         stored \in Int, evictions \in Int, Cardinality(DOMAIN data) \in Nat
  PROVE  AccountInv'
<1>1. SizesKept' /\ BytesMatchData'
  BY DEF AccountInv, SizesKept, BytesMatchData, Accounted
<1>2. KeysAccounted'
  BY DEF AccountInv, KeysAccounted
<1>3. QED
  BY <1>1, <1>2 DEF AccountInv

\* set charges the new value and takes off the one it replaces.
LEMMA SetAccounts ==
  ASSUME IInv, AccountInv, NEW key \in Keys, NEW value \in Values, NEW ttl \in Ttls,
         Set(key, value, ttl)
  PROVE  AccountInv'
<1>1. /\ data' = Put(data, key, [value |-> value, size |-> Accounted(value)])
      /\ stored' = IF key \in DOMAIN data THEN stored ELSE stored + 1
      /\ value_bytes' = value_bytes - Payload(key) + value.size
      /\ lru' = add(lru, key, Accounted(value))
      /\ UNCHANGED <<evictions, expired_keys>>
  BY DEF Set, EmplaceData
<1>2. StoreInv /\ StoreInv'
  BY SetStep DEF IInv
<1>3. /\ DOMAIN data' = DOMAIN data \cup {key}
      /\ \A k \in DOMAIN data' :
           data'[k] = IF k = key THEN [value |-> value, size |-> Accounted(value)]
                                 ELSE data[k]
  BY <1>1 DEF Put
<1> DEFINE charge == KeySize[key] + Accounted(value)
<1>4. charge \in Int /\ value.size \in Int /\ KeySize[key] \in Nat
      /\ Accounted(value) \in Nat
  BY AccountedNat, KeySizeAssumption
<1>5. /\ DOMAIN Charges' = DOMAIN Charges \cup {key}
      /\ Charges'[key] = charge
      /\ \A k \in DOMAIN Charges \ {key} : Charges'[k] = Charges[k]
      /\ DOMAIN Payloads' = DOMAIN Payloads \cup {key}
      /\ Payloads'[key] = value.size
      /\ \A k \in DOMAIN Payloads \ {key} : Payloads'[k] = Payloads[k]
  BY <1>3 DEF Charges, Payloads, Accounted
<1> HIDE DEF charge
<1>6. Total(Charges') = Total(Charges)
                          - (IF key \in DOMAIN data THEN Charges[key] ELSE 0) + charge
  <2>1. /\ DOMAIN Charges = DOMAIN data /\ IsFiniteSet(DOMAIN Charges)
        /\ \A k \in DOMAIN Charges : Charges[k] \in Int
    BY <1>2, Addable
  <2>2. Charges'[key] \in Int
    BY <1>4, <1>5
  <2>3. Total(Charges') = Total(Charges)
                            - (IF key \in DOMAIN data THEN Charges[key] ELSE 0)
                            + Charges'[key]
    BY <1>5, <2>1, <2>2, TotalPut
  <2>4. QED
    BY <1>5, <2>3
<1>7. Total(Payloads') = Total(Payloads)
                           - (IF key \in DOMAIN data THEN Payloads[key] ELSE 0)
                           + value.size
  <2>1. /\ DOMAIN Payloads = DOMAIN data /\ IsFiniteSet(DOMAIN Payloads)
        /\ \A k \in DOMAIN Payloads : Payloads[k] \in Int
    BY <1>2, Addable
  <2>2. Payloads'[key] \in Int
    BY <1>4, <1>5
  <2>3. Total(Payloads') = Total(Payloads)
                             - (IF key \in DOMAIN data THEN Payloads[key] ELSE 0)
                             + Payloads'[key]
    BY <1>5, <2>1, <2>2, TotalPut, ZenonT(30)
  <2>4. QED
    BY <1>5, <2>3
<1>8. lru'.memory_used = lru.memory_used
                           - (IF key \in DOMAIN data THEN Charges[key] ELSE 0) + charge
  <2>1. /\ lru \in LRUObject /\ Sound(lru) /\ lru.index = DOMAIN data
        /\ \A k \in DOMAIN data : SizeOf(lru, k) = data[k].size
    BY <1>2 DEF StoreInv, PolicyTracksData
  <2>2. /\ key \in lru.index =>
             lru'.memory_used = lru.memory_used - (KeySize[key] + SizeOf(lru, key))
                                  + charge
        /\ key \notin lru.index => lru'.memory_used = lru.memory_used + charge
    <3> DEFINE p == Node(lru.list, key)
               e == [key |-> key, size |-> Accounted(value)]
    <3>1. Charge(e) = charge
      BY DEF Charge, charge
    <3>2. key \in lru.index =>
            lru'.memory_used = lru.memory_used - Charge(lru.list[p]) + Charge(e)
      BY <1>1 DEF add
    <3>3. key \notin lru.index => lru'.memory_used = lru.memory_used + Charge(e)
      BY <1>1 DEF add
    <3>4. key \in lru.index => Charge(lru.list[p]) = KeySize[key] + SizeOf(lru, key)
      BY <2>1, SoundParts, NodeOfKey DEF SizeOf, Charge
    <3> HIDE DEF p, e
    <3>5. QED
      BY <3>1, <3>2, <3>3, <3>4
  <2>3. key \in DOMAIN data => Charges[key] = KeySize[key] + SizeOf(lru, key)
    BY <2>1 DEF Charges, AccountInv, SizesKept
  <2>4. lru.memory_used \in Int
    BY <2>1, SoundParts
  <2>5. QED
    BY <1>4, <2>1, <2>2, <2>3, <2>4
<1>9. Payload(key) = IF key \in DOMAIN data THEN Payloads[key] ELSE 0
  BY DEF Payload, Payloads
<1>10. lru.memory_used = Total(Charges) /\ value_bytes = Total(Payloads)
  BY DEF AccountInv, BytesMatchData, Charges, Payloads
<1>11. BytesMatchData'
  BY <1>1, <1>6, <1>7, <1>8, <1>9, <1>10 DEF BytesMatchData, Charges, Payloads, Accounted
<1>12. SizesKept'
  BY <1>3 DEF AccountInv, SizesKept, Accounted
<1>13. KeysAccounted'
  <2>1. IsFiniteSet(DOMAIN data) /\ Cardinality(DOMAIN data) \in Nat
    BY <1>2, Addable
  <2>2. Cardinality(DOMAIN data') = IF key \in DOMAIN data THEN Cardinality(DOMAIN data)
                                    ELSE Cardinality(DOMAIN data) + 1
    BY <1>3, <2>1, FS_AddElement
  <2>3. {stored, evictions, expired_keys} \subseteq Int
    BY DEF IInv, CounterInv
  <2>4. stored <= Cardinality(DOMAIN data) + evictions + expired_keys
    BY DEF AccountInv, KeysAccounted
  <2> HIDE DEF KeysAccounted
  <2>5. stored' <= Cardinality(DOMAIN data') + evictions + expired_keys
    BY <1>1, <2>1, <2>2, <2>3, <2>4
  <2>6. QED
    BY <1>1, <2>5 DEF KeysAccounted
<1>14. QED
  BY <1>11, <1>12, <1>13 DEF AccountInv

\* What the policy takes off when it forgets a key.
LEMMA RemoveCharges ==
  ASSUME StoreInv, NEW key
  PROVE  remove(lru, key).memory_used =
           lru.memory_used - IF key \in DOMAIN data
                             THEN KeySize[key] + SizeOf(lru, key) ELSE 0
<1> DEFINE p == Node(lru.list, key)
<1>1. lru \in LRUObject /\ Sound(lru) /\ lru.index = DOMAIN data
  BY DEF StoreInv, PolicyTracksData
<1>2. lru.memory_used \in Int
  BY <1>1, SoundParts
<1>3. key \in lru.index => /\ remove(lru, key).memory_used
                                = lru.memory_used - Charge(lru.list[p])
                           /\ Charge(lru.list[p]) = KeySize[key] + SizeOf(lru, key)
  BY <1>1, SoundParts, NodeOfKey DEF remove, SizeOf, Charge
<1>4. key \notin lru.index => remove(lru, key).memory_used = lru.memory_used
  BY DEF remove
<1> HIDE DEF p
<1>5. QED
  BY <1>1, <1>2, <1>3, <1>4

\* evict() gives back what the victim was charged.
LEMMA EvictCharges ==
  ASSUME StoreInv, DOMAIN data # {}
  PROVE  evict(lru).memory_used =
           lru.memory_used - IF victim(lru) \in DOMAIN data
                             THEN KeySize[victim(lru)] + SizeOf(lru, victim(lru)) ELSE 0
<1> DEFINE n == Len(lru.list)
           key == victim(lru)
<1>1. lru \in LRUObject /\ Sound(lru) /\ lru.index = DOMAIN data
  BY DEF StoreInv, PolicyTracksData
<1>2. n > 0 /\ key = lru.list[n].key /\ key \in DOMAIN data
  BY <1>1, EvictForgets
<1>3. n \in 1 .. Len(lru.list) /\ lru.list # <<>>
  BY <1>1, <1>2, SoundParts, SeqIsFunction
<1>4. evict(lru).memory_used = lru.memory_used - Charge(lru.list[n])
  BY <1>3 DEF evict
<1>5. SizeOf(lru, key) = lru.list[n].size
  BY <1>1, <1>2, <1>3, SoundParts, SizeOfEntry
<1>6. Charge(lru.list[n]) = KeySize[key] + SizeOf(lru, key)
  BY <1>2, <1>5 DEF Charge
<1> HIDE DEF n, key
<1>7. QED
  BY <1>2, <1>4, <1>6 DEF key

\* A key that leaves is counted, unless the client deletes it.
LEMMA LeaveAccounts ==
  ASSUME IInv, AccountInv, NEW key \in DOMAIN data, EraseData(key),
         lru'.memory_used = lru.memory_used - (KeySize[key] + SizeOf(lru, key)),
         {stored', evictions', expired_keys'} \subseteq Int,
         stored' - evictions' - expired_keys' <= stored - evictions - expired_keys - 1
  PROVE  AccountInv'
<1>1. SizesKept' /\ BytesMatchData'
  BY EraseAccounts DEF IInv
<1>2. DOMAIN data' = DOMAIN data \ {key}
  BY DEF EraseData, Erase
<1>3. IsFiniteSet(DOMAIN data) /\ Cardinality(DOMAIN data) \in Nat
  BY Addable DEF IInv
<1>4. Cardinality(DOMAIN data') = Cardinality(DOMAIN data) - 1
  BY <1>2, <1>3, FS_RemoveElement
<1>5. {stored, evictions, expired_keys} \subseteq Int
  BY DEF IInv, CounterInv
<1>6. stored <= Cardinality(DOMAIN data) + evictions + expired_keys
  BY DEF AccountInv, KeysAccounted
<1>7. KeysAccounted'
  BY <1>3, <1>4, <1>5, <1>6 DEF KeysAccounted
<1>8. QED
  BY <1>1, <1>7 DEF AccountInv

\* The steps, one by one.
LEMMA NextAccounts ==
  ASSUME SafeThrows, IInv, AccountInv, [Next]_vars
  PROVE  AccountInv'
<1>1. /\ StoreInv /\ lru.index = DOMAIN data /\ lru \in LRUObject /\ Sound(lru)
      /\ {stored, evictions, expired_keys} \subseteq Int
      /\ Cardinality(DOMAIN data) \in Nat
  BY Addable DEF IInv, StoreInv, PolicyTracksData, CounterInv
<1>2. ASSUME UNCHANGED <<data, lru, value_bytes, stored, evictions, expired_keys>>
      PROVE  AccountInv'
  BY <1>1, <1>2, SameAccounts
<1>3. ASSUME NEW key \in Keys, NEW value \in Values, NEW ttl \in Ttls,
             NEW point \in ThrowPoints, SetThrows(key, value, ttl, point)
      PROVE  AccountInv'
  <2>1. point = "blob"
    BY DEF SafeThrows
  <2>2. UNCHANGED <<data, lru, value_bytes, stored, evictions, expired_keys>>
    BY <1>3, <2>1 DEF SetThrows
  <2>3. QED
    BY <1>2, <2>2
<1>4. CASE EvictVictim
  <2> DEFINE key == victim(lru)
  <2>1. DOMAIN data # {} /\ lru' = evict(lru)
    BY <1>4 DEF EvictVictim
  <2>2. key \in DOMAIN data
    BY <1>1, <2>1, EvictKey
  <2>3. EraseData(key) /\ evictions' = evictions + 1 /\ UNCHANGED <<expired_keys, stored>>
    BY <1>4, <2>2 DEF EvictVictim
  <2>4. lru'.memory_used = lru.memory_used - (KeySize[key] + SizeOf(lru, key))
    BY <1>1, <2>1, <2>2, EvictCharges
  <2> HIDE DEF key
  <2>5. /\ {stored', evictions', expired_keys'} \subseteq Int
        /\ stored' - evictions' - expired_keys' <= stored - evictions - expired_keys - 1
    BY <1>1, <2>3
  <2>6. QED
    BY <2>2, <2>3, <2>4, <2>5, LeaveAccounts
<1>5. ASSUME NEW key \in Keys, Get(key)
      PROVE  AccountInv'
  <2>1. UNCHANGED <<evictions, stored>>
    BY <1>5 DEF Get
  <2>2. CASE Expired(key) /\ key \in DOMAIN data
    <3>1. EraseData(key) /\ lru' = remove(lru, key) /\ expired_keys' = expired_keys + 1
      BY <1>5, <2>2 DEF Get
    <3>2. lru'.memory_used = lru.memory_used - (KeySize[key] + SizeOf(lru, key))
      BY <1>1, <2>2, <3>1, RemoveCharges
    <3>3. /\ {stored', evictions', expired_keys'} \subseteq Int
          /\ stored' - evictions' - expired_keys' <= stored - evictions - expired_keys - 1
      BY <1>1, <2>1, <3>1
    <3>4. QED
      BY <2>2, <3>1, <3>2, <3>3, LeaveAccounts
  <2>3. CASE Expired(key) /\ key \notin DOMAIN data
    <3>1. EraseData(key) /\ lru' = lru /\ expired_keys' = expired_keys + 1
      BY <1>5, <2>3 DEF Get
    <3>2. SizesKept' /\ BytesMatchData'
      <4>1. lru'.memory_used = lru.memory_used - 0
        BY <1>1, <3>1, SoundParts
      <4>2. QED
        BY <1>1, <2>3, <3>1, <4>1, EraseAccounts
    <3>3. DOMAIN data' = DOMAIN data
      BY <2>3, <3>1 DEF EraseData, Erase
    <3>4. KeysAccounted'
      BY <1>1, <2>1, <3>1, <3>3 DEF AccountInv, KeysAccounted
    <3>5. QED
      BY <3>2, <3>4 DEF AccountInv
  <2>4. CASE ~Expired(key)
    <3>1. /\ UNCHANGED <<data, value_bytes, expired_keys>>
          /\ lru' = lru \/ lru' = touch(lru, key)
      BY <1>5, <2>4 DEF Get
    <3>2. lru'.memory_used = lru.memory_used
      BY <1>1, <3>1, TouchKeeps
    <3>3. QED
      BY <1>1, <2>1, <3>1, <3>2, SameAccounts
  <2>5. QED
    BY <2>2, <2>3, <2>4
<1>6. ASSUME NEW key \in Keys, Del(key)
      PROVE  AccountInv'
  <2>1. UNCHANGED <<evictions, expired_keys>>
    BY <1>6 DEF Del
  <2>2. CASE key \in DOMAIN data
    <3>1. EraseData(key) /\ lru' = remove(lru, key) /\ stored' = stored - 1
      BY <1>6, <2>2 DEF Del
    <3>2. lru'.memory_used = lru.memory_used - (KeySize[key] + SizeOf(lru, key))
      BY <1>1, <2>2, <3>1, RemoveCharges
    <3>3. /\ {stored', evictions', expired_keys'} \subseteq Int
          /\ stored' - evictions' - expired_keys' <= stored - evictions - expired_keys - 1
      BY <1>1, <2>1, <3>1
    <3>4. QED
      BY <2>2, <3>1, <3>2, <3>3, LeaveAccounts
  <2>3. CASE key \notin DOMAIN data
    BY <1>2, <1>6, <2>1, <2>3 DEF Del
  <2>4. QED
    BY <2>2, <2>3
<1>7. ASSUME NEW key \in Keys, ExpireKey(key)
      PROVE  AccountInv'
  <2>1. UNCHANGED <<evictions, stored>>
    BY <1>7 DEF ExpireKey
  <2>2. CASE key \in DOMAIN data
    <3>1. EraseData(key) /\ lru' = remove(lru, key) /\ expired_keys' = expired_keys + 1
      BY <1>7, <2>2 DEF ExpireKey
    <3>2. lru'.memory_used = lru.memory_used - (KeySize[key] + SizeOf(lru, key))
      BY <1>1, <2>2, <3>1, RemoveCharges
    <3>3. /\ {stored', evictions', expired_keys'} \subseteq Int
          /\ stored' - evictions' - expired_keys' <= stored - evictions - expired_keys - 1
      BY <1>1, <2>1, <3>1
    <3>4. QED
      BY <2>2, <3>1, <3>2, <3>3, LeaveAccounts
  <2>3. CASE key \notin DOMAIN data
    BY <1>2, <1>7, <2>1, <2>3 DEF ExpireKey
  <2>4. QED
    BY <2>2, <2>3
<1>8. ASSUME NEW key \in Keys, NEW value \in Values, SetRefused(key, value)
      PROVE  AccountInv'
  BY <1>2, <1>8 DEF SetRefused, storageVars
<1>9. CASE \/ SetReturns \/ Destroy \/ SweepWakes \/ SweepLocks \/ SweepCollects
            \/ SweepDone \/ Tick \/ Gone \/ UNCHANGED vars
  BY <1>2, <1>9 DEF SetReturns, Destroy, SweepWakes, SweepLocks, SweepCollects,
                    SweepDone, Tick, Gone, vars, storageVars
<1>10. QED
  BY <1>3, <1>4, <1>5, <1>6, <1>7, <1>8, <1>9, SetAccounts
     DEF Next, Client, Sweeper, Expire

\* An empty map adds up to nothing.
LEMMA InitAccounts == Init => AccountInv
<1> SUFFICES ASSUME Init PROVE AccountInv
  OBVIOUS
<1>1. DOMAIN data = {} /\ lru.memory_used = 0 /\ value_bytes = 0
      /\ stored = 0 /\ evictions = 0 /\ expired_keys = 0
  BY DEF Init, Empty, EmptyLRU
<1>2. IsFiniteSet({}) /\ Cardinality({}) = 0
  BY FS_EmptySet
<1>3. ASSUME NEW f, DOMAIN f = {}
      PROVE  Total(f) = 0
  <2>1. PICK g : Sums(f, g) /\ Total(f) = g[DOMAIN f]
    BY <1>2, <1>3, TotalIsSum
  <2>2. QED
    BY <1>3, <2>1 DEF Sums
<1>4. BytesMatchData
  BY <1>1, <1>3 DEF BytesMatchData
<1>5. SizesKept /\ KeysAccounted
  BY <1>1, <1>2 DEF SizesKept, KeysAccounted
<1>6. QED
  BY <1>4, <1>5 DEF AccountInv

\* So the accounts are always exact.
LEMMA AlwaysAccountInv ==
  ASSUME SafeThrows
  PROVE  Spec => []AccountInv
<1>1. IInv /\ AccountInv /\ [Next]_vars => AccountInv'
  BY NextAccounts
<1>2. QED
  BY <1>1, InitAccounts, AlwaysIInv, PTL DEF Spec

\* memory_used() and value_bytes_ are exactly what the stored entries add up to,
\* whatever the client and the sweeper do.
THEOREM AccountsExact ==
  ASSUME SafeThrows
  PROVE  Spec => []BytesMatchData
<1>1. AccountInv => BytesMatchData
  BY DEF AccountInv
<1>2. QED
  BY <1>1, AlwaysAccountInv, PTL

\* No key vanishes uncounted: what was inserted and not deleted is stored, or
\* counted in evictions_ or expired_keys_.
THEOREM NoKeyUncounted ==
  ASSUME SafeThrows
  PROVE  Spec => []KeysAccounted
<1>1. AccountInv => KeysAccounted
  BY DEF AccountInv
<1>2. QED
  BY <1>1, AlwaysAccountInv, PTL
=============================================================================
