-------------------------------- MODULE LFU --------------------------------
(***************************************************************************)
(* The LFU eviction policy driven by every sequence of calls its owner may *)
(* make.  buckets_ is a list of keys for every frequency, the front first; *)
(* a frequency it does not know has an empty list, as operator[] gives it. *)
(* An entry's iterator is the node of its key in the bucket of its         *)
(* frequency.  A key's frequency counts the add and the touches since.     *)
(***************************************************************************)
EXTENDS Integers, Sequences, FiniteSetsExt, Functions

CONSTANTS
  Keys,
  KeySize,   \* key.size() of each key
  Sizes,     \* the sizes add() is called with
  MaxCalls   \* bound on the number of calls

\* What is assumed of the constants.
LFUAssumption ==
  KeySize \in [Keys -> Nat] /\ Sizes \subseteq Nat /\ MaxCalls \in Nat

VARIABLES
  entries,       \* entries_: size and frequency of each key remembered
  buckets,       \* buckets_
  min_freq, memory_used,
  uses, since,   \* history: each key's frequency, and the call that gave it
  calls          \* history: the number of calls so far

vars == <<entries, buckets, min_freq, memory_used, uses, since, calls>>

Freqs == 1 .. MaxCalls + 1
Charge(key, size) == KeySize[key] + size

Call == calls < MaxCalls /\ calls' = calls + 1

Uses(key, n) ==
  /\ uses' = [uses EXCEPT ![key] = n]
  /\ since' = [since EXCEPT ![key] = calls']
-----------------------------------------------------------------------------
\* The bucket of `key' without the node that the key's iterator leads to.
Without(key) ==
  LET bucket == buckets[entries[key].freq]
      it == CHOOSE i \in DOMAIN bucket : bucket[i] = key
  IN  [i \in 1 .. Len(bucket) - 1 |-> IF i < it THEN bucket[i] ELSE bucket[i + 1]]

\* min_freq_ once a bucket has lost a key: an update that looks at the bucket
\* and not at whose it is.
RaisedForAny(key) == IF Without(key) = <<>> THEN min_freq + 1 ELSE min_freq

\* min_freq_ once `key' has left its bucket.
Raised(key) ==
  IF Without(key) = <<>> /\ entries[key].freq = min_freq THEN min_freq + 1
                                                         ELSE min_freq

Forget(key) ==
  /\ entries' = Restrict(entries, DOMAIN entries \ {key})
  /\ memory_used' = memory_used - Charge(key, entries[key].size)
  /\ UNCHANGED <<uses, since>>

touch(key) ==
  LET f == entries[key].freq
  IN  /\ Call
      /\ key \in DOMAIN entries
      /\ buckets' = [buckets EXCEPT ![f] = Without(key), ![f + 1] = <<key>> \o @]
      /\ min_freq' = Raised(key)
      /\ entries' = [entries EXCEPT ![key].freq = f + 1]
      /\ Uses(key, uses[key] + 1)
      /\ UNCHANGED memory_used

\* add of a known key that is not charged for its new size.
addKnownUncharged(key, size) ==
  /\ Call
  /\ key \in DOMAIN entries
  /\ memory_used' = memory_used - Charge(key, entries[key].size) + KeySize[key]
  /\ entries' = [entries EXCEPT ![key].size = size]
  /\ UNCHANGED <<buckets, min_freq, uses, since>>

\* add of a known key: a new size, and no use.
addKnown(key, size) ==
  /\ Call
  /\ key \in DOMAIN entries
  /\ memory_used' = memory_used - Charge(key, entries[key].size)
                      + Charge(key, size)
  /\ entries' = [entries EXCEPT ![key].size = size]
  /\ UNCHANGED <<buckets, min_freq, uses, since>>

\* The bucket of new keys once `key' is in it; at the wrong end.
EnterAtBack(key) == buckets' = [buckets EXCEPT ![1] = Append(@, key)]
Enter(key) == buckets' = [buckets EXCEPT ![1] = <<key>> \o @]

addNew(key, size) ==
  /\ Call
  /\ key \notin DOMAIN entries
  /\ Enter(key)
  /\ entries' = [k \in DOMAIN entries \cup {key} |->
                   IF k = key THEN [size |-> size, freq |-> 1] ELSE entries[k]]
  /\ min_freq' = 1
  /\ memory_used' = memory_used + Charge(key, size)
  /\ Uses(key, 1)

\* A remove that leaves the key in its bucket.
removeKeepsNode(key) ==
  /\ Call
  /\ key \in DOMAIN entries
  /\ min_freq' = Raised(key)
  /\ Forget(key)
  /\ UNCHANGED buckets

remove(key) ==
  /\ Call
  /\ key \in DOMAIN entries
  /\ buckets' = [buckets EXCEPT ![entries[key].freq] = Without(key)]
  /\ min_freq' = Raised(key)
  /\ Forget(key)

\* The frequencies the loop of evict() can stop at.
Filled == {f \in Freqs : f >= min_freq /\ buckets[f] # <<>>}

evict ==
  /\ Call
  /\ Filled # {}
  /\ LET f == Min(Filled)
         victim == buckets[f][Len(buckets[f])]
     IN  /\ min_freq' = f
         /\ buckets' = [buckets EXCEPT ![f] = SubSeq(@, 1, Len(@) - 1)]
         /\ Forget(victim)

Init ==
  /\ entries = [k \in {} |-> 0]
  /\ buckets = [f \in Freqs |-> <<>>]
  /\ min_freq = 0 /\ memory_used = 0
  /\ uses = [k \in Keys |-> 0] /\ since = [k \in Keys |-> 0]
  /\ calls = 0

\* A call that finds no entry to change does nothing, and is left out.
Next ==
  \/ \E key \in Keys : touch(key) \/ remove(key)
  \/ \E key \in Keys, size \in Sizes : addKnown(key, size) \/ addNew(key, size)
  \/ evict

Spec == Init /\ [][Next]_vars
-----------------------------------------------------------------------------
TypeOK ==
  /\ DOMAIN entries \subseteq Keys
  /\ \A k \in DOMAIN entries : entries[k] \in [size : Nat, freq : Freqs]
  /\ buckets \in [Freqs -> Seq(Keys)]
  /\ min_freq \in Nat /\ memory_used \in Nat
  /\ uses \in [Keys -> Nat] /\ since \in [Keys -> Nat]
  /\ calls \in 0 .. MaxCalls

\* Each bucket of LFU holds, once, the keys of its frequency and no others,
\* and that frequency is the number of their uses.  The iterators of the
\* entries, and evict's lookup of the key it pops, rest on it.
BucketsMatch ==
  /\ \A f \in Freqs :
        /\ IsInjective(buckets[f])
        /\ Range(buckets[f]) = {k \in DOMAIN entries : entries[k].freq = f}
  /\ \A k \in DOMAIN entries : entries[k].freq = uses[k]

\* min_freq_ is never above the frequency of a remembered key, so the loop of
\* LFU::evict, which only counts up, ends when there is something to evict.
EvictEnds == \A k \in DOMAIN entries : min_freq <= entries[k].freq

\* LFU's buckets_, entries_ and min_freq_ agree after any sequence of calls.
LFUSound == TypeOK /\ BucketsMatch /\ EvictEnds

\* LFU::evict takes a key used least often, and of those the one that has had
\* that number of uses for longest.
EvictsLeastFrequent ==
  [][\A gone \in DOMAIN entries \ DOMAIN entries', kept \in DOMAIN entries' :
        evict => \/ uses[gone] < uses[kept]
                 \/ uses[gone] = uses[kept] /\ since[gone] < since[kept]]_vars

\* Every call on LFU is a call the EvictionPolicy interface (policy.h) allows.
Policy ==
  INSTANCE EvictionPolicy WITH sizes <- [k \in DOMAIN entries |-> entries[k].size]
ImplementsPolicy == Policy!PolicySpec
=============================================================================
