----------------------------- MODULE LRUPolicy -----------------------------
(***************************************************************************)
(* One LRU object driven by every sequence of calls its owner may make.    *)
(* Storage calls it under its own mutex, so each call is one step.  The    *)
(* history variables lastUse and calls remember when a key was last added  *)
(* or touched: the properties use them to say which key must go first.     *)
(***************************************************************************)
EXTENDS LRU

CONSTANTS
  Sizes,     \* the sizes add() is called with
  MaxCalls   \* bound on the number of calls

ASSUME SizesAssumption == Sizes \subseteq Nat
ASSUME MaxCallsAssumption == MaxCalls \in Nat

VARIABLES
  lru,       \* the object
  lastUse,   \* history: the call that last added or touched each key
  calls      \* history: the number of calls so far

vars == <<lru, lastUse, calls>>

Call ==
  /\ calls < MaxCalls
  /\ calls' = calls + 1

Uses(key) == lastUse' = [lastUse EXCEPT ![key] = calls']

Touch(key) ==
  /\ Call
  /\ lru' = touch(lru, key)
  /\ Uses(key)

Add(key, size) ==
  /\ Call
  /\ lru' = add(lru, key, size)
  /\ Uses(key)

Remove(key) ==
  /\ Call
  /\ lru' = remove(lru, key)
  /\ UNCHANGED lastUse

Evict ==
  /\ Call
  /\ lru' = evict(lru)
  /\ UNCHANGED lastUse

Init ==
  /\ lru = EmptyLRU
  /\ lastUse = [k \in Keys |-> 0]
  /\ calls = 0

Next ==
  \/ \E key \in Keys : Touch(key)
  \/ \E key \in Keys, size \in Sizes : Add(key, size)
  \/ \E key \in Keys : Remove(key)
  \/ Evict

Spec == Init /\ [][Next]_vars
-----------------------------------------------------------------------------
TypeOK ==
  /\ lru \in [list : Seq(Entry), index : SUBSET Keys, memory_used : Nat]
  /\ lastUse \in [Keys -> Nat]
  /\ calls \in Nat

\* The list, the index and the byte count of LRU (lru.h) describe the same
\* entries after any sequence of calls; in particular memory_used_, a size_t,
\* never wraps below zero and is 0 when the list is empty.
LRUSound == Sound(lru)

\* The list of LRU is sorted by last use: every key nearer the front was
\* added or touched after every key behind it.  A remembered key was used.
RecencyOrder ==
  \A i, j \in DOMAIN lru.list :
     i < j => lastUse[lru.list[i].key] > lastUse[lru.list[j].key]

\* LRU::evict takes the key unused for longest of those it remembers, never
\* one used after a key it keeps.
EvictsLeastRecent ==
  [][\A gone \in lru.index \ lru'.index, kept \in lru'.index :
        Evict => lastUse[gone] < lastUse[kept]]_vars

\* Every call on LRU is a call the EvictionPolicy interface (policy.h)
\* allows, with the index and the recorded sizes as what is remembered.
Policy ==
  INSTANCE EvictionPolicy
    WITH sizes       <- [k \in lru.index |-> SizeOf(lru, k)],
         memory_used <- lru.memory_used
ImplementsPolicy == Policy!PolicySpec
=============================================================================
