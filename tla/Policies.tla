------------------------------ MODULE Policies ------------------------------
(***************************************************************************)
(* An object of one of the three classes that implement EvictionPolicy,    *)
(* chosen at the start, and the calls made on it.                          *)
(***************************************************************************)
EXTENDS LRUPolicy

CONSTANT nullptr

VARIABLES
  class,
  entries, buckets, min_freq, lfu_memory_used, uses, since,
  node, head, tail, hand, sieve_memory_used, added, touched

F == INSTANCE LFU WITH memory_used <- lfu_memory_used
S == INSTANCE SIEVE WITH memory_used <- sieve_memory_used

ASSUME PoliciesAssumption == F!LFUAssumption /\ S!SIEVEAssumption

lruVars == <<lru, lastUse>>
lfuVars == <<entries, buckets, min_freq, lfu_memory_used, uses, since>>
sieveVars == <<node, head, tail, hand, sieve_memory_used, added, touched>>

PoliciesInit == class \in {"LRU", "LFU", "SIEVE"} /\ Init /\ F!Init /\ S!Init

PoliciesNext ==
  /\ \/ class = "LRU"   /\ Next   /\ UNCHANGED <<lfuVars, sieveVars>>
     \/ class = "LFU"   /\ F!Next /\ UNCHANGED <<lruVars, sieveVars>>
     \/ class = "SIEVE" /\ S!Next /\ UNCHANGED <<lruVars, lfuVars>>
  /\ UNCHANGED class

PoliciesSpec ==
  PoliciesInit /\ [][PoliciesNext]_<<class, calls, lruVars, lfuVars, sieveVars>>
-----------------------------------------------------------------------------
\* What LFU and SIEVE hold agrees, and LFU::evict ends.
LFUSound == F!LFUSound
SIEVESound == S!SIEVESound

\* LFU and SIEVE do what EvictionPolicy allows, and evict the key they should.
LFUEvicts == F!ImplementsPolicy /\ F!EvictsLeastFrequent
SIEVEEvicts == S!ImplementsPolicy /\ S!UntouchedInOrder
=============================================================================
