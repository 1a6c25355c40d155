--------------------------- MODULE EvictionPolicy ---------------------------
(***************************************************************************)
(* What class EvictionPolicy (policy.h) promises to Storage, whatever the  *)
(* policy: it remembers a size for every key added and not yet removed or  *)
(* evicted, it charges the key's bytes and that size to memory_used(), a   *)
(* touch changes neither, and evict() gives up some key it remembers.      *)
(* Which key that is, is the policy's own business.                        *)
(***************************************************************************)
EXTENDS Integers

CONSTANTS Keys, KeySize, Sizes

VARIABLES
  sizes,        \* the size of each remembered key
  memory_used   \* what memory_used() returns

policyVars == <<sizes, memory_used>>

Forget(key) ==
  /\ sizes' = [k \in DOMAIN sizes \ {key} |-> sizes[k]]
  /\ memory_used' = memory_used - (KeySize[key] + sizes[key])

Add(key, size) ==
  /\ sizes' = [k \in DOMAIN sizes \cup {key} |->
                 IF k = key THEN size ELSE sizes[k]]
  /\ memory_used' =
       IF key \in DOMAIN sizes
       THEN memory_used - (KeySize[key] + sizes[key]) + KeySize[key] + size
       ELSE memory_used + KeySize[key] + size

Remove(key) == key \in DOMAIN sizes /\ Forget(key)

Evict == \E key \in DOMAIN sizes : Forget(key)

PolicyInit == sizes = [k \in {} |-> 0] /\ memory_used = 0

PolicyNext ==
  \/ \E key \in Keys, size \in Sizes : Add(key, size)
  \/ \E key \in Keys : Remove(key)
  \/ Evict

PolicySpec == PolicyInit /\ [][PolicyNext]_policyVars
=============================================================================
