----------------------------- MODULE MCPolicies -----------------------------
(***************************************************************************)
(* Four keys, one of them the empty string, so that an entry can be moved  *)
(* to the front from behind others or erased between others, and SIEVE's   *)
(* hand can stand with nodes on both sides.  Two sizes, so that add() can  *)
(* change one.  Seven calls: they fill a policy, spread keys over three    *)
(* frequencies and empty it again.                                         *)
(***************************************************************************)
EXTENDS Policies

CONSTANTS a, b, c, empty

MCKeys == {a, b, c, empty}
MCKeySize == [k \in MCKeys |-> IF k = empty THEN 0 ELSE 1]
=============================================================================
