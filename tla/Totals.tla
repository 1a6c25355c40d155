------------------------------- MODULE Totals -------------------------------
(***************************************************************************)
(* The sum over a map, such as the entries that Storage or a policy        *)
(* remembers by key, with which their byte counts are compared.            *)
(***************************************************************************)
EXTENDS Integers

\* The sum of the values of a function.
Total(f) ==
  LET sum[S \in SUBSET DOMAIN f] ==
        IF S = {} THEN 0
        ELSE LET k == CHOOSE x \in S : TRUE
             IN  f[k] + sum[S \ {k}]
  IN  sum[DOMAIN f]
=============================================================================
