----------------------------- MODULE MCStorage -----------------------------
EXTENDS Storage, TLC

CONSTANTS a, b, empty

MCKeys == {a, b, empty}
MCKeySize == [k \in MCKeys |-> IF k = empty THEN 0 ELSE 1]

\* The overhead is 1.  A small value, two or three of which fit, one with
\* spare capacity that fits next to a small one, one that fits only if the
\* bucket array is not counted, and one that can never be stored.
MCValues ==
  {[size |-> 1, capacity |-> 1],
   [size |-> 2, capacity |-> 3],
   [size |-> 6, capacity |-> 6],
   [size |-> 7, capacity |-> 7]}

MCBucketBytes == <<1, 2, 2>> @@ (0 :> 1)
=============================================================================
