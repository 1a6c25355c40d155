---------------------------- MODULE PolicyLemmas ----------------------------
(***************************************************************************)
(* What the list operations of module LRU do, for any keys and any sizes:  *)
(* which entries they keep, that no key comes to be listed twice, and what *)
(* becomes of the total of the bytes.                                      *)
(*                                                                         *)
(* The total is a recursive function over the list.  Every statement about *)
(* it goes through PrefixSums: a function that starts at 0 and grows by    *)
(* each entry's charge.  There is exactly one for every list (a least      *)
(* place where it failed to exist, or where two of them differed, would    *)
(* contradict the place before it), BytesUpTo is it, and so to know the    *)
(* total of a changed list is to write down its prefix sums.               *)
(*                                                                         *)
(* At the end are the sums over a map (Totals), for Storage and the other  *)
(* policies.                                                               *)
(***************************************************************************)
EXTENDS LRU, Totals, TLAPS, FiniteSetTheorems, WellFoundedInduction

\* A sequence over S is a function on 1 .. Len, and conversely.
LEMMA SeqIsFunction ==
  ASSUME NEW S, NEW s \in Seq(S)
  PROVE  /\ Len(s) \in Nat
         /\ DOMAIN s = 1 .. Len(s)
         /\ s \in [1 .. Len(s) -> S]
OBVIOUS

LEMMA FunctionIsSeq ==
  ASSUME NEW S, NEW n \in Nat, NEW s \in [1 .. n -> S]
  PROVE  /\ s \in Seq(S)
         /\ Len(s) = n
OBVIOUS

\* A non-empty set of naturals has a least element.
LEMMA LeastNatural ==
  ASSUME NEW T \in SUBSET Nat, T # {}
  PROVE  \E n \in T : \A m \in T : n <= m
<1>1. IsWellFoundedOn(OpToRel(<, Nat), Nat)
  BY NatLessThanWellFounded
<1>2. PICK n \in T : \A m \in T : ~(<<m, n>> \in OpToRel(<, Nat))
  BY <1>1, WFMin
<1>3. \A m \in T : ~(m < n)
  BY <1>2 DEF OpToRel
<1>4. QED
  BY <1>3

\* An entry's charge is a natural number.
LEMMA ChargeNat ==
  ASSUME NEW e \in Entry
  PROVE  Charge(e) \in Nat
BY KeySizeAssumption DEF Entry, Charge
-----------------------------------------------------------------------------
\* g is the running total of the charges of the first n entries of a list.
PrefixSums(list, n, g) ==
  /\ DOMAIN g = 0 .. n
  /\ g[0] = 0
  /\ \A i \in 1 .. n : g[i] \in Int /\ g[i] = g[i - 1] + Charge(list[i])

\* Every list has prefix sums, and they are natural numbers.
LEMMA PrefixSumsExist ==
  ASSUME NEW list \in Seq(Entry)
  PROVE  \E g \in [0 .. Len(list) -> Nat] : PrefixSums(list, Len(list), g)
<1> DEFINE Has(n) == \E g \in [0 .. n -> Nat] : PrefixSums(list, n, g)
           T == {n \in 0 .. Len(list) : ~Has(n)}
<1>1. Len(list) \in Nat /\ \A i \in 1 .. Len(list) : list[i] \in Entry
  BY SeqIsFunction
<1>2. SUFFICES ASSUME T # {} PROVE FALSE
  BY <1>1
<1>3. T \in SUBSET Nat
  BY <1>1
<1>4. PICK n \in T : \A m \in T : n <= m
  BY <1>2, <1>3, LeastNatural
<1>5. Has(0)
  <2>1. PrefixSums(list, 0, [i \in 0 .. 0 |-> 0])
    BY DEF PrefixSums
  <2>2. [i \in 0 .. 0 |-> 0] \in [0 .. 0 -> Nat]
    OBVIOUS
  <2>3. QED
    BY <2>1, <2>2
<1> HIDE DEF Has
<1>6. n \in 1 .. Len(list)
  BY <1>1, <1>5
<1>7. Has(n - 1)
  BY <1>1, <1>4, <1>6
<1>8. PICK g \in [0 .. n - 1 -> Nat] : PrefixSums(list, n - 1, g)
  BY <1>7 DEF Has
<1> DEFINE h == [i \in 0 .. n |-> IF i = n THEN g[n - 1] + Charge(list[n])
                                           ELSE g[i]]
<1>9. Charge(list[n]) \in Nat
  BY <1>1, <1>6, ChargeNat
<1>10. h \in [0 .. n -> Nat]
  BY <1>6, <1>9
<1>11. PrefixSums(list, n, h)
  BY <1>6, <1>8, <1>9 DEF PrefixSums
<1>12. QED
  BY <1>4, <1>10, <1>11 DEF Has

\* A list has no two different prefix sums.
LEMMA PrefixSumsUnique ==
  ASSUME NEW list \in Seq(Entry), NEW g, NEW h,
         PrefixSums(list, Len(list), g), PrefixSums(list, Len(list), h)
  PROVE  \A n \in 0 .. Len(list) : g[n] = h[n]
<1> DEFINE T == {n \in 0 .. Len(list) : g[n] # h[n]}
<1>1. Len(list) \in Nat
  BY SeqIsFunction
<1>2. SUFFICES ASSUME T # {} PROVE FALSE
  OBVIOUS
<1>3. T \in SUBSET Nat
  BY <1>1
<1>4. PICK n \in T : \A m \in T : n <= m
  BY <1>2, <1>3, LeastNatural
<1>5. n \in 1 .. Len(list)
  BY <1>1 DEF PrefixSums
<1>6. n - 1 \in 0 .. Len(list) /\ g[n - 1] = h[n - 1]
  BY <1>1, <1>4, <1>5
<1>7. QED
  BY <1>5, <1>6 DEF PrefixSums

\* BytesUpTo is a list's prefix sums.
LEMMA BytesUpToIsPrefixSums ==
  ASSUME NEW list \in Seq(Entry)
  PROVE  PrefixSums(list, Len(list), BytesUpTo(list))
<1> DEFINE n == Len(list)
           Eq(u) == u = [i \in 0 .. n |-> IF i = 0 THEN 0
                                          ELSE u[i - 1] + Charge(list[i])]
<1>1. n \in Nat /\ \A i \in 1 .. n : Charge(list[i]) \in Nat
  BY SeqIsFunction, ChargeNat
<1>2. PICK g \in [0 .. n -> Nat] : PrefixSums(list, n, g)
  BY PrefixSumsExist
<1>3. Eq(g)
  BY <1>1, <1>2 DEF PrefixSums
<1>4. BytesUpTo(list) = CHOOSE u : Eq(u)
  BY DEF BytesUpTo
<1>5. Eq(BytesUpTo(list))
  BY <1>3, <1>4
<1> DEFINE u == BytesUpTo(list)
           T == {m \in 0 .. n : u[m] \notin Int}
<1> HIDE DEF u
<1>6. /\ DOMAIN u = 0 .. n
      /\ u[0] = 0
      /\ \A i \in 1 .. n : u[i] = u[i - 1] + Charge(list[i])
  BY <1>1, <1>5 DEF u
<1>7. T = {}
  <2>1. SUFFICES ASSUME T # {} PROVE FALSE
    OBVIOUS
  <2>2. T \in SUBSET Nat
    BY <1>1
  <2>3. PICK m \in T : \A k \in T : m <= k
    BY <2>1, <2>2, LeastNatural
  <2>4. m \in 1 .. n /\ m - 1 \in 0 .. n
    BY <1>1, <1>6
  <2>5. u[m - 1] \in Int
    BY <1>1, <2>3, <2>4
  <2>6. QED
    BY <1>1, <1>6, <2>4, <2>5
<1>8. QED
  BY <1>6, <1>7 DEF u, PrefixSums

\* So whoever knows the prefix sums of a list knows its total.
LEMMA TotalIs ==
  ASSUME NEW list \in Seq(Entry), NEW g, PrefixSums(list, Len(list), g)
  PROVE  TotalBytes(list) = g[Len(list)]
<1>1. Len(list) \in 0 .. Len(list)
  BY SeqIsFunction
<1>2. QED
  BY <1>1, BytesUpToIsPrefixSums, PrefixSumsUnique DEF TotalBytes

\* A total is a natural number, and the empty list's is 0.
LEMMA TotalNat ==
  ASSUME NEW list \in Seq(Entry)
  PROVE  /\ TotalBytes(list) \in Nat
         /\ Len(list) = 0 => TotalBytes(list) = 0
<1>1. PICK g \in [0 .. Len(list) -> Nat] : PrefixSums(list, Len(list), g)
  BY PrefixSumsExist
<1>2. TotalBytes(list) = g[Len(list)]
  BY <1>1, TotalIs
<1>3. Len(list) \in Nat
  BY SeqIsFunction
<1>4. QED
  BY <1>1, <1>2, <1>3 DEF PrefixSums
-----------------------------------------------------------------------------
\* On a list that holds no key twice, the index leads to the one entry of a
\* key.
LEMMA NodeOfEntry ==
  ASSUME NEW list \in Seq(Entry), NoKeyTwice(list), NEW i \in 1 .. Len(list)
  PROVE  Node(list, list[i].key) = i
<1> DEFINE P(j) == /\ list[j].key = list[i].key
                   /\ \A k \in DOMAIN list : k < j => list[k].key # list[i].key
<1>1. DOMAIN list = 1 .. Len(list)
  BY SeqIsFunction
<1>2. P(i)
  BY <1>1 DEF NoKeyTwice
<1>3. \A j \in DOMAIN list : P(j) => j = i
  BY <1>1 DEF NoKeyTwice
<1>4. Node(list, list[i].key) = CHOOSE j \in DOMAIN list : P(j)
  BY DEF Node
<1>5. QED
  BY <1>1, <1>2, <1>3, <1>4

LEMMA NodeOfKey ==
  ASSUME NEW list \in Seq(Entry), NoKeyTwice(list), NEW key \in KeysOf(list)
  PROVE  /\ Node(list, key) \in 1 .. Len(list)
         /\ list[Node(list, key)].key = key
<1>1. PICK i \in 1 .. Len(list) : list[i].key = key
  BY SeqIsFunction DEF KeysOf
<1>2. QED
  BY <1>1, NodeOfEntry

\* Moving a node to the front loses no entry and adds none.
LEMMA MoveToFrontKeeps ==
  ASSUME NEW list \in Seq(Entry), NoKeyTwice(list), NEW p \in 1 .. Len(list)
  PROVE  LET m == MoveToFront(list, p)
         IN  /\ m \in Seq(Entry)
             /\ Len(m) = Len(list)
             /\ m[1] = list[p]
             /\ \A j \in 2 .. Len(list) :
                   m[j] = IF j <= p THEN list[j - 1] ELSE list[j]
             /\ NoKeyTwice(m)
             /\ KeysOf(m) = KeysOf(list)
             /\ TotalBytes(m) = TotalBytes(list)
<1> DEFINE n == Len(list)
           m == MoveToFront(list, p)
<1>1. /\ n \in Nat /\ p \in 1 .. n
      /\ DOMAIN list = 1 .. n
      /\ \A i \in 1 .. n : list[i] \in Entry
  BY SeqIsFunction
<1>2. m \in [1 .. n -> Entry]
  BY <1>1 DEF MoveToFront
<1>3. m \in Seq(Entry) /\ Len(m) = n
  BY <1>1, <1>2, FunctionIsSeq
<1>4. \A j \in 1 .. n :
         m[j] = IF j = 1 THEN list[p] ELSE IF j <= p THEN list[j - 1] ELSE list[j]
  BY <1>1 DEF MoveToFront
<1> HIDE DEF m
<1>5. DOMAIN m = 1 .. n
  BY <1>2
<1>6. NoKeyTwice(m)
  <2> DEFINE from(j) == IF j = 1 THEN p ELSE IF j <= p THEN j - 1 ELSE j
  <2>1. \A j \in 1 .. n : from(j) \in 1 .. n /\ m[j] = list[from(j)]
    BY <1>1, <1>4
  <2>2. \A i, j \in 1 .. n : from(i) = from(j) => i = j
    BY <1>1
  <2> HIDE DEF from
  <2>3. QED
    BY <1>1, <1>5, <2>1, <2>2, SMTT(30) DEF NoKeyTwice
<1>7. KeysOf(m) = KeysOf(list)
  <2>1. \A j \in 1 .. n : m[j].key \in KeysOf(list)
    <3> DEFINE from(j) == IF j = 1 THEN p ELSE IF j <= p THEN j - 1 ELSE j
    <3>1. \A j \in 1 .. n : from(j) \in 1 .. n /\ m[j] = list[from(j)]
      BY <1>1, <1>4
    <3>2. \A i \in 1 .. n : list[i].key \in KeysOf(list)
      BY <1>1 DEF KeysOf
    <3> HIDE DEF from
    <3>3. QED
      BY <3>1, <3>2
  <2>2. \A i \in 1 .. n : list[i].key \in KeysOf(m)
    <3> SUFFICES ASSUME NEW i \in 1 .. n
                 PROVE  \E j \in 1 .. n : list[i].key = m[j].key
      BY <1>5 DEF KeysOf
    <3>1. CASE i = p
      BY <1>1, <1>4, <3>1
    <3>2. CASE i < p
      <4>1. i + 1 \in 1 .. n /\ m[i + 1] = list[i]
        BY <1>1, <1>4, <3>2
      <4>2. QED
        BY <4>1
    <3>3. CASE i > p
      BY <1>1, <1>4, <3>3
    <3>4. QED
      BY <1>1, <3>1, <3>2, <3>3
  <2>3. QED
    BY <1>1, <1>5, <2>1, <2>2 DEF KeysOf
<1>8. TotalBytes(m) = TotalBytes(list)
  <2>1. PICK g \in [0 .. n -> Nat] : PrefixSums(list, n, g)
    BY PrefixSumsExist
  <2> DEFINE h == [i \in 0 .. n |->
                     IF i = 0 THEN 0
                     ELSE IF i <= p THEN g[i - 1] + Charge(list[p]) ELSE g[i]]
  <2>2. \A i \in 1 .. n : Charge(list[i]) \in Nat
    BY <1>1, ChargeNat
  <2>3. PrefixSums(m, n, h)
    <3>1. \A i \in 0 .. n : g[i] \in Nat
      BY <2>1
    <3>2. g[0] = 0 /\ \A i \in 1 .. n : g[i] = g[i - 1] + Charge(list[i])
      BY <2>1 DEF PrefixSums
    <3>3. ASSUME NEW i \in 1 .. n
          PROVE  h[i] \in Int /\ h[i] = h[i - 1] + Charge(m[i])
      <4>1. CASE i = 1
        <5>1. h[i] = g[0] + Charge(list[p]) /\ h[i - 1] = 0 /\ m[i] = list[p]
          BY <1>1, <1>4, <4>1
        <5>2. QED
          BY <1>1, <2>2, <3>2, <5>1, SMTT(30)
      <4>2. CASE i > 1 /\ i <= p
        <5>1. /\ h[i] = g[i - 1] + Charge(list[p])
              /\ h[i - 1] = g[i - 2] + Charge(list[p])
              /\ m[i] = list[i - 1]
          BY <1>1, <1>4, <4>2, SMTT(30)
        <5>2. g[i - 1] = g[i - 2] + Charge(list[i - 1])
          BY <1>1, <3>2, <4>2
        <5>3. /\ g[i - 2] \in Nat
              /\ Charge(list[p]) \in Nat
              /\ Charge(list[i - 1]) \in Nat
          BY <1>1, <2>2, <3>1, <4>2, SMTT(30)
        <5>4. QED
          BY <5>1, <5>2, <5>3, SMTT(30)
      <4>3. CASE i > p
        <5>1. h[i] = g[i] /\ m[i] = list[i]
          BY <1>1, <1>4, <4>3
        <5>2. h[i - 1] = g[i - 1]
          <6>1. CASE i - 1 = p
            <7>1. h[i - 1] = g[p - 1] + Charge(list[p])
              BY <1>1, <6>1
            <7>2. QED
              BY <1>1, <3>2, <6>1, <7>1
          <6>2. CASE i - 1 > p
            BY <1>1, <6>2
          <6>3. QED
            BY <1>1, <4>3, <6>1, <6>2
        <5>3. QED
          BY <3>1, <3>2, <5>1, <5>2
      <4>4. QED
        BY <1>1, <4>1, <4>2, <4>3
    <3>4. DOMAIN h = 0 .. n /\ h[0] = 0
      BY <1>1
    <3> HIDE DEF h
    <3>5. QED
      BY <3>3, <3>4 DEF PrefixSums
  <2>4. TotalBytes(m) = h[n] /\ TotalBytes(list) = g[n]
    BY <1>3, <2>1, <2>3, TotalIs
  <2>5. h[n] = g[n]
    BY <1>1, <2>1, <2>2 DEF PrefixSums
  <2>6. QED
    BY <2>4, <2>5
<1>9. QED
  BY <1>1, <1>3, <1>4, <1>6, <1>7, <1>8 DEF m

\* Pushing an entry whose key is not listed adds it and its charge.
LEMMA PushFrontAdds ==
  ASSUME NEW list \in Seq(Entry), NoKeyTwice(list),
         NEW e \in Entry, e.key \notin KeysOf(list)
  PROVE  LET m == PushFront(list, e)
         IN  /\ m \in Seq(Entry)
             /\ Len(m) = Len(list) + 1
             /\ m[1] = e
             /\ \A j \in 2 .. Len(m) : m[j] = list[j - 1]
             /\ NoKeyTwice(m)
             /\ KeysOf(m) = KeysOf(list) \cup {e.key}
             /\ TotalBytes(m) = TotalBytes(list) + Charge(e)
<1> DEFINE n == Len(list)
           m == PushFront(list, e)
<1>1. /\ n \in Nat
      /\ DOMAIN list = 1 .. n
      /\ \A i \in 1 .. n : list[i] \in Entry /\ list[i].key # e.key
  BY SeqIsFunction DEF KeysOf
<1>2. m \in [1 .. n + 1 -> Entry]
  BY <1>1 DEF PushFront
<1>3. m \in Seq(Entry) /\ Len(m) = n + 1
  BY <1>1, <1>2, FunctionIsSeq
<1>4. \A j \in 1 .. n + 1 : m[j] = IF j = 1 THEN e ELSE list[j - 1]
  BY <1>1 DEF PushFront
<1> HIDE DEF m
<1>5. DOMAIN m = 1 .. n + 1
  BY <1>2
<1>6. NoKeyTwice(m)
  <2> SUFFICES ASSUME NEW i \in 1 .. n + 1, NEW j \in 1 .. n + 1,
                      m[i].key = m[j].key, i # j
               PROVE  FALSE
    BY <1>5 DEF NoKeyTwice
  <2>1. CASE i = 1
    <3>1. j - 1 \in 1 .. n /\ m[i] = e /\ m[j] = list[j - 1]
      BY <1>1, <1>4, <2>1
    <3>2. QED
      BY <1>1, <3>1
  <2>2. CASE j = 1
    <3>1. i - 1 \in 1 .. n /\ m[j] = e /\ m[i] = list[i - 1]
      BY <1>1, <1>4, <2>2
    <3>2. QED
      BY <1>1, <3>1
  <2>3. CASE i # 1 /\ j # 1
    <3>1. /\ i - 1 \in 1 .. n /\ m[i] = list[i - 1]
          /\ j - 1 \in 1 .. n /\ m[j] = list[j - 1]
          /\ i - 1 # j - 1
      BY <1>1, <1>4, <2>3
    <3>2. QED
      BY <1>1, <3>1 DEF NoKeyTwice
  <2>4. QED
    BY <2>1, <2>2, <2>3
<1>7. KeysOf(m) = KeysOf(list) \cup {e.key}
  <2>1. ASSUME NEW j \in 1 .. n + 1
        PROVE  m[j].key \in KeysOf(list) \cup {e.key}
    <3>1. CASE j = 1
      BY <1>4, <3>1
    <3>2. CASE j # 1
      <4>1. j - 1 \in 1 .. n /\ m[j] = list[j - 1]
        BY <1>1, <1>4, <3>2
      <4>2. list[j - 1].key \in KeysOf(list)
        BY <1>1, <4>1 DEF KeysOf
      <4>3. QED
        BY <4>1, <4>2
    <3>3. QED
      BY <3>1, <3>2
  <2>2. KeysOf(m) \subseteq KeysOf(list) \cup {e.key}
    <3>1. SUFFICES ASSUME NEW k \in KeysOf(m)
                   PROVE  k \in KeysOf(list) \cup {e.key}
      OBVIOUS
    <3>2. PICK j \in 1 .. n + 1 : k = m[j].key
      BY <1>5 DEF KeysOf
    <3>3. QED
      BY <2>1, <3>2
  <2>3. e.key \in KeysOf(m)
    <3>1. 1 \in 1 .. n + 1 /\ m[1] = e
      BY <1>1, <1>4
    <3>2. QED
      BY <1>5, <3>1 DEF KeysOf
  <2>4. KeysOf(list) \subseteq KeysOf(m)
    <3>1. SUFFICES ASSUME NEW k \in KeysOf(list)
                   PROVE  k \in KeysOf(m)
      OBVIOUS
    <3>2. PICK i \in 1 .. n : k = list[i].key
      BY <1>1 DEF KeysOf
    <3>3. i + 1 \in 1 .. n + 1 /\ m[i + 1] = list[i]
      BY <1>1, <1>4
    <3>4. QED
      BY <1>5, <3>2, <3>3 DEF KeysOf
  <2>5. QED
    BY <2>2, <2>3, <2>4
<1>8. TotalBytes(m) = TotalBytes(list) + Charge(e)
  <2>1. PICK g \in [0 .. n -> Nat] : PrefixSums(list, n, g)
    BY PrefixSumsExist
  <2> DEFINE h == [i \in 0 .. n + 1 |-> IF i = 0 THEN 0 ELSE g[i - 1] + Charge(e)]
  <2>2. Charge(e) \in Nat /\ \A i \in 1 .. n : Charge(list[i]) \in Nat
    BY <1>1, ChargeNat
  <2>3. PrefixSums(m, n + 1, h)
    <3>1. \A i \in 0 .. n : g[i] \in Nat
      BY <2>1
    <3>2. g[0] = 0 /\ \A i \in 1 .. n : g[i] = g[i - 1] + Charge(list[i])
      BY <2>1 DEF PrefixSums
    <3>3. ASSUME NEW i \in 1 .. n + 1
          PROVE  h[i] \in Int /\ h[i] = h[i - 1] + Charge(m[i])
      <4>1. h[i] = g[i - 1] + Charge(e) /\ g[i - 1] \in Nat
        BY <1>1, <3>1
      <4>2. CASE i = 1
        BY <1>1, <1>4, <2>2, <3>2, <4>1, <4>2
      <4>3. CASE i > 1
        <5>1. h[i - 1] = g[i - 2] + Charge(e) /\ m[i] = list[i - 1]
          BY <1>1, <1>4, <4>3
        <5>2. g[i - 1] = g[i - 2] + Charge(list[i - 1])
          BY <1>1, <3>2, <4>3
        <5>3. g[i - 2] \in Nat /\ Charge(list[i - 1]) \in Nat
          BY <1>1, <2>2, <3>1, <4>3
        <5> DEFINE s == g[i - 2]
                   c == Charge(e)
                   d == Charge(list[i - 1])
        <5>4. h[i] = (s + d) + c /\ h[i - 1] + Charge(m[i]) = (s + c) + d
          BY <4>1, <5>1, <5>2
        <5>5. s \in Nat /\ c \in Nat /\ d \in Nat
          BY <2>2, <5>3
        <5> HIDE DEF s, c, d, h
        <5>6. QED
          BY <5>4, <5>5
      <4>4. QED
        BY <1>1, <4>2, <4>3
    <3>4. DOMAIN h = 0 .. n + 1 /\ h[0] = 0
      BY <1>1
    <3> HIDE DEF h
    <3>5. QED
      BY <3>3, <3>4 DEF PrefixSums
  <2>4. TotalBytes(m) = h[n + 1] /\ TotalBytes(list) = g[n]
    BY <1>3, <2>1, <2>3, TotalIs
  <2>5. QED
    BY <1>1, <2>4
<1>9. QED
  BY <1>1, <1>3, <1>4, <1>6, <1>7, <1>8 DEF m

\* Erasing a node drops that entry alone, and its charge.
LEMMA EraseNodeDrops ==
  ASSUME NEW list \in Seq(Entry), NoKeyTwice(list), NEW p \in 1 .. Len(list)
  PROVE  LET m == EraseNode(list, p)
         IN  /\ m \in Seq(Entry)
             /\ Len(m) = Len(list) - 1
             /\ \A j \in 1 .. Len(m) :
                   m[j] = IF j < p THEN list[j] ELSE list[j + 1]
             /\ NoKeyTwice(m)
             /\ KeysOf(m) = KeysOf(list) \ {list[p].key}
             /\ TotalBytes(m) = TotalBytes(list) - Charge(list[p])
<1> DEFINE n == Len(list)
           m == EraseNode(list, p)
<1>0. p = n \/ p < n
  BY SeqIsFunction
<1>1. /\ n \in Nat /\ p \in 1 .. n /\ n - 1 \in Nat
      /\ DOMAIN list = 1 .. n
      /\ \A i \in 1 .. n : list[i] \in Entry
  BY SeqIsFunction
<1>2. m \in [1 .. n - 1 -> Entry]
  BY <1>1, SMTT(30) DEF EraseNode
<1>3. m \in Seq(Entry) /\ Len(m) = n - 1
  BY <1>1, <1>2, FunctionIsSeq, Zenon
<1>4. \A j \in 1 .. n - 1 : m[j] = IF j < p THEN list[j] ELSE list[j + 1]
  BY <1>1 DEF EraseNode
<1> HIDE DEF m
<1>5. DOMAIN m = 1 .. n - 1
  BY <1>2
<1> DEFINE from(j) == IF j < p THEN j ELSE j + 1
<1>6. \A j \in 1 .. n - 1 : from(j) \in 1 .. n /\ from(j) # p /\ m[j] = list[from(j)]
  BY <1>1, <1>4
<1>7. \A i, j \in 1 .. n - 1 : from(i) = from(j) => i = j
  BY <1>1
<1>8. \A i \in 1 .. n : i # p => \E j \in 1 .. n - 1 : from(j) = i
  <2> SUFFICES ASSUME NEW i \in 1 .. n, i # p
               PROVE  \E j \in 1 .. n - 1 : from(j) = i
    OBVIOUS
  <2>1. CASE i < p
    <3>1. i \in 1 .. n - 1 /\ from(i) = i
      BY <1>1, <2>1
    <3>2. QED
      BY <3>1
  <2>2. CASE i > p
    <3>1. i - 1 \in 1 .. n - 1 /\ from(i - 1) = i
      BY <1>1, <2>2
    <3>2. QED
      BY <3>1
  <2>3. QED
    BY <1>1, <2>1, <2>2
<1> HIDE DEF from
<1>9. NoKeyTwice(m)
  BY <1>1, <1>5, <1>6, <1>7 DEF NoKeyTwice
<1>10. KeysOf(m) = KeysOf(list) \ {list[p].key}
  <2>1. \A j \in 1 .. n - 1 : m[j].key \in KeysOf(list) \ {list[p].key}
    BY <1>1, <1>6 DEF KeysOf, NoKeyTwice
  <2>2. \A i \in 1 .. n : i # p => list[i].key \in KeysOf(m)
    BY <1>5, <1>6, <1>8 DEF KeysOf
  <2>3. KeysOf(m) \subseteq KeysOf(list) \ {list[p].key}
    BY <1>5, <2>1 DEF KeysOf
  <2>4. KeysOf(list) \ {list[p].key} \subseteq KeysOf(m)
    <3>1. KeysOf(list) = {list[i].key : i \in 1 .. n}
      BY <1>1 DEF KeysOf
    <3>2. QED
      BY <2>2, <3>1
  <2>5. QED
    BY <2>3, <2>4
<1>11. TotalBytes(m) = TotalBytes(list) - Charge(list[p])
  <2>1. PICK g \in [0 .. n -> Nat] : PrefixSums(list, n, g)
    BY PrefixSumsExist
  <2> DEFINE c == Charge(list[p])
             h == [i \in 0 .. n - 1 |-> IF i < p THEN g[i] ELSE g[i + 1] - c]
  <2>2. \A i \in 1 .. n : Charge(list[i]) \in Nat
    BY <1>1, ChargeNat
  <2>3. \A i \in 0 .. n : g[i] \in Nat
    BY <2>1
  <2>4. g[0] = 0 /\ \A i \in 1 .. n : g[i] = g[i - 1] + Charge(list[i])
    BY <2>1 DEF PrefixSums
  <2>5. c \in Nat
    BY <1>1, <2>2
  <2> HIDE DEF c
  <2>6. ASSUME NEW i \in 1 .. n - 1
        PROVE  h[i] \in Int /\ h[i] = h[i - 1] + Charge(m[i])
    <3>1. CASE i < p
      <4>1. h[i] = g[i] /\ h[i - 1] = g[i - 1] /\ m[i] = list[i]
        BY <1>1, <1>4, <3>1
      <4>2. QED
        BY <1>1, <2>3, <2>4, <4>1
    <3>2. CASE i >= p
      <4>1. h[i] = g[i + 1] - c /\ m[i] = list[i + 1]
        BY <1>1, <1>4, <3>2
      <4>2. h[i - 1] = g[i] - c
        <5>1. CASE i = p
          <6>1. h[i - 1] = g[p - 1] /\ g[p] = g[p - 1] + c
            BY <1>1, <2>4, <5>1 DEF c
          <6>2. g[p - 1] \in Nat
            BY <1>1, <2>3
          <6>3. QED
            BY <2>5, <5>1, <6>1, <6>2
        <5>2. CASE i > p
          BY <1>1, <5>2
        <5>3. QED
          BY <1>1, <3>2, <5>1, <5>2
      <4>3. g[i + 1] = g[i] + Charge(list[i + 1])
        BY <1>1, <2>4
      <4>4. g[i] \in Nat /\ Charge(list[i + 1]) \in Nat
        BY <1>1, <2>2, <2>3
      <4>5. QED
        BY <2>5, <4>1, <4>2, <4>3, <4>4, SMTT(30)
    <3>3. QED
      BY <1>1, <3>1, <3>2
  <2>7. DOMAIN h = 0 .. n - 1 /\ h[0] = 0
    BY <1>1, <2>4
  <2>8. h[n - 1] = g[n] - c
    <3>1. CASE p = n
      <4>1. h[n - 1] = g[n - 1] /\ g[n] = g[n - 1] + c
        BY <1>1, <2>4, <3>1 DEF c
      <4>2. g[n - 1] \in Nat
        BY <1>1, <2>3
      <4>3. QED
        BY <2>5, <4>1, <4>2
    <3>2. CASE p < n
      BY <1>1, <3>2
    <3>3. QED
      BY <1>0, <3>1, <3>2
  <2> HIDE DEF h, c
  <2>9. PrefixSums(m, n - 1, h)
    BY <2>6, <2>7 DEF PrefixSums
  <2>10. TotalBytes(m) = h[n - 1] /\ TotalBytes(list) = g[n]
    BY <1>3, <2>1, <2>9, TotalIs
  <2>11. QED
    BY <2>8, <2>10 DEF c
<1>12. QED
  BY <1>3, <1>4, <1>9, <1>10, <1>11 DEF m

\* Giving the front entry another size changes its charge alone.
LEMMA ResizeFront ==
  ASSUME NEW list \in Seq(Entry), NoKeyTwice(list), Len(list) > 0,
         NEW e \in Entry, e.key = list[1].key
  PROVE  LET m == [list EXCEPT ![1] = e]
         IN  /\ m \in Seq(Entry)
             /\ Len(m) = Len(list)
             /\ m[1] = e
             /\ \A j \in 2 .. Len(list) : m[j] = list[j]
             /\ NoKeyTwice(m)
             /\ KeysOf(m) = KeysOf(list)
             /\ TotalBytes(m) = TotalBytes(list) - Charge(list[1]) + Charge(e)
<1> DEFINE n == Len(list)
           m == [list EXCEPT ![1] = e]
<1>1. /\ n \in Nat /\ 1 \in 1 .. n
      /\ DOMAIN list = 1 .. n
      /\ \A i \in 1 .. n : list[i] \in Entry
      /\ list \in [1 .. n -> Entry]
  BY SeqIsFunction
<1>2. m \in [1 .. n -> Entry]
  BY <1>1
<1>3. m \in Seq(Entry) /\ Len(m) = n
  BY <1>1, <1>2, FunctionIsSeq
<1>4. \A j \in 1 .. n : m[j] = IF j = 1 THEN e ELSE list[j]
  BY <1>1
<1>5. DOMAIN m = 1 .. n
  BY <1>2
<1> HIDE DEF m
<1>6. \A j \in 1 .. n : m[j].key = list[j].key
  BY <1>4
<1>7. NoKeyTwice(m)
  BY <1>1, <1>5, <1>6 DEF NoKeyTwice
<1>8. KeysOf(m) = KeysOf(list)
  BY <1>1, <1>5, <1>6 DEF KeysOf
<1>9. TotalBytes(m) = TotalBytes(list) - Charge(list[1]) + Charge(e)
  <2>1. PICK g \in [0 .. n -> Nat] : PrefixSums(list, n, g)
    BY PrefixSumsExist
  <2> DEFINE d == Charge(e) - Charge(list[1])
             h == [i \in 0 .. n |-> IF i = 0 THEN 0 ELSE g[i] + d]
  <2>2. Charge(e) \in Nat /\ \A i \in 1 .. n : Charge(list[i]) \in Nat
    BY <1>1, ChargeNat
  <2>3. \A i \in 0 .. n : g[i] \in Nat
    BY <2>1
  <2>4. g[0] = 0 /\ \A i \in 1 .. n : g[i] = g[i - 1] + Charge(list[i])
    BY <2>1 DEF PrefixSums
  <2>5. d \in Int /\ Charge(list[1]) + d = Charge(e)
    BY <1>1, <2>2
  <2> HIDE DEF d
  <2>6. ASSUME NEW i \in 1 .. n
        PROVE  h[i] \in Int /\ h[i] = h[i - 1] + Charge(m[i])
    <3>1. h[i] = g[i] + d /\ g[i] = g[i - 1] + Charge(list[i])
      BY <1>1, <2>4
    <3>2. g[i - 1] \in Nat /\ Charge(list[i]) \in Nat
      BY <1>1, <2>2, <2>3
    <3>3. CASE i = 1
      <4>1. h[i - 1] = 0 /\ m[i] = e /\ g[i - 1] = 0
        BY <1>1, <1>4, <2>4, <3>3
      <4>2. QED
        BY <2>2, <2>5, <3>1, <3>2, <3>3, <4>1
    <3>4. CASE i > 1
      <4>1. h[i - 1] = g[i - 1] + d /\ m[i] = list[i]
        BY <1>1, <1>4, <3>4
      <4>2. QED
        BY <2>5, <3>1, <3>2, <4>1
    <3>5. QED
      BY <3>3, <3>4
  <2>7. DOMAIN h = 0 .. n /\ h[0] = 0 /\ h[n] = g[n] + d /\ g[n] \in Nat
    BY <1>1, <2>3
  <2> HIDE DEF h
  <2>8. PrefixSums(m, n, h)
    BY <2>6, <2>7 DEF PrefixSums
  <2>9. TotalBytes(m) = h[n] /\ TotalBytes(list) = g[n]
    BY <1>3, <2>1, <2>8, TotalIs
  <2>10. QED
    BY <1>1, <2>2, <2>7, <2>9 DEF d
<1>10. QED
  BY <1>1, <1>3, <1>4, <1>7, <1>8, <1>9 DEF m
-----------------------------------------------------------------------------
(***************************************************************************)
(* What each method of LRU does to a sound object, in the terms of the     *)
(* EvictionPolicy contract: which keys it knows, their sizes, the bytes.   *)
(***************************************************************************)
LRUObject == [list : Seq(Entry), index : SUBSET Keys, memory_used : Nat]

\* The size recorded for the key of an entry is the entry's.
LEMMA SizeOfEntry ==
  ASSUME NEW l, l.list \in Seq(Entry), NoKeyTwice(l.list),
         NEW i \in 1 .. Len(l.list)
  PROVE  SizeOf(l, l.list[i].key) = l.list[i].size
BY NodeOfEntry DEF SizeOf

\* An object is in its type and sound when its list is well formed and the
\* other two fields are the list's keys and its total.
LEMMA SoundObject ==
  ASSUME NEW list \in Seq(Entry), NoKeyTwice(list), NEW index, NEW bytes,
         index = KeysOf(list), bytes = TotalBytes(list)
  PROVE  LET m == [list |-> list, index |-> index, memory_used |-> bytes]
         IN  m \in LRUObject /\ Sound(m)
<1>1. index \in SUBSET Keys
  <2>1. \A i \in DOMAIN list : list[i] \in Entry
    BY SeqIsFunction
  <2>2. \A i \in DOMAIN list : list[i].key \in Keys
    BY <2>1 DEF Entry
  <2>3. QED
    BY <2>2 DEF KeysOf
<1>2. bytes \in Nat
  BY TotalNat
<1>3. QED
  BY <1>1, <1>2 DEF LRUObject, Sound, IndexMatches, BytesExact

\* The fields of a sound object.
LEMMA SoundParts ==
  ASSUME NEW l \in LRUObject, Sound(l)
  PROVE  /\ l.list \in Seq(Entry)
         /\ NoKeyTwice(l.list)
         /\ l.index = KeysOf(l.list)
         /\ l.index \subseteq Keys
         /\ l.memory_used \in Nat
         /\ l.memory_used = TotalBytes(l.list)
         /\ l = [list |-> l.list, index |-> l.index,
                 memory_used |-> l.memory_used]
BY DEF LRUObject, Sound, IndexMatches, BytesExact

\* touch(key) changes neither the keys nor the sizes nor the bytes.
LEMMA TouchKeeps ==
  ASSUME NEW l \in LRUObject, Sound(l), NEW key
  PROVE  LET m == touch(l, key)
         IN  /\ m \in LRUObject
             /\ Sound(m)
             /\ m.index = l.index
             /\ m.memory_used = l.memory_used
             /\ \A k \in l.index : SizeOf(m, k) = SizeOf(l, k)
<1>1. CASE key \notin l.index
  BY <1>1 DEF touch
<1>2. CASE key \in l.index
  <2> DEFINE p == Node(l.list, key)
             list == MoveToFront(l.list, p)
  <2>1. p \in 1 .. Len(l.list)
    BY <1>2, SoundParts, NodeOfKey
  <2>2. touch(l, key) = [list |-> list, index |-> l.index,
                         memory_used |-> l.memory_used]
    BY <1>2, SoundParts DEF touch
  <2> HIDE DEF p
  <2>3. /\ list \in Seq(Entry)
        /\ Len(list) = Len(l.list)
        /\ list[1] = l.list[p]
        /\ \A j \in 2 .. Len(list) :
              list[j] = IF j <= p THEN l.list[j - 1] ELSE l.list[j]
        /\ NoKeyTwice(list)
        /\ KeysOf(list) = l.index
        /\ TotalBytes(list) = l.memory_used
    BY <2>1, SoundParts, MoveToFrontKeeps
  <2> HIDE DEF list
  <2>4. touch(l, key) \in LRUObject /\ Sound(touch(l, key))
    BY <2>2, <2>3, SoundObject
  <2>5. ASSUME NEW k \in l.index
        PROVE  SizeOf(touch(l, key), k) = SizeOf(l, k)
    <3>1. PICK j \in 1 .. Len(list) : list[j].key = k
      BY <2>3, SeqIsFunction DEF KeysOf
    <3>2. PICK i \in 1 .. Len(l.list) : list[j] = l.list[i]
      <4>1. Len(l.list) \in Nat
        BY SoundParts, SeqIsFunction
      <4>2. CASE j = 1
        BY <2>1, <2>3, <4>2
      <4>3. CASE j > 1 /\ j <= p
        BY <2>1, <2>3, <4>1, <4>3
      <4>4. CASE j > 1 /\ j > p
        BY <2>1, <2>3, <4>1, <4>4
      <4>5. QED
        BY <2>1, <2>3, <4>1, <4>2, <4>3, <4>4
    <3>3. SizeOf(touch(l, key), k) = list[j].size
      BY <2>2, <2>3, <3>1, SizeOfEntry
    <3>4. SizeOf(l, k) = l.list[i].size
      BY <3>1, <3>2, SoundParts, SizeOfEntry
    <3>5. QED
      BY <3>2, <3>3, <3>4
  <2>6. QED
    BY <2>2, <2>4, <2>5
<1>3. QED
  BY <1>1, <1>2

\* add(key, size) makes key known with that size, changes no other key's, and
\* charges the difference.  The key is at the front.
LEMMA AddAdds ==
  ASSUME NEW l \in LRUObject, Sound(l), NEW key \in Keys, NEW size \in Nat
  PROVE  LET m == add(l, key, size)
         IN  /\ m \in LRUObject
             /\ Sound(m)
             /\ m.index = l.index \cup {key}
             /\ key \in l.index =>
                  m.memory_used = l.memory_used
                                    - (KeySize[key] + SizeOf(l, key))
                                    + (KeySize[key] + size)
             /\ key \notin l.index =>
                  m.memory_used = l.memory_used + (KeySize[key] + size)
             /\ SizeOf(m, key) = size
             /\ \A k \in l.index : k # key => SizeOf(m, k) = SizeOf(l, k)
             /\ Len(m.list) > 0
             /\ m.list[1] = [key |-> key, size |-> size]
<1> DEFINE e == [key |-> key, size |-> size]
           m == add(l, key, size)
<1>1. e \in Entry /\ e.key = key /\ e.size = size /\ Charge(e) = KeySize[key] + size
  BY DEF Entry, Charge
<1>2. CASE key \notin l.index
  <2> DEFINE list == PushFront(l.list, e)
  <2>1. m = [list |-> list, index |-> l.index \cup {key},
             memory_used |-> l.memory_used + Charge(e)]
    BY <1>2 DEF add
  <2>2. /\ list \in Seq(Entry)
        /\ Len(list) = Len(l.list) + 1
        /\ list[1] = e
        /\ \A j \in 2 .. Len(list) : list[j] = l.list[j - 1]
        /\ NoKeyTwice(list)
        /\ KeysOf(list) = l.index \cup {key}
        /\ TotalBytes(list) = l.memory_used + Charge(e)
    BY <1>1, <1>2, SoundParts, PushFrontAdds
  <2>3. Len(l.list) \in Nat /\ Len(list) \in Nat /\ Len(list) > 0
    BY <2>2, SoundParts, SeqIsFunction
  <2> HIDE DEF list, e, m
  <2>4. m \in LRUObject /\ Sound(m)
    BY <2>1, <2>2, SoundObject
  <2>5. ASSUME NEW k \in m.index
        PROVE  SizeOf(m, k) = IF k = key THEN size ELSE SizeOf(l, k)
    <3>1. PICK j \in 1 .. Len(list) : list[j].key = k
      BY <2>1, <2>2, SeqIsFunction DEF KeysOf
    <3>2. SizeOf(m, k) = list[j].size
      <4>1. m.list = list /\ NoKeyTwice(list) /\ list \in Seq(Entry)
        BY <2>1, <2>2
      <4>2. QED
        BY <3>1, <4>1, SizeOfEntry
    <3>3. CASE j = 1
      BY <1>1, <2>2, <3>1, <3>2, <3>3
    <3>4. CASE j > 1
      <4>1. j - 1 \in 1 .. Len(l.list) /\ list[j] = l.list[j - 1]
        BY <2>2, <2>3, <3>4
      <4>2. SizeOf(l, k) = list[j].size /\ k \in l.index
        <5>1. DOMAIN l.list = 1 .. Len(l.list)
          BY SoundParts, SeqIsFunction
        <5>2. QED
          BY <3>1, <4>1, <5>1, SoundParts, SizeOfEntry DEF KeysOf
      <4>3. QED
        BY <1>2, <3>2, <4>2
    <3>5. QED
      BY <3>3, <3>4
  <2>6. /\ m.list = list
        /\ m.index = l.index \cup {key}
        /\ m.memory_used = l.memory_used + (KeySize[key] + size)
    BY <1>1, <2>1
  <2>7. QED
    BY <1>2, <2>2, <2>3, <2>4, <2>5, <2>6 DEF e, m
<1>3. CASE key \in l.index
  <2> DEFINE p == Node(l.list, key)
             front == MoveToFront(l.list, p)
             list == [front EXCEPT ![1] = e]
  <2>1. /\ p \in 1 .. Len(l.list)
        /\ l.list[p].key = key
        /\ SizeOf(l, key) = l.list[p].size
        /\ Charge(l.list[p]) = KeySize[key] + SizeOf(l, key)
    BY <1>3, SoundParts, NodeOfKey DEF SizeOf, Charge
  <2>2. m = [list |-> list, index |-> l.index,
             memory_used |-> l.memory_used - Charge(l.list[p]) + Charge(e)]
    BY <1>3 DEF add
  <2> HIDE DEF p, e, m
  <2>3. /\ front \in Seq(Entry)
        /\ Len(front) = Len(l.list)
        /\ front[1] = l.list[p]
        /\ \A j \in 2 .. Len(l.list) :
              front[j] = IF j <= p THEN l.list[j - 1] ELSE l.list[j]
        /\ NoKeyTwice(front)
        /\ KeysOf(front) = l.index
        /\ TotalBytes(front) = l.memory_used
    BY <2>1, SoundParts, MoveToFrontKeeps
  <2>4. Len(l.list) \in Nat /\ Len(l.list) > 0
    BY <2>1, SoundParts, SeqIsFunction
  <2> HIDE DEF front
  <2>5. /\ list \in Seq(Entry)
        /\ Len(list) = Len(l.list)
        /\ list[1] = e
        /\ \A j \in 2 .. Len(l.list) : list[j] = front[j]
        /\ NoKeyTwice(list)
        /\ KeysOf(list) = l.index
        /\ TotalBytes(list) = l.memory_used - Charge(l.list[p]) + Charge(e)
    BY <1>1, <2>1, <2>3, <2>4, ResizeFront
  <2> HIDE DEF list
  <2>6. m \in LRUObject /\ Sound(m)
    BY <2>2, <2>5, SoundObject
  <2>7. ASSUME NEW k \in m.index
        PROVE  SizeOf(m, k) = IF k = key THEN size ELSE SizeOf(l, k)
    <3>1. PICK j \in 1 .. Len(list) : list[j].key = k
      BY <2>2, <2>5, SeqIsFunction DEF KeysOf
    <3>2. SizeOf(m, k) = list[j].size
      BY <2>2, <2>5, <3>1, SizeOfEntry
    <3>3. CASE j = 1
      BY <1>1, <2>5, <3>1, <3>2, <3>3
    <3>4. CASE j > 1
      <4>1. j \in 2 .. Len(l.list) /\ list[j] = front[j]
        BY <2>4, <2>5, <3>4
      <4>2. PICK i \in 1 .. Len(l.list) : i # p /\ list[j] = l.list[i]
        <5>1. CASE j <= p
          BY <2>1, <2>3, <2>4, <4>1, <5>1
        <5>2. CASE j > p
          BY <2>1, <2>3, <2>4, <4>1, <5>2
        <5>3. QED
          BY <2>1, <2>4, <4>1, <5>1, <5>2
      <4>3. SizeOf(l, k) = l.list[i].size
        BY <3>1, <4>2, SoundParts, SizeOfEntry
      <4>4. k # key
        <5>1. DOMAIN l.list = 1 .. Len(l.list)
          BY SoundParts, SeqIsFunction
        <5>2. QED
          BY <2>1, <3>1, <4>2, <5>1, SoundParts DEF NoKeyTwice
      <4>5. QED
        BY <3>2, <4>2, <4>3, <4>4
    <3>5. QED
      BY <3>3, <3>4
  <2>8. /\ m.list = list
        /\ m.index = l.index
        /\ m.memory_used = l.memory_used - (KeySize[key] + SizeOf(l, key))
                            + (KeySize[key] + size)
    BY <1>1, <2>1, <2>2
  <2>9. l.index = l.index \cup {key}
    BY <1>3
  <2>10. QED
    BY <1>3, <2>4, <2>5, <2>6, <2>7, <2>8, <2>9 DEF e, m
<1>4. QED
  BY <1>2, <1>3

\* Erasing the node of a known key forgets that key, gives its bytes back and
\* changes no other key's size.
LEMMA ForgetNode ==
  ASSUME NEW l \in LRUObject, Sound(l), NEW p \in 1 .. Len(l.list)
  PROVE  LET key == l.list[p].key
             m == [list        |-> EraseNode(l.list, p),
                   index       |-> l.index \ {key},
                   memory_used |-> l.memory_used - Charge(l.list[p])]
         IN  /\ m \in LRUObject
             /\ Sound(m)
             /\ key \in l.index
             /\ m.memory_used = l.memory_used - (KeySize[key] + SizeOf(l, key))
             /\ m.memory_used <= l.memory_used
             /\ \A k \in m.index : SizeOf(m, k) = SizeOf(l, k)
<1> DEFINE key == l.list[p].key
           list == EraseNode(l.list, p)
           m == [list |-> list, index |-> l.index \ {key},
                 memory_used |-> l.memory_used - Charge(l.list[p])]
<1>1. /\ list \in Seq(Entry)
      /\ Len(list) = Len(l.list) - 1
      /\ \A j \in 1 .. Len(list) :
            list[j] = IF j < p THEN l.list[j] ELSE l.list[j + 1]
      /\ NoKeyTwice(list)
      /\ KeysOf(list) = l.index \ {key}
      /\ TotalBytes(list) = l.memory_used - Charge(l.list[p])
  BY SoundParts, EraseNodeDrops
<1>2. /\ Len(l.list) \in Nat
      /\ DOMAIN l.list = 1 .. Len(l.list)
      /\ l.list[p] \in Entry
  BY SoundParts, SeqIsFunction
<1>3. key \in l.index
  BY <1>2, SoundParts DEF KeysOf
<1>4. Charge(l.list[p]) = KeySize[key] + SizeOf(l, key)
  BY SoundParts, SizeOfEntry DEF Charge
<1>5. Charge(l.list[p]) \in Nat /\ l.memory_used \in Nat
  BY <1>2, ChargeNat, SoundParts
<1> HIDE DEF list, key
<1>6. m \in LRUObject /\ Sound(m)
  BY <1>1, SoundObject
<1>7. ASSUME NEW k \in m.index PROVE SizeOf(m, k) = SizeOf(l, k)
  <2>1. PICK j \in 1 .. Len(list) : list[j].key = k
    BY <1>1, SeqIsFunction DEF KeysOf
  <2>2. PICK i \in 1 .. Len(l.list) : list[j] = l.list[i]
    <3>1. CASE j < p
      BY <1>1, <1>2, <3>1
    <3>2. CASE j >= p
      BY <1>1, <1>2, <3>2
    <3>3. QED
      BY <1>1, <1>2, <3>1, <3>2
  <2>3. SizeOf(m, k) = list[j].size
    BY <1>1, <2>1, SizeOfEntry, SMTT(30)
  <2>4. SizeOf(l, k) = l.list[i].size
    BY <2>1, <2>2, SoundParts, SizeOfEntry
  <2>5. QED
    BY <2>2, <2>3, <2>4
<1>8. m.memory_used = l.memory_used - (KeySize[key] + SizeOf(l, key))
  BY <1>4
<1>9. m.memory_used <= l.memory_used
  BY <1>5
<1>10. QED
  BY <1>3, <1>6, <1>7, <1>8, <1>9 DEF list, key

\* remove(key) forgets a known key and does nothing for an unknown one.
LEMMA RemoveForgets ==
  ASSUME NEW l \in LRUObject, Sound(l), NEW key
  PROVE  LET m == remove(l, key)
         IN  /\ m \in LRUObject
             /\ Sound(m)
             /\ m.index = l.index \ {key}
             /\ m.memory_used <= l.memory_used
             /\ key \in l.index =>
                  m.memory_used = l.memory_used - (KeySize[key] + SizeOf(l, key))
             /\ key \notin l.index => m = l
             /\ \A k \in m.index : SizeOf(m, k) = SizeOf(l, k)
<1>1. CASE key \notin l.index
  <2>1. remove(l, key) = l /\ l.index = l.index \ {key}
    BY <1>1 DEF remove
  <2>2. l.memory_used \in Nat
    BY SoundParts
  <2>3. QED
    BY <1>1, <2>1, <2>2
<1>2. CASE key \in l.index
  <2> DEFINE p == Node(l.list, key)
             m == [list        |-> EraseNode(l.list, p),
                   index       |-> l.index \ {key},
                   memory_used |-> l.memory_used - Charge(l.list[p])]
  <2>1. p \in 1 .. Len(l.list) /\ l.list[p].key = key
    BY <1>2, SoundParts, NodeOfKey
  <2>2. remove(l, key) = m
    BY <1>2 DEF remove
  <2>3. m.index = l.index \ {key}
    OBVIOUS
  <2> HIDE DEF p
  <2>4. /\ m \in LRUObject
        /\ Sound(m)
        /\ m.memory_used = l.memory_used - (KeySize[key] + SizeOf(l, key))
        /\ m.memory_used <= l.memory_used
        /\ \A k \in m.index : SizeOf(m, k) = SizeOf(l, k)
    BY <2>1, ForgetNode
  <2> HIDE DEF m
  <2>5. QED
    BY <1>2, <2>2, <2>3, <2>4
<1>3. QED
  BY <1>1, <1>2

\* evict() returns and forgets the key at the back, when there is one.
LEMMA EvictForgets ==
  ASSUME NEW l \in LRUObject, Sound(l), l.index # {}
  PROVE  LET m == evict(l)
             key == victim(l)
         IN  /\ Len(l.list) > 0
             /\ key = l.list[Len(l.list)].key
             /\ key \in l.index
             /\ m \in LRUObject
             /\ Sound(m)
             /\ m.index = l.index \ {key}
             /\ m.memory_used = l.memory_used - (KeySize[key] + SizeOf(l, key))
             /\ \A k \in m.index : SizeOf(m, k) = SizeOf(l, k)
             /\ m.list = EraseNode(l.list, Len(l.list))
<1> DEFINE p == Len(l.list)
           key == l.list[p].key
           m == [list        |-> EraseNode(l.list, p),
                 index       |-> l.index \ {key},
                 memory_used |-> l.memory_used - Charge(l.list[p])]
<1>1. p \in Nat /\ DOMAIN l.list = 1 .. p
  BY SoundParts, SeqIsFunction
<1>2. p > 0
  BY <1>1, SoundParts DEF KeysOf
<1>3. p \in 1 .. p /\ l.list # <<>>
  BY <1>1, <1>2
<1>4. victim(l) = key /\ evict(l) = m
  BY <1>3 DEF victim, evict
<1>5. /\ m \in LRUObject
      /\ Sound(m)
      /\ key \in l.index
      /\ m.memory_used = l.memory_used - (KeySize[key] + SizeOf(l, key))
      /\ \A k \in m.index : SizeOf(m, k) = SizeOf(l, k)
  BY <1>3, ForgetNode
<1>6. m.index = l.index \ {key} /\ m.list = EraseNode(l.list, p)
  OBVIOUS
<1> HIDE DEF m
<1>7. QED
  BY <1>2, <1>4, <1>5, <1>6

\* An object that knows no key has an empty list and counts no bytes, and
\* evict() leaves it alone.
LEMMA EmptyObject ==
  ASSUME NEW l \in LRUObject, Sound(l), l.index = {}
  PROVE  Len(l.list) = 0 /\ l.memory_used = 0 /\ evict(l) = l
<1>1. Len(l.list) \in Nat /\ DOMAIN l.list = 1 .. Len(l.list)
  BY SoundParts, SeqIsFunction
<1>2. Len(l.list) = 0
  <2>1. SUFFICES ASSUME Len(l.list) > 0 PROVE FALSE
    BY <1>1
  <2>2. 1 \in DOMAIN l.list
    BY <1>1, <2>1
  <2>3. l.list[1].key \in KeysOf(l.list)
    BY <2>2 DEF KeysOf
  <2>4. QED
    BY <2>3, SoundParts
<1>3. l.memory_used = 0
  BY <1>2, SoundParts, TotalNat
<1>4. l.list = <<>>
  BY <1>2, SoundParts
<1>5. QED
  BY <1>2, <1>3, <1>4 DEF evict

\* A new object is sound.
LEMMA EmptyLRUSound == EmptyLRU \in LRUObject /\ Sound(EmptyLRU)
<1>1. <<>> \in Seq(Entry) /\ Len(<<>>) = 0 /\ DOMAIN <<>> = {}
  OBVIOUS
<1>2. NoKeyTwice(<<>>) /\ KeysOf(<<>>) = {}
  BY <1>1 DEF NoKeyTwice, KeysOf
<1>3. TotalBytes(<<>>) = 0
  BY <1>1, TotalNat
<1>4. QED
  BY <1>1, <1>2, <1>3, SoundObject DEF EmptyLRU
-----------------------------------------------------------------------------
(***************************************************************************)
(* Sums.  The sum over a set takes its elements in the order of a choice;  *)
(* by a least set for which it did not, it takes any element first.        *)
(***************************************************************************)
First(S) == CHOOSE x \in S : TRUE

\* g gives the sum of f over each set of its domain.
Sums(f, g) ==
  /\ DOMAIN g = SUBSET DOMAIN f
  /\ \A S \in SUBSET DOMAIN f :
       g[S] = IF S = {} THEN 0 ELSE f[First(S)] + g[S \ {First(S)}]

\* A finite set without one of its elements is smaller.
LEMMA Without ==
  ASSUME NEW S, IsFiniteSet(S), NEW x \in S
  PROVE  /\ IsFiniteSet(S \ {x}) /\ Cardinality(S) \in Nat
         /\ Cardinality(S \ {x}) \in Nat
         /\ Cardinality(S \ {x}) = Cardinality(S) - 1
BY FS_RemoveElement, FS_CardinalityType

\* The element that a sum takes first is one of the set's.
LEMMA FirstIn ==
  ASSUME NEW S, S # {}
  PROVE  First(S) \in S
BY DEF First

\* There are such sums,
LEMMA SumsExist ==
  ASSUME NEW f, IsFiniteSet(DOMAIN f), \A k \in DOMAIN f : f[k] \in Int
  PROVE  \E g \in [SUBSET DOMAIN f -> Int] : Sums(f, g)
<1> DEFINE D == DOMAIN f
           Sized(n) == {S \in SUBSET D : Cardinality(S) <= n}
           Is(n, g) == \A S \in Sized(n) :
                          g[S] = IF S = {} THEN 0
                                 ELSE f[First(S)] + g[S \ {First(S)}]
           Has(n) == \E g \in [SUBSET D -> Int] : Is(n, g)
           T == {n \in Nat : ~Has(n)}
<1>1. \A S \in SUBSET D : IsFiniteSet(S) /\ Cardinality(S) \in Nat
  BY FS_Subset, FS_CardinalityType
<1>2. Cardinality(D) \in Nat /\ \A S \in SUBSET D : Cardinality(S) <= Cardinality(D)
  BY <1>1, FS_Subset
<1>3. SUFFICES \A n \in Nat : Has(n)
  <2>1. PICK g \in [SUBSET D -> Int] : Is(Cardinality(D), g)
    BY <1>2, <1>3
  <2>2. \A S \in SUBSET D : S \in Sized(Cardinality(D))
    BY <1>2
  <2>3. QED
    BY <2>1, <2>2 DEF Sums
<1>4. SUFFICES ASSUME T # {} PROVE FALSE
  OBVIOUS
<1>5. PICK n \in T : \A m \in T : n <= m
  <2>1. T \in SUBSET Nat
    OBVIOUS
  <2> HIDE DEF T
  <2>2. QED
    BY <1>4, <2>1, LeastNatural
<1>6. Has(0)
  <2> DEFINE g == [S \in SUBSET D |-> 0]
  <2>1. \A S \in Sized(0) : S = {}
    BY <1>1, FS_EmptySet
  <2>2. g \in [SUBSET D -> Int] /\ Is(0, g)
    BY <2>1
  <2>3. QED
    BY <2>2
<1>7. n \in Nat \ {0}
  BY <1>5, <1>6, SMTT(30)
<1>8. PICK g \in [SUBSET D -> Int] : Is(n - 1, g)
  <2>1. n - 1 \in Nat /\ ~(n <= n - 1)
    BY <1>7
  <2>2. n - 1 \notin T
    <3> HIDE DEF T
    <3>1. QED
      BY <1>5, <2>1
  <2>3. QED
    BY <2>1, <2>2
<1> DEFINE h == [S \in SUBSET D |-> IF S = {} THEN 0
                                    ELSE f[First(S)] + g[S \ {First(S)}]]
<1>9. \A S \in SUBSET D : S # {} => /\ f[First(S)] \in Int
                                    /\ S \ {First(S)} \in SUBSET D
                                    /\ g[S \ {First(S)}] \in Int
  BY FirstIn
<1>10. h \in [SUBSET D -> Int]
  BY <1>9
<1>11. \A S \in Sized(n - 1) : g[S] = h[S]
  BY <1>8
<1>12. Is(n, h)
  <2>1. ASSUME NEW S \in Sized(n), S # {}
        PROVE  S \ {First(S)} \in Sized(n - 1)
    <3>1. First(S) \in S /\ IsFiniteSet(S) /\ Cardinality(S) <= n
      BY <1>1, <2>1, FirstIn
    <3>2. Cardinality(S \ {First(S)}) = Cardinality(S) - 1 /\ Cardinality(S) \in Nat
      BY <3>1, Without
    <3>3. QED
      BY <1>7, <3>1, <3>2
  <2>2. ASSUME NEW S \in Sized(n)
        PROVE  h[S] = IF S = {} THEN 0 ELSE f[First(S)] + h[S \ {First(S)}]
    BY <1>11, <2>1, <2>2
  <2>3. QED
    BY <2>2
<1>13. QED
  BY <1>5, <1>10, <1>12

\* they are numbers,
LEMMA SumsInt ==
  ASSUME NEW f, IsFiniteSet(DOMAIN f), \A k \in DOMAIN f : f[k] \in Int,
         NEW g, Sums(f, g)
  PROVE  \A S \in SUBSET DOMAIN f : g[S] \in Int
<1> DEFINE T == {n \in Nat : \E S \in SUBSET DOMAIN f : Cardinality(S) = n /\ g[S] \notin Int}
<1>1. \A S \in SUBSET DOMAIN f : IsFiniteSet(S) /\ Cardinality(S) \in Nat
  BY FS_Subset, FS_CardinalityType
<1>2. SUFFICES ASSUME T # {} PROVE FALSE
  BY <1>1
<1>3. PICK n \in T : \A m \in T : n <= m
  <2>1. T \in SUBSET Nat
    OBVIOUS
  <2> HIDE DEF T
  <2>2. QED
    BY <1>2, <2>1, LeastNatural
<1>4. PICK S \in SUBSET DOMAIN f : Cardinality(S) = n /\ g[S] \notin Int
  BY <1>3
<1>5. S # {} /\ g[S] = f[First(S)] + g[S \ {First(S)}]
  BY <1>4 DEF Sums
<1>6. First(S) \in S /\ IsFiniteSet(S)
  BY <1>1, <1>5, FirstIn
<1>7. Cardinality(S \ {First(S)}) \in Nat /\ Cardinality(S \ {First(S)}) < n
  BY <1>4, <1>6, Without
<1>8. g[S \ {First(S)}] \in Int
  BY <1>3, <1>7
<1>9. QED
  BY <1>4, <1>5, <1>6, <1>8

\* natural ones if f's are,
LEMMA SumsNat ==
  ASSUME NEW f, IsFiniteSet(DOMAIN f), \A k \in DOMAIN f : f[k] \in Nat,
         NEW g, Sums(f, g)
  PROVE  \A S \in SUBSET DOMAIN f : g[S] \in Nat
<1> DEFINE T == {n \in Nat : \E S \in SUBSET DOMAIN f : Cardinality(S) = n /\ g[S] \notin Nat}
<1>1. \A S \in SUBSET DOMAIN f : IsFiniteSet(S) /\ Cardinality(S) \in Nat
  BY FS_Subset, FS_CardinalityType
<1>2. SUFFICES ASSUME T # {} PROVE FALSE
  BY <1>1
<1>3. PICK n \in T : \A m \in T : n <= m
  <2>1. T \in SUBSET Nat
    OBVIOUS
  <2> HIDE DEF T
  <2>2. QED
    BY <1>2, <2>1, LeastNatural
<1>4. PICK S \in SUBSET DOMAIN f : Cardinality(S) = n /\ g[S] \notin Nat
  BY <1>3
<1>5. S # {} /\ g[S] = f[First(S)] + g[S \ {First(S)}]
  BY <1>4 DEF Sums
<1>6. First(S) \in S /\ IsFiniteSet(S)
  BY <1>1, <1>5, FirstIn
<1>7. Cardinality(S \ {First(S)}) \in Nat /\ Cardinality(S \ {First(S)}) < n
  BY <1>4, <1>6, Without, SMTT(30)
<1>8. g[S \ {First(S)}] \in Nat
  BY <1>3, <1>7
<1>9. QED
  BY <1>4, <1>5, <1>6, <1>8

\* they take any element first,
LEMMA SumsTakeAny ==
  ASSUME NEW f, IsFiniteSet(DOMAIN f), \A k \in DOMAIN f : f[k] \in Int,
         NEW g, Sums(f, g)
  PROVE  \A S \in SUBSET DOMAIN f : \A x \in S : g[S] = f[x] + g[S \ {x}]
<1> DEFINE Off(S) == \E x \in S : g[S] # f[x] + g[S \ {x}]
           T == {n \in Nat : \E S \in SUBSET DOMAIN f : Cardinality(S) = n /\ Off(S)}
<1>1. \A S \in SUBSET DOMAIN f : IsFiniteSet(S) /\ Cardinality(S) \in Nat
  BY FS_Subset, FS_CardinalityType
<1>2. SUFFICES ASSUME T # {} PROVE FALSE
  BY <1>1
<1>3. PICK n \in T : \A m \in T : n <= m
  <2>1. T \in SUBSET Nat
    OBVIOUS
  <2> HIDE DEF T
  <2>2. QED
    BY <1>2, <2>1, LeastNatural
<1>4. PICK S \in SUBSET DOMAIN f : Cardinality(S) = n /\ Off(S)
  BY <1>3
<1>5. PICK x \in S : g[S] # f[x] + g[S \ {x}]
  BY <1>4
<1> DEFINE y == First(S)
<1>6. y \in S /\ g[S] = f[y] + g[S \ {y}]
  BY <1>5, FirstIn DEF Sums
<1> HIDE DEF y
<1>7. y # x
  BY <1>5, <1>6
<1>8. ASSUME NEW z \in S, NEW w \in S \ {z}
      PROVE  g[S \ {z}] = f[w] + g[(S \ {z}) \ {w}]
  <2>1. /\ Cardinality(S \ {z}) \in Nat /\ Cardinality(S \ {z}) < n
    BY <1>1, <1>4, Without
  <2>2. S \ {z} \in SUBSET DOMAIN f /\ ~Off(S \ {z})
    BY <1>3, <2>1
  <2>3. QED
    BY <2>2
<1>9. /\ g[S \ {y}] = f[x] + g[(S \ {y}) \ {x}]
      /\ g[S \ {x}] = f[y] + g[(S \ {x}) \ {y}]
  BY <1>5, <1>6, <1>7, <1>8
<1>10. (S \ {y}) \ {x} = (S \ {x}) \ {y}
  OBVIOUS
<1> DEFINE rest == g[(S \ {x}) \ {y}]
<1>11. f[x] \in Int /\ f[y] \in Int /\ rest \in Int
  BY <1>5, <1>6, SumsInt
<1>12. g[S \ {y}] = f[x] + rest /\ g[S \ {x}] = f[y] + rest
  BY <1>9, <1>10
<1> HIDE DEF rest
<1>13. g[S] = f[x] + g[S \ {x}]
  BY <1>6, <1>11, <1>12
<1>14. QED
  BY <1>5, <1>13

\* and agree for functions that do.
LEMMA SumsAgree ==
  ASSUME NEW f, IsFiniteSet(DOMAIN f), NEW g, Sums(f, g), NEW u, NEW v, Sums(u, v),
         NEW D \in SUBSET (DOMAIN f \cap DOMAIN u), \A k \in D : f[k] = u[k]
  PROVE  g[D] = v[D]
<1> DEFINE T == {n \in Nat : \E S \in SUBSET D : Cardinality(S) = n /\ g[S] # v[S]}
<1>1. \A S \in SUBSET D : IsFiniteSet(S) /\ Cardinality(S) \in Nat
  BY FS_Subset, FS_CardinalityType
<1>2. SUFFICES ASSUME T # {} PROVE FALSE
  BY <1>1
<1>3. PICK n \in T : \A m \in T : n <= m
  <2>1. T \in SUBSET Nat
    OBVIOUS
  <2> HIDE DEF T
  <2>2. QED
    BY <1>2, <2>1, LeastNatural
<1>4. PICK S \in SUBSET D : Cardinality(S) = n /\ g[S] # v[S]
  BY <1>3
<1>5. S \in SUBSET DOMAIN f /\ S \in SUBSET DOMAIN u
  BY <1>4
<1>6. S # {}
  BY <1>4, <1>5 DEF Sums
<1> DEFINE x == First(S)
<1>7. x \in S /\ g[S] = f[x] + g[S \ {x}] /\ v[S] = u[x] + v[S \ {x}]
  BY <1>5, <1>6, FirstIn DEF Sums
<1> HIDE DEF x
<1>8. Cardinality(S \ {x}) \in Nat /\ Cardinality(S \ {x}) < n
  BY <1>1, <1>4, <1>7, Without
<1>9. g[S \ {x}] = v[S \ {x}]
  BY <1>3, <1>4, <1>8
<1>10. QED
  BY <1>4, <1>7, <1>9

\* Total is the sum over the whole domain.
LEMMA TotalIsSum ==
  ASSUME NEW f, IsFiniteSet(DOMAIN f), \A k \in DOMAIN f : f[k] \in Int
  PROVE  \E g : Sums(f, g) /\ Total(f) = g[DOMAIN f]
<1> DEFINE Eq(g) == g = [S \in SUBSET DOMAIN f |->
                           IF S = {} THEN 0
                           ELSE f[CHOOSE x \in S : TRUE]
                                  + g[S \ {CHOOSE x \in S : TRUE}]]
           u == CHOOSE g : Eq(g)
<1>1. PICK g \in [SUBSET DOMAIN f -> Int] : Sums(f, g)
  BY SumsExist
<1>2. Eq(g)
  BY <1>1 DEF Sums, First
<1>3. Eq(u)
  BY <1>2, ZenonT(30)
<1>4. Total(f) = u[DOMAIN f]
  BY DEF Total
<1> HIDE DEF u
<1>5. Sums(f, u)
  BY <1>3 DEF Sums, First
<1>6. QED
  BY <1>4, <1>5

\* The total of natural numbers is one, and that of nothing is zero.
LEMMA TotalNatural ==
  ASSUME NEW f, IsFiniteSet(DOMAIN f), \A k \in DOMAIN f : f[k] \in Nat
  PROVE  Total(f) \in Nat /\ (DOMAIN f = {} => Total(f) = 0)
<1>1. PICK g : Sums(f, g) /\ Total(f) = g[DOMAIN f]
  BY TotalIsSum
<1>2. \A T \in SUBSET DOMAIN f : g[T] \in Nat
  BY <1>1, SumsNat
<1>3. DOMAIN f = {} => g[DOMAIN f] = 0
  BY <1>1 DEF Sums
<1>4. QED
  BY <1>1, <1>2, <1>3

\* What an erased entry and an assigned one do to the total.
LEMMA TotalErase ==
  ASSUME NEW f, IsFiniteSet(DOMAIN f), \A k \in DOMAIN f : f[k] \in Int, NEW x,
         NEW h, DOMAIN h = DOMAIN f \ {x}, \A k \in DOMAIN h : h[k] = f[k]
  PROVE  /\ Total(h) \in Int
         /\ Total(f) = Total(h) + IF x \in DOMAIN f THEN f[x] ELSE 0
<1>1. IsFiniteSet(DOMAIN h) /\ \A k \in DOMAIN h : h[k] \in Int
  BY FS_Subset
<1>2. PICK g : Sums(f, g) /\ Total(f) = g[DOMAIN f]
  BY TotalIsSum
<1>3. PICK v : Sums(h, v) /\ Total(h) = v[DOMAIN h]
  BY <1>1, TotalIsSum
<1>4. g[DOMAIN h] = v[DOMAIN h]
  <2>1. DOMAIN h \in SUBSET (DOMAIN f \cap DOMAIN h)
    OBVIOUS
  <2>2. QED
    BY <1>2, <1>3, <2>1, SumsAgree
<1>5. g[DOMAIN h] \in Int
  BY <1>2, SumsInt
<1>6. CASE x \in DOMAIN f
  <2>1. g[DOMAIN f] = f[x] + g[DOMAIN f \ {x}]
    BY <1>2, <1>6, SumsTakeAny
  <2>2. QED
    BY <1>2, <1>3, <1>4, <1>5, <1>6, <2>1
<1>7. CASE x \notin DOMAIN f
  <2>1. DOMAIN h = DOMAIN f
    BY <1>7
  <2>2. QED
    BY <1>2, <1>3, <1>4, <1>5, <1>7, <2>1
<1>8. QED
  BY <1>6, <1>7

\* operator[] and an assignment: an entry is replaced, or a new one added.
LEMMA TotalPut ==
  ASSUME NEW f, IsFiniteSet(DOMAIN f), \A k \in DOMAIN f : f[k] \in Int,
         NEW x, NEW h, DOMAIN h = DOMAIN f \cup {x}, h[x] \in Int,
         \A k \in DOMAIN f \ {x} : h[k] = f[k]
  PROVE  Total(h) = Total(f) - (IF x \in DOMAIN f THEN f[x] ELSE 0) + h[x]
<1> DEFINE r == [k \in DOMAIN f \ {x} |-> f[k]]
<1>1. Total(r) \in Int /\ Total(f) = Total(r) + IF x \in DOMAIN f THEN f[x] ELSE 0
  BY TotalErase
<1>2. Total(h) = Total(r) + h[x]
  <2>1. IsFiniteSet(DOMAIN h) /\ \A k \in DOMAIN h : h[k] \in Int
    BY FS_AddElement
  <2>2. DOMAIN r = DOMAIN h \ {x} /\ (\A k \in DOMAIN r : r[k] = h[k])
        /\ x \in DOMAIN h
    OBVIOUS
  <2> HIDE DEF r
  <2>3. Total(h) = Total(r) + IF x \in DOMAIN h THEN h[x] ELSE 0
    BY <2>1, <2>2, TotalErase
  <2>4. QED
    BY <2>2, <2>3
<1> HIDE DEF r
<1>3. (IF x \in DOMAIN f THEN f[x] ELSE 0) \in Int
  OBVIOUS
<1>4. QED
  BY <1>1, <1>2, <1>3
=============================================================================
