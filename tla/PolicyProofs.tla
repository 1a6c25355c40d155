---------------------------- MODULE PolicyProofs ----------------------------
(***************************************************************************)
(* The safety theorems about LRU, LFU and SIEVE, for any keys, any sizes   *)
(* and any number of calls: each stays sound, evicts the key it should,    *)
(* and does only what the EvictionPolicy interface allows.                 *)
(*                                                                         *)
(* LRU: the list is sorted by last use, and no use lies in the future.     *)
(*                                                                         *)
(* LFU: each bucket holds exactly the keys of its frequency, sorted by     *)
(* when they came to have it, and min_freq_ is above none of them; so the  *)
(* loop of evict ends at the lowest non-empty bucket, and its back is the  *)
(* key that has been there for longest.                                    *)
(*                                                                         *)
(* SIEVE: the links lead from each node to the next older one, and the     *)
(* hand has left behind only nodes that were touched since they were       *)
(* added.  The loop of evict moves to newer nodes all the time, so that it *)
(* stops, and it passes visited ones only.                                 *)
(***************************************************************************)
EXTENDS Policies, PolicyLemmas
-----------------------------------------------------------------------------
(***************************************************************************)
(* LRU.                                                                    *)
(***************************************************************************)
\* No key was used later than the present call: what makes the key that is
\* moved to the front newer than all the others.
UsedBefore == \A k \in Keys : lastUse[k] <= calls

LRUInv == TypeOK /\ LRUSound /\ RecencyOrder /\ UsedBefore
-----------------------------------------------------------------------------
\* The entries of m behind its front are entries of list, in list's order.
TailKeepsOrder(m, list) ==
  \A i, j \in 2 .. Len(m) :
     i < j => \E a, b \in 1 .. Len(list) :
                 /\ a < b
                 /\ m[i].key = list[a].key
                 /\ m[j].key = list[b].key

SortedByUse(list, use) ==
  \A i, j \in 1 .. Len(list) : i < j => use[list[i].key] > use[list[j].key]

LEMMA MoveToFrontOrder ==
  ASSUME NEW list \in Seq(Entry), NoKeyTwice(list), NEW p \in 1 .. Len(list)
  PROVE  TailKeepsOrder(MoveToFront(list, p), list)
<1> DEFINE n == Len(list)
           m == MoveToFront(list, p)
           from(j) == IF j <= p THEN j - 1 ELSE j
<1>1. n \in Nat
  BY SeqIsFunction
<1>2. Len(m) = n /\ \A j \in 2 .. n : m[j] = list[from(j)]
  BY MoveToFrontKeeps
<1>3. \A j \in 2 .. n : from(j) \in 1 .. n
  BY <1>1
<1>4. \A i, j \in 2 .. n : i < j => from(i) < from(j)
  BY <1>1
<1> HIDE DEF from, m
<1>5. TailKeepsOrder(m, list)
  BY <1>2, <1>3, <1>4 DEF TailKeepsOrder
<1>6. QED
  BY <1>5 DEF m

LEMMA PushFrontOrder ==
  ASSUME NEW list \in Seq(Entry), NoKeyTwice(list),
         NEW e \in Entry, e.key \notin KeysOf(list)
  PROVE  TailKeepsOrder(PushFront(list, e), list)
<1> DEFINE n == Len(list)
           m == PushFront(list, e)
<1>1. n \in Nat
  BY SeqIsFunction
<1>2. Len(m) = n + 1 /\ \A j \in 2 .. n + 1 : m[j] = list[j - 1]
  BY PushFrontAdds
<1>3. \A j \in 2 .. n + 1 : j - 1 \in 1 .. n
  BY <1>1
<1>4. \A i, j \in 2 .. n + 1 : i < j => i - 1 < j - 1
  BY <1>1
<1> HIDE DEF m
<1>5. TailKeepsOrder(m, list)
  BY <1>2, <1>3, <1>4 DEF TailKeepsOrder
<1>6. QED
  BY <1>5 DEF m

\* With the newest key at the front and the others as they were, a sorted
\* list is sorted again.
LEMMA NewestFirst ==
  ASSUME NEW list \in Seq(Entry), NEW m \in Seq(Entry), NoKeyTwice(m),
         TailKeepsOrder(m, list), Len(m) > 0,
         NEW use \in [Keys -> Nat], NEW t \in Nat, \A k \in Keys : use[k] < t,
         SortedByUse(list, use)
  PROVE  SortedByUse(m, [use EXCEPT ![m[1].key] = t])
<1> DEFINE newest == m[1].key
           use2 == [use EXCEPT ![newest] = t]
<1> SUFFICES ASSUME NEW i \in 1 .. Len(m), NEW j \in 1 .. Len(m), i < j
             PROVE  use2[m[i].key] > use2[m[j].key]
  BY DEF SortedByUse
<1>1. /\ Len(m) \in Nat
      /\ DOMAIN m = 1 .. Len(m)
      /\ \A k \in 1 .. Len(m) : m[k] \in Entry
  BY SeqIsFunction
<1>2. 1 \in 1 .. Len(m) /\ j \in 2 .. Len(m) /\ j # 1
  BY <1>1
<1>3. m[i].key \in Keys /\ m[j].key \in Keys /\ newest \in Keys
  BY <1>1, <1>2 DEF Entry
<1>4. m[j].key # newest
  BY <1>1, <1>2 DEF NoKeyTwice
<1>5. use2[newest] = t /\ \A k \in Keys : k # newest => use2[k] = use[k]
  BY <1>3
<1>6. CASE i = 1
  BY <1>3, <1>4, <1>5, <1>6
<1>7. CASE i # 1
  <2>1. i \in 2 .. Len(m)
    BY <1>1, <1>7
  <2>2. m[i].key # newest
    BY <1>1, <1>2, <1>7 DEF NoKeyTwice
  <2>3. PICK a, b \in 1 .. Len(list) : /\ a < b
                                       /\ m[i].key = list[a].key
                                       /\ m[j].key = list[b].key
    BY <1>2, <2>1 DEF TailKeepsOrder
  <2>4. use[m[i].key] > use[m[j].key]
    BY <2>3 DEF SortedByUse
  <2>5. QED
    BY <1>3, <1>4, <1>5, <2>2, <2>4
<1>8. QED
  BY <1>6, <1>7

\* Erasing an entry of a sorted list leaves it sorted.
LEMMA EraseKeepsSorted ==
  ASSUME NEW list \in Seq(Entry), NoKeyTwice(list), NEW p \in 1 .. Len(list),
         NEW use, SortedByUse(list, use)
  PROVE  SortedByUse(EraseNode(list, p), use)
<1> DEFINE n == Len(list)
           m == EraseNode(list, p)
           from(j) == IF j < p THEN j ELSE j + 1
<1>1. n \in Nat
  BY SeqIsFunction
<1>2. Len(m) = n - 1 /\ \A j \in 1 .. n - 1 : m[j] = list[from(j)]
  BY EraseNodeDrops
<1>3. \A j \in 1 .. n - 1 : from(j) \in 1 .. n
  BY <1>1
<1>4. \A i, j \in 1 .. n - 1 : i < j => from(i) < from(j)
  BY <1>1
<1> HIDE DEF from, m
<1>5. SortedByUse(m, use)
  BY <1>2, <1>3, <1>4, ZenonT(30) DEF SortedByUse
<1>6. QED
  BY <1>5 DEF m
-----------------------------------------------------------------------------
\* The invariant in the terms of the lemmas.
LEMMA LRUInvParts ==
  ASSUME LRUInv
  PROVE  /\ lru \in LRUObject
         /\ Sound(lru)
         /\ lru.list \in Seq(Entry)
         /\ NoKeyTwice(lru.list)
         /\ lru.index = KeysOf(lru.list)
         /\ SortedByUse(lru.list, lastUse)
         /\ lastUse \in [Keys -> Nat]
         /\ calls \in Nat
         /\ \A k \in Keys : lastUse[k] < calls + 1
<1>1. /\ lru \in LRUObject /\ Sound(lru)
      /\ lastUse \in [Keys -> Nat] /\ calls \in Nat
  BY DEF LRUInv, TypeOK, LRUObject, LRUSound
<1>2. /\ lru.list \in Seq(Entry)
      /\ NoKeyTwice(lru.list)
      /\ lru.index = KeysOf(lru.list)
  BY <1>1, SoundParts
<1>3. SortedByUse(lru.list, lastUse)
  BY <1>2, SeqIsFunction DEF LRUInv, RecencyOrder, SortedByUse
<1>4. ASSUME NEW k \in Keys PROVE lastUse[k] < calls + 1
  <2>1. lastUse[k] \in Nat
    BY <1>1
  <2>2. lastUse[k] <= calls
    BY DEF LRUInv, UsedBefore
  <2>3. calls \in Nat
    BY <1>1
  <2>4. QED
    BY <2>1, <2>2, <2>3
<1>5. QED
  BY <1>1, <1>2, <1>3, <1>4

\* What is left to show of a step for the invariant to hold after it.
LEMMA LRUInvFrom ==
  ASSUME NEW l \in LRUObject, Sound(l), NEW use \in [Keys -> Nat],
         NEW t \in Nat, SortedByUse(l.list, use), \A k \in Keys : use[k] <= t,
         lru' = l, lastUse' = use, calls' = t
  PROVE  LRUInv'
<1>1. DOMAIN l.list = 1 .. Len(l.list)
  BY SoundParts, SeqIsFunction
<1>2. TypeOK'
  BY DEF TypeOK, LRUObject
<1>3. LRUSound'
  BY DEF LRUSound
<1>4. RecencyOrder'
  BY <1>1 DEF RecencyOrder, SortedByUse
<1>5. UsedBefore'
  BY DEF UsedBefore
<1>6. QED
  BY <1>2, <1>3, <1>4, <1>5 DEF LRUInv

LEMMA LRUTouch ==
  ASSUME LRUInv, NEW key \in Keys, Touch(key)
  PROVE  LRUInv'
<1> DEFINE t == calls + 1
           use == [lastUse EXCEPT ![key] = t]
           m == touch(lru, key)
<1>1. lru' = m /\ lastUse' = use /\ calls' = t
  BY DEF Touch, Call, Uses
<1>2. t \in Nat /\ use \in [Keys -> Nat] /\ \A k \in Keys : use[k] <= t
  BY LRUInvParts
<1>3. m \in LRUObject /\ Sound(m)
  BY LRUInvParts, TouchKeeps
<1>4. SortedByUse(m.list, use)
  <2>1. CASE key \in lru.index
    <3> DEFINE p == Node(lru.list, key)
               list == MoveToFront(lru.list, p)
    <3>1. p \in 1 .. Len(lru.list) /\ lru.list[p].key = key
      BY <2>1, LRUInvParts, NodeOfKey
    <3>2. m.list = list
      BY <2>1, LRUInvParts, SoundParts DEF touch
    <3> HIDE DEF p
    <3>3. /\ list \in Seq(Entry)
          /\ Len(list) = Len(lru.list)
          /\ list[1] = lru.list[p]
          /\ NoKeyTwice(list)
      BY <3>1, LRUInvParts, MoveToFrontKeeps
    <3>4. TailKeepsOrder(list, lru.list)
      BY <3>1, LRUInvParts, MoveToFrontOrder
    <3>5. Len(lru.list) > 0
      BY <3>1, LRUInvParts, SeqIsFunction
    <3> HIDE DEF list, m
    <3>6. SortedByUse(list, [lastUse EXCEPT ![list[1].key] = t])
      BY <1>2, <3>3, <3>4, <3>5, LRUInvParts, NewestFirst
    <3>7. QED
      BY <3>1, <3>2, <3>3, <3>6
  <2>2. CASE key \notin lru.index
    <3>1. m = lru
      BY <2>2 DEF touch
    <3>2. \A i \in 1 .. Len(lru.list) : lru.list[i].key # key
      BY <2>2, LRUInvParts, SeqIsFunction DEF KeysOf
    <3>3. \A k : k # key => use[k] = lastUse[k]
      BY LRUInvParts
    <3> HIDE DEF use, m
    <3>4. QED
      BY <3>1, <3>2, <3>3, LRUInvParts DEF SortedByUse
  <2>3. QED
    BY <2>1, <2>2
<1> HIDE DEF t, use, m
<1>5. QED
  BY <1>1, <1>2, <1>3, <1>4, LRUInvFrom

\* Rewriting the head alone leaves the order of the tail as it was.
LEMMA SameTailKeepsOrder ==
  ASSUME NEW m, NEW l, NEW list,
         Len(m) = Len(l), \A j \in 2 .. Len(l) : m[j] = l[j],
         TailKeepsOrder(l, list)
  PROVE  TailKeepsOrder(m, list)
<1>1. SUFFICES ASSUME NEW i \in 2 .. Len(l), NEW j \in 2 .. Len(l), i < j
               PROVE  \E a, b \in 1 .. Len(list) :
                         /\ a < b
                         /\ m[i].key = list[a].key
                         /\ m[j].key = list[b].key
  BY DEF TailKeepsOrder
<1>2. PICK a \in 1 .. Len(list), b \in 1 .. Len(list) :
         a < b /\ l[i].key = list[a].key /\ l[j].key = list[b].key
  BY <1>1 DEF TailKeepsOrder
<1>3. m[i] = l[i] /\ m[j] = l[j]
  OBVIOUS
<1>4. QED
  BY <1>2, <1>3

LEMMA LRUAdd ==
  ASSUME LRUInv, NEW key \in Keys, NEW size \in Sizes, Add(key, size)
  PROVE  LRUInv'
<1> DEFINE t == calls + 1
           use == [lastUse EXCEPT ![key] = t]
           e == [key |-> key, size |-> size]
           m == add(lru, key, size)
<1>0. size \in Nat
  BY SizesAssumption
<1>1. lru' = m /\ lastUse' = use /\ calls' = t
  BY DEF Add, Call, Uses
<1>2. t \in Nat /\ use \in [Keys -> Nat] /\ \A k \in Keys : use[k] <= t
  BY LRUInvParts
<1>3. m \in LRUObject /\ Sound(m) /\ Len(m.list) > 0 /\ m.list[1].key = key
  <2>1. lru \in LRUObject /\ Sound(lru)
    BY LRUInvParts
  <2>2. m \in LRUObject /\ Sound(m) /\ Len(m.list) > 0 /\ m.list[1] = e
    BY <1>0, <2>1, AddAdds
  <2> HIDE DEF m
  <2>3. QED
    BY <2>2
<1>4. m.list \in Seq(Entry) /\ NoKeyTwice(m.list)
  BY <1>3, SoundParts
<1>5. TailKeepsOrder(m.list, lru.list)
  <2>1. CASE key \in lru.index
    <3> DEFINE p == Node(lru.list, key)
               list == MoveToFront(lru.list, p)
    <3>1. p \in 1 .. Len(lru.list)
      BY <2>1, LRUInvParts, NodeOfKey
    <3>2. m.list = [list EXCEPT ![1] = e]
      BY <2>1 DEF add
    <3> HIDE DEF p
    <3>3. list \in Seq(Entry)
      BY <3>1, LRUInvParts, MoveToFrontKeeps
    <3>4. TailKeepsOrder(list, lru.list)
      BY <3>1, LRUInvParts, MoveToFrontOrder
    <3> HIDE DEF list, m, e
    <3>5. Len(m.list) = Len(list) /\ \A j \in 2 .. Len(list) : m.list[j] = list[j]
      BY <1>4, <3>2, <3>3, SeqIsFunction
    <3>6. QED
      BY <3>4, <3>5, SameTailKeepsOrder
  <2>2. CASE key \notin lru.index
    <3>1. e \in Entry /\ e.key = key
      BY <1>0 DEF Entry
    <3>2. m.list = PushFront(lru.list, e)
      BY <2>2 DEF add
    <3> HIDE DEF m, e
    <3>3. QED
      BY <2>2, <3>1, <3>2, LRUInvParts, PushFrontOrder
  <2>3. QED
    BY <2>1, <2>2
<1> HIDE DEF m
<1>6. SortedByUse(m.list, [lastUse EXCEPT ![m.list[1].key] = t])
  BY <1>2, <1>3, <1>4, <1>5, LRUInvParts, NewestFirst
<1>7. SortedByUse(m.list, use)
  BY <1>3, <1>6
<1> HIDE DEF t, use
<1>8. QED
  BY <1>1, <1>2, <1>3, <1>7, LRUInvFrom

LEMMA LRURemove ==
  ASSUME LRUInv, NEW key \in Keys, Remove(key)
  PROVE  LRUInv'
<1> DEFINE m == remove(lru, key)
<1>1. lru' = m /\ lastUse' = lastUse /\ calls' = calls + 1
  BY DEF Remove, Call
<1>2. calls + 1 \in Nat /\ \A k \in Keys : lastUse[k] <= calls + 1
  BY LRUInvParts
<1>3. m \in LRUObject /\ Sound(m)
  BY LRUInvParts, RemoveForgets
<1>4. SortedByUse(m.list, lastUse)
  <2>1. CASE key \in lru.index
    <3>1. Node(lru.list, key) \in 1 .. Len(lru.list)
      BY <2>1, LRUInvParts, NodeOfKey
    <3>2. m.list = EraseNode(lru.list, Node(lru.list, key))
      BY <2>1 DEF remove
    <3>3. QED
      BY <3>1, <3>2, LRUInvParts, EraseKeepsSorted
  <2>2. CASE key \notin lru.index
    BY <2>2, LRUInvParts DEF remove
  <2>3. QED
    BY <2>1, <2>2
<1> HIDE DEF m
<1>5. QED
  BY <1>1, <1>2, <1>3, <1>4, LRUInvParts, LRUInvFrom

LEMMA LRUEvict ==
  ASSUME LRUInv, Evict
  PROVE  LRUInv'
<1> DEFINE m == evict(lru)
<1>1. lru' = m /\ lastUse' = lastUse /\ calls' = calls + 1
  BY DEF Evict, Call
<1>2. calls + 1 \in Nat /\ \A k \in Keys : lastUse[k] <= calls + 1
  BY LRUInvParts
<1>3. m \in LRUObject /\ Sound(m) /\ SortedByUse(m.list, lastUse)
  <2>1. CASE lru.index # {}
    <3>1. /\ m \in LRUObject /\ Sound(m)
          /\ Len(lru.list) > 0
          /\ m.list = EraseNode(lru.list, Len(lru.list))
      BY <2>1, LRUInvParts, EvictForgets
    <3>2. Len(lru.list) \in 1 .. Len(lru.list)
      BY <3>1, LRUInvParts, SeqIsFunction
    <3>3. QED
      BY <3>1, <3>2, LRUInvParts, EraseKeepsSorted
  <2>2. CASE lru.index = {}
    BY <2>2, LRUInvParts, EmptyObject
  <2>3. QED
    BY <2>1, <2>2
<1> HIDE DEF m
<1>4. QED
  BY <1>1, <1>2, <1>3, LRUInvParts, LRUInvFrom

LEMMA LRUInit == Init => LRUInv
<1> SUFFICES ASSUME Init PROVE LRUInv
  OBVIOUS
<1>1. lru = EmptyLRU /\ lastUse = [k \in Keys |-> 0] /\ calls = 0
  BY DEF Init
<1>2. lru \in LRUObject /\ Sound(lru) /\ lru.list = <<>>
  BY <1>1, EmptyLRUSound DEF EmptyLRU
<1>3. TypeOK /\ LRUSound /\ UsedBefore
  BY <1>1, <1>2 DEF TypeOK, LRUObject, LRUSound, UsedBefore
<1>4. RecencyOrder
  BY <1>2 DEF RecencyOrder
<1>5. QED
  BY <1>3, <1>4 DEF LRUInv

LEMMA LRUNext == LRUInv /\ [Next]_vars => LRUInv'
<1> SUFFICES ASSUME LRUInv, [Next]_vars PROVE LRUInv'
  OBVIOUS
<1>1. CASE \E key \in Keys : Touch(key)
  BY <1>1, LRUTouch
<1>2. CASE \E key \in Keys, size \in Sizes : Add(key, size)
  BY <1>2, LRUAdd
<1>3. CASE \E key \in Keys : Remove(key)
  BY <1>3, LRURemove
<1>4. CASE Evict
  BY <1>4, LRUEvict
<1>5. CASE UNCHANGED vars
  BY <1>5 DEF vars, LRUInv, TypeOK, LRUSound, RecencyOrder, UsedBefore
<1>6. QED
  BY <1>1, <1>2, <1>3, <1>4, <1>5 DEF Next

LEMMA AlwaysLRUInv == Spec => []LRUInv
BY LRUInit, LRUNext, PTL DEF Spec

\* The fields of an LRU object always have their types: in particular
\* memory_used_, a size_t, never goes below zero.
THEOREM LRUTypeCorrect == Spec => []TypeOK
<1>1. LRUInv => TypeOK
  BY DEF LRUInv
<1>2. QED
  BY <1>1, AlwaysLRUInv, PTL

\* Under any sequence of calls the list, the index and the byte count of LRU
\* describe the same entries.
THEOREM LRUAlwaysSound == Spec => []LRUSound
<1>1. LRUInv => LRUSound
  BY DEF LRUInv
<1>2. QED
  BY <1>1, AlwaysLRUInv, PTL

\* The list of LRU is always sorted by last use.
THEOREM LRUAlwaysSorted == Spec => []RecencyOrder
<1>1. LRUInv => RecencyOrder
  BY DEF LRUInv
<1>2. QED
  BY <1>1, AlwaysLRUInv, PTL
-----------------------------------------------------------------------------
\* LRU::evict always takes the key unused for longest.
THEOREM EvictionTakesLeastRecent == Spec => EvictsLeastRecent
<1> DEFINE A == \A gone \in lru.index \ lru'.index, kept \in lru'.index :
                   Evict => lastUse[gone] < lastUse[kept]
<1>1. LRUInv /\ [Next]_vars => [A]_vars
  <2> SUFFICES ASSUME LRUInv,
                      NEW gone \in lru.index \ lru'.index, NEW kept \in lru'.index,
                      Evict
               PROVE  lastUse[gone] < lastUse[kept]
    OBVIOUS
  <2> DEFINE n == Len(lru.list)
  <2>1. lru' = evict(lru)
    BY DEF Evict
  <2>2. /\ n > 0
        /\ victim(lru) = lru.list[n].key
        /\ lru'.index = lru.index \ {victim(lru)}
    BY <2>1, LRUInvParts, EvictForgets
  <2>3. gone = lru.list[n].key /\ kept \in lru.index /\ kept # gone
    BY <2>2
  <2>4. n \in Nat /\ DOMAIN lru.list = 1 .. n
    BY LRUInvParts, SeqIsFunction
  <2>5. PICK i \in 1 .. n : lru.list[i].key = kept
    BY <2>3, <2>4, LRUInvParts DEF KeysOf
  <2>6. i # n
    BY <2>3, <2>5
  <2>7. i < n /\ n \in 1 .. n
    BY <2>2, <2>4, <2>6
  <2>8. lastUse[kept] > lastUse[gone]
    BY <2>3, <2>5, <2>7, LRUInvParts DEF SortedByUse
  <2>9. kept \in Keys /\ gone \in Keys
    BY <2>3, LRUInvParts, SoundParts
  <2>10. lastUse[kept] \in Nat /\ lastUse[gone] \in Nat
    BY <2>9, LRUInvParts
  <2>11. QED
    BY <2>8, <2>10
<1>2. QED
  BY <1>1, AlwaysLRUInv, PTL DEF Spec, EvictsLeastRecent

-----------------------------------------------------------------------------
\* The sizes an LRU object remembers, as the contract sees them.
Remembered == [k \in lru.index |-> SizeOf(lru, k)]

LEMMA AddRefines ==
  ASSUME LRUInv, NEW key \in Keys, NEW size \in Sizes, Add(key, size)
  PROVE  Policy!Add(key, size)
<1>0. size \in Nat
  BY SizesAssumption
<1>1. lru' = add(lru, key, size)
  BY DEF Add
<1>2. lru \in LRUObject /\ Sound(lru)
  BY LRUInvParts
<1>3. /\ lru'.index = lru.index \cup {key}
      /\ key \in lru.index =>
           lru'.memory_used = lru.memory_used - (KeySize[key] + SizeOf(lru, key))
                                + (KeySize[key] + size)
      /\ key \notin lru.index =>
           lru'.memory_used = lru.memory_used + (KeySize[key] + size)
      /\ SizeOf(lru', key) = size
      /\ \A k \in lru.index : k # key => SizeOf(lru', k) = SizeOf(lru, k)
  <2> DEFINE m == add(lru, key, size)
  <2>1. m.index = lru.index \cup {key}
    BY <1>0, <1>2, AddAdds, ZenonT(30)
  <2>2. key \in lru.index =>
          m.memory_used = lru.memory_used - (KeySize[key] + SizeOf(lru, key))
                            + (KeySize[key] + size)
    <3> SUFFICES ASSUME key \in lru.index
                 PROVE  m.memory_used =
                          lru.memory_used - (KeySize[key] + SizeOf(lru, key))
                            + (KeySize[key] + size)
      OBVIOUS
    <3> DEFINE p == Node(lru.list, key)
               e == [key |-> key, size |-> size]
    <3>1. m.memory_used = lru.memory_used - Charge(lru.list[p]) + Charge(e)
      BY DEF add
    <3>2. Charge(lru.list[p]) = KeySize[key] + SizeOf(lru, key)
      BY LRUInvParts, NodeOfKey DEF SizeOf, Charge
    <3>3. Charge(e) = KeySize[key] + size
      BY DEF Charge
    <3> HIDE DEF m, p, e
    <3>4. QED
      BY <3>1, <3>2, <3>3
  <2>3. key \notin lru.index =>
          m.memory_used = lru.memory_used + (KeySize[key] + size)
    BY DEF add, Charge
  <2>4. SizeOf(m, key) = size
    BY <1>0, <1>2, AddAdds
  <2>5. \A k \in lru.index : k # key => SizeOf(m, k) = SizeOf(lru, k)
    BY <1>0, <1>2, AddAdds, ZenonT(30)
  <2>6. lru' = m
    BY <1>1
  <2> HIDE DEF m
  <2>7. QED
    BY <2>1, <2>2, <2>3, <2>4, <2>5, <2>6
<1>4. KeySize[key] \in Nat /\ lru.memory_used \in Nat
  BY <1>2, KeySizeAssumption, SoundParts
<1>5. Remembered' = [k \in lru.index \cup {key} |->
                       IF k = key THEN size ELSE Remembered[k]]
  BY <1>3 DEF Remembered
<1>6. lru'.memory_used =
        IF key \in lru.index
        THEN lru.memory_used - (KeySize[key] + Remembered[key])
               + KeySize[key] + size
        ELSE lru.memory_used + KeySize[key] + size
  <2>1. CASE key \in lru.index
    <3>1. Remembered[key] = SizeOf(lru, key)
      BY <2>1 DEF Remembered
    <3>2. SizeOf(lru, key) \in Nat
      <4>1. Node(lru.list, key) \in 1 .. Len(lru.list)
        BY <2>1, LRUInvParts, NodeOfKey
      <4>2. lru.list[Node(lru.list, key)] \in Entry
        BY <4>1, LRUInvParts, SeqIsFunction
      <4>3. QED
        BY <4>2 DEF SizeOf, Entry
    <3>3. lru'.memory_used = lru.memory_used - (KeySize[key] + SizeOf(lru, key))
                               + (KeySize[key] + size)
      BY <1>3, <2>1
    <3>4. lru'.memory_used = lru.memory_used - (KeySize[key] + SizeOf(lru, key))
                               + KeySize[key] + size
      BY <1>0, <1>4, <3>2, <3>3
    <3>5. QED
      BY <2>1, <3>1, <3>4
  <2>2. CASE key \notin lru.index
    <3>1. lru'.memory_used = lru.memory_used + (KeySize[key] + size)
      BY <1>3, <2>2
    <3>2. lru'.memory_used = lru.memory_used + KeySize[key] + size
      BY <1>0, <1>4, <3>1
    <3>3. QED
      BY <2>2, <3>2
  <2>3. QED
    BY <2>1, <2>2
<1>7. DOMAIN Remembered = lru.index
  BY DEF Remembered
<1>8. QED
  BY <1>5, <1>6, <1>7 DEF Policy!Add, Remembered

LEMMA ForgetRefines ==
  ASSUME NEW key, lru'.index = lru.index \ {key},
         lru'.memory_used = lru.memory_used - (KeySize[key] + SizeOf(lru, key)),
         \A k \in lru'.index : SizeOf(lru', k) = SizeOf(lru, k),
         key \in lru.index
  PROVE  Policy!Forget(key)
<1>1. Remembered' = [k \in lru.index \ {key} |-> Remembered[k]]
  BY DEF Remembered
<1>2. Remembered[key] = SizeOf(lru, key) /\ DOMAIN Remembered = lru.index
  BY DEF Remembered
<1>3. QED
  BY <1>1, <1>2 DEF Policy!Forget, Remembered

\* Every behaviour of an LRU object is one the EvictionPolicy interface
\* allows: LRU implements policy.h.
THEOREM LRUImplementsPolicy == Spec => ImplementsPolicy
<1>1. Init => Policy!PolicyInit
  <2> SUFFICES ASSUME Init PROVE Policy!PolicyInit
    OBVIOUS
  <2>1. lru.index = {} /\ lru.memory_used = 0
    BY DEF Init, EmptyLRU
  <2>2. Remembered = [k \in {} |-> 0]
    BY <2>1 DEF Remembered
  <2>3. QED
    BY <2>1, <2>2 DEF Policy!PolicyInit, Remembered
<1>2. LRUInv /\ [Next]_vars => [Policy!PolicyNext]_(Policy!policyVars)
  <2> SUFFICES ASSUME LRUInv, [Next]_vars
               PROVE  Policy!PolicyNext \/ UNCHANGED Policy!policyVars
    OBVIOUS
  <2>0. lru \in LRUObject /\ Sound(lru)
    BY LRUInvParts
  <2>1. ASSUME lru'.index = lru.index, lru'.memory_used = lru.memory_used,
               \A k \in lru.index : SizeOf(lru', k) = SizeOf(lru, k)
        PROVE  UNCHANGED Policy!policyVars
    <3>1. Remembered' = Remembered
      BY <2>1 DEF Remembered
    <3>2. QED
      BY <2>1, <3>1 DEF Policy!policyVars, Remembered
  <2>2. CASE \E key \in Keys : Touch(key)
    <3>1. PICK key \in Keys : lru' = touch(lru, key)
      BY <2>2 DEF Touch
    <3>2. QED
      BY <2>0, <2>1, <3>1, TouchKeeps
  <2>3. CASE \E key \in Keys, size \in Sizes : Add(key, size)
    BY <2>3, AddRefines DEF Policy!PolicyNext
  <2>4. CASE \E key \in Keys : Remove(key)
    <3>1. PICK key \in Keys : lru' = remove(lru, key)
      BY <2>4 DEF Remove
    <3>2. CASE key \in lru.index
      <4>1. Policy!Forget(key)
        BY <2>0, <3>1, <3>2, RemoveForgets, ForgetRefines
      <4>2. Policy!Remove(key)
        BY <3>2, <4>1 DEF Policy!Remove
      <4>3. QED
        BY <4>2 DEF Policy!PolicyNext
    <3>3. CASE key \notin lru.index
      BY <2>0, <2>1, <3>1, <3>3, RemoveForgets
    <3>4. QED
      BY <3>2, <3>3
  <2>5. CASE Evict
    <3>1. lru' = evict(lru)
      BY <2>5 DEF Evict
    <3>2. CASE lru.index # {}
      <4>1. victim(lru) \in lru.index /\ Policy!Forget(victim(lru))
        BY <2>0, <3>1, <3>2, EvictForgets, ForgetRefines
      <4>2. Policy!Evict
        BY <4>1 DEF Policy!Evict
      <4>3. QED
        BY <4>2 DEF Policy!PolicyNext
    <3>3. CASE lru.index = {}
      BY <2>0, <2>1, <3>1, <3>3, EmptyObject
    <3>4. QED
      BY <3>2, <3>3
  <2>6. CASE UNCHANGED vars
    BY <2>1, <2>6 DEF vars
  <2>7. QED
    BY <2>2, <2>3, <2>4, <2>5, <2>6 DEF Next
<1>3. QED
  BY <1>1, <1>2, AlwaysLRUInv, PTL DEF Spec, ImplementsPolicy, Policy!PolicySpec
-----------------------------------------------------------------------------
(***************************************************************************)
(* What both charge for their entries: the total stays what it should be   *)
(* when the entry of one key is forgotten,                                 *)
(***************************************************************************)
LEMMA Credited ==
  ASSUME NEW f, IsFiniteSet(DOMAIN f), \A k \in DOMAIN f : f[k] \in Nat,
         NEW x \in DOMAIN f,
         NEW h, DOMAIN h = DOMAIN f \ {x}, \A k \in DOMAIN h : h[k] = f[k]
  PROVE  /\ Total(h) = Total(f) - f[x] /\ Total(h) \in Nat
         /\ IsFiniteSet(DOMAIN h)
<1>1. \A k \in DOMAIN f : f[k] \in Int
  OBVIOUS
<1>2. Total(h) \in Int /\ Total(f) = Total(h) + IF x \in DOMAIN f THEN f[x] ELSE 0
  BY <1>1, TotalErase
<1>3. f[x] \in Int /\ Total(f) = Total(h) + f[x]
  BY <1>1, <1>2
<1>4. IsFiniteSet(DOMAIN h) /\ \A k \in DOMAIN h : h[k] \in Nat
  BY FS_Subset
<1>5. Total(h) \in Nat
  BY <1>4, TotalNatural
<1>6. QED
  BY <1>2, <1>3, <1>4, <1>5

\* and when one is added or gets a new size.
LEMMA Charged ==
  ASSUME NEW f, IsFiniteSet(DOMAIN f), \A k \in DOMAIN f : f[k] \in Nat,
         NEW x, NEW h, DOMAIN h = DOMAIN f \cup {x}, h[x] \in Nat,
         \A k \in DOMAIN f \ {x} : h[k] = f[k]
  PROVE  /\ Total(h) = Total(f) - (IF x \in DOMAIN f THEN f[x] ELSE 0) + h[x]
         /\ Total(h) \in Nat /\ IsFiniteSet(DOMAIN h)
<1>1. h[x] \in Int /\ \A k \in DOMAIN f : f[k] \in Int
  OBVIOUS
<1>2. IsFiniteSet(DOMAIN h) /\ \A k \in DOMAIN h : h[k] \in Nat
  <2>1. IsFiniteSet(DOMAIN h)
    BY FS_AddElement
  <2>2. \A k \in DOMAIN h : k = x \/ k \in DOMAIN f \ {x}
    OBVIOUS
  <2>3. QED
    BY <2>1, <2>2
<1>3. Total(h) \in Nat
  BY <1>2, TotalNatural
<1>4. QED
  BY <1>1, <1>2, <1>3, TotalPut
-----------------------------------------------------------------------------
(***************************************************************************)
(* LFU.  Its buckets are lists of keys: what erasing a node, pushing to    *)
(* the front and popping the back do to one.                               *)
(***************************************************************************)
Elements(s) == {s[i] : i \in DOMAIN s}
NoneTwice(s) == \A i, j \in DOMAIN s : s[i] = s[j] => i = j

\* The keys nearer the front have had their age later.
SortedBy(s, age) == \A i, j \in DOMAIN s : i < j => age[s[i]] > age[s[j]]

\* An erased node leaves the others, in their order.
LEMMA EraseDrops ==
  ASSUME NEW s \in Seq(Keys), NoneTwice(s), NEW p \in 1 .. Len(s),
         NEW age, SortedBy(s, age),
         NEW m, m = [i \in 1 .. Len(s) - 1 |-> IF i < p THEN s[i] ELSE s[i + 1]]
  PROVE  /\ m \in Seq(Keys) /\ Len(m) = Len(s) - 1
         /\ NoneTwice(m) /\ SortedBy(m, age)
         /\ Elements(m) = Elements(s) \ {s[p]}
<1> DEFINE n == Len(s)
           from == [i \in 1 .. n - 1 |-> IF i < p THEN i ELSE i + 1]
<1>1. n \in Nat /\ n - 1 \in Nat /\ p \in 1 .. n /\ DOMAIN s = 1 .. n
      /\ \A i \in 1 .. n : s[i] \in Keys
  OBVIOUS
<1> HIDE DEF n
<1>2. \A i \in 1 .. n - 1 : from[i] \in 1 .. n
  BY <1>1
<1>3. m = [i \in 1 .. n - 1 |-> IF i < p THEN s[i] ELSE s[i + 1]]
  BY DEF n
<1>4. m \in [1 .. n - 1 -> Keys] /\ \A i \in 1 .. n - 1 : m[i] = s[from[i]]
  <2>1. \A i \in 1 .. n - 1 : m[i] = s[from[i]]
    BY <1>3
  <2>2. \A i \in 1 .. n - 1 : m[i] \in Keys
    BY <1>1, <1>2, <2>1
  <2>3. QED
    BY <1>3, <2>1, <2>2
<1>5. m \in Seq(Keys) /\ Len(m) = n - 1
  BY <1>1, <1>4, FunctionIsSeq
<1>6. DOMAIN m = 1 .. n - 1
  BY <1>4
<1>7. \A i, j \in 1 .. n - 1 : /\ i < j => from[i] < from[j]
                               /\ from[i] = from[j] => i = j
                               /\ from[i] # p
  BY <1>1
<1>8. \A j \in 1 .. n : j # p => \E i \in 1 .. n - 1 : from[i] = j
  <2> SUFFICES ASSUME NEW j \in 1 .. n, j # p
               PROVE  \E i \in 1 .. n - 1 : from[i] = j
    OBVIOUS
  <2>1. CASE j < p
    <3>1. j \in 1 .. n - 1 /\ from[j] = j
      BY <1>1, <2>1
    <3>2. QED
      BY <3>1
  <2>2. CASE j > p
    <3>1. j - 1 \in 1 .. n - 1 /\ from[j - 1] = j
      BY <1>1, <2>2
    <3>2. QED
      BY <3>1
  <2>3. QED
    BY <1>1, <2>1, <2>2
<1> HIDE DEF from
<1>9. NoneTwice(m)
  <2> SUFFICES ASSUME NEW i \in 1 .. n - 1, NEW j \in 1 .. n - 1, m[i] = m[j]
               PROVE  i = j
    BY <1>6 DEF NoneTwice
  <2>1. from[i] \in DOMAIN s /\ from[j] \in DOMAIN s /\ s[from[i]] = s[from[j]]
    BY <1>1, <1>2, <1>4
  <2>2. from[i] = from[j]
    BY <2>1 DEF NoneTwice
  <2>3. QED
    BY <1>7, <2>2
<1>10. SortedBy(m, age)
  <2> SUFFICES ASSUME NEW i \in 1 .. n - 1, NEW j \in 1 .. n - 1, i < j
               PROVE  age[m[i]] > age[m[j]]
    BY <1>6 DEF SortedBy
  <2>1. from[i] \in DOMAIN s /\ from[j] \in DOMAIN s /\ from[i] < from[j]
    BY <1>1, <1>2, <1>7
  <2>2. age[s[from[i]]] > age[s[from[j]]]
    BY <2>1 DEF SortedBy
  <2>3. QED
    BY <1>4, <2>2
<1>11. Elements(m) = Elements(s) \ {s[p]}
  <2>1. ASSUME NEW k \in Elements(m) PROVE k \in Elements(s) \ {s[p]}
    BY <1>1, <1>2, <1>4, <1>6, <1>7 DEF Elements, NoneTwice
  <2>2. ASSUME NEW k \in Elements(s), k # s[p] PROVE k \in Elements(m)
    <3>1. PICK j \in 1 .. n : k = s[j]
      BY <1>1 DEF Elements
    <3>2. PICK i \in 1 .. n - 1 : from[i] = j
      BY <1>8, <2>2, <3>1
    <3>3. m[i] = k /\ i \in DOMAIN m
      BY <1>4, <1>6, <3>1, <3>2
    <3>4. QED
      BY <3>3 DEF Elements
  <2>3. QED
    BY <2>1, <2>2
<1>12. QED
  BY <1>5, <1>9, <1>10, <1>11 DEF n

\* A key that is not on the list, pushed to its front.
LEMMA PushAdds ==
  ASSUME NEW s \in Seq(Keys), NoneTwice(s), NEW k \in Keys, k \notin Elements(s),
         NEW age, SortedBy(s, age), \A x \in Elements(s) : age[k] > age[x],
         NEW m, m = <<k>> \o s
  PROVE  /\ m \in Seq(Keys)
         /\ NoneTwice(m) /\ SortedBy(m, age)
         /\ Elements(m) = Elements(s) \cup {k}
<1> DEFINE n == Len(s)
<1>1. n \in Nat /\ DOMAIN s = 1 .. n /\ \A i \in 1 .. n : s[i] \in Keys
  OBVIOUS
<1>2. m \in Seq(Keys) /\ Len(m) = n + 1
  OBVIOUS
<1>3. m[1] = k /\ \A i \in 2 .. n + 1 : m[i] = s[i - 1]
  OBVIOUS
<1> HIDE DEF n
<1>4. DOMAIN m = 1 .. n + 1
  BY <1>1, <1>2
<1>5. \A i \in 1 .. n + 1 : i = 1 \/ (i \in 2 .. n + 1 /\ i - 1 \in 1 .. n)
  BY <1>1
<1>6. \A i \in 1 .. n + 1 : i # 1 => s[i - 1] \in Elements(s) /\ m[i] = s[i - 1]
  BY <1>1, <1>3, <1>5 DEF Elements
<1>7. NoneTwice(m)
  <2> SUFFICES ASSUME NEW i \in 1 .. n + 1, NEW j \in 1 .. n + 1, m[i] = m[j]
               PROVE  i = j
    BY <1>4 DEF NoneTwice
  <2>1. CASE i = 1 \/ j = 1
    BY <1>3, <1>6, <2>1, ZenonT(30)
  <2>2. CASE i # 1 /\ j # 1
    <3>1. i - 1 \in 1 .. n /\ j - 1 \in 1 .. n /\ s[i - 1] = s[j - 1]
      BY <1>5, <1>6, <2>2
    <3>2. i - 1 = j - 1
      BY <1>1, <3>1 DEF NoneTwice
    <3>3. QED
      BY <3>2
  <2>3. QED
    BY <2>1, <2>2
<1>8. SortedBy(m, age)
  <2> SUFFICES ASSUME NEW i \in 1 .. n + 1, NEW j \in 1 .. n + 1, i < j
               PROVE  age[m[i]] > age[m[j]]
    BY <1>4 DEF SortedBy
  <2>1. j # 1
    OBVIOUS
  <2>2. CASE i = 1
    BY <1>3, <1>6, <2>1, <2>2
  <2>3. CASE i # 1
    <3>1. i - 1 \in 1 .. n /\ j - 1 \in 1 .. n /\ i - 1 < j - 1
      BY <1>5, <2>1, <2>3
    <3>2. age[s[i - 1]] > age[s[j - 1]]
      BY <1>1, <3>1 DEF SortedBy
    <3>3. QED
      BY <1>6, <2>1, <2>3, <3>2
  <2>4. QED
    BY <2>2, <2>3
<1>9. Elements(m) = Elements(s) \cup {k}
  <2>1. ASSUME NEW x \in Elements(m) PROVE x \in Elements(s) \cup {k}
    BY <1>3, <1>4, <1>6 DEF Elements
  <2>2. k \in Elements(m)
    BY <1>1, <1>3, <1>4 DEF Elements
  <2>3. ASSUME NEW x \in Elements(s) PROVE x \in Elements(m)
    <3>1. PICK i \in 1 .. n : x = s[i]
      BY <1>1 DEF Elements
    <3>2. i + 1 \in 1 .. n + 1 /\ i + 1 # 1 /\ (i + 1) - 1 = i
      BY <1>1
    <3>3. m[i + 1] = x
      BY <1>6, <3>1, <3>2
    <3>4. QED
      BY <1>4, <3>2, <3>3 DEF Elements
  <2>4. QED
    BY <2>1, <2>2, <2>3
<1>10. QED
  BY <1>2, <1>7, <1>8, <1>9

\* Ages that have not changed sort as before.
LEMMA SortedStill ==
  ASSUME NEW s, NEW age, SortedBy(s, age), NEW newer,
         \A k \in Elements(s) : newer[k] = age[k]
  PROVE  SortedBy(s, newer)
BY DEF SortedBy, Elements
-----------------------------------------------------------------------------
(***************************************************************************)
(* The inductive invariant of LFU.                                         *)
(***************************************************************************)
\* What the bucket of frequency f holds: the keys of that frequency, the one
\* that has had it for longest at the back.
BucketOf(bucket, known, age, f) ==
  /\ bucket \in Seq(Keys) /\ NoneTwice(bucket) /\ SortedBy(bucket, age)
  /\ Elements(bucket) = {k \in DOMAIN known : known[k].freq = f}

BucketsFit == \A f \in F!Freqs : BucketOf(buckets[f], entries, since, f)

\* A frequency is the number of uses, of which every call makes at most one.
UsesCounted ==
  /\ \A k \in DOMAIN entries : entries[k].freq = uses[k]
  /\ \A k \in Keys : uses[k] <= calls /\ since[k] <= calls

\* memory_used_ is what the remembered entries were charged.
LFUCharges == [k \in DOMAIN entries |-> KeySize[k] + entries[k].size]
LFUBytes == IsFiniteSet(DOMAIN entries) /\ lfu_memory_used = Total(LFUCharges)

LFUInv == F!TypeOK /\ BucketsFit /\ UsesCounted /\ F!EvictEnds /\ LFUBytes

\* The parts of the type invariant, as facts about numbers and functions.
LEMMA LFUTypes ==
  ASSUME F!LFUAssumption, F!TypeOK
  PROVE  /\ MaxCalls \in Nat /\ calls \in Nat /\ calls <= MaxCalls
         /\ F!Freqs = 1 .. MaxCalls + 1
         /\ DOMAIN entries \subseteq Keys /\ DOMAIN buckets = F!Freqs
         /\ \A k \in DOMAIN entries :
               entries[k].size \in Nat /\ entries[k].freq \in F!Freqs
         /\ \A k \in Keys : KeySize[k] \in Nat /\ uses[k] \in Nat /\ since[k] \in Nat
         /\ DOMAIN uses = Keys /\ DOMAIN since = Keys
         /\ min_freq \in Nat /\ lfu_memory_used \in Nat
BY DEF F!LFUAssumption, F!TypeOK, F!Freqs

\* The invariant is enough.
LEMMA LFUInvSound ==
  ASSUME LFUInv
  PROVE  F!LFUSound
<1>1. F!TypeOK /\ F!EvictEnds
  BY DEF LFUInv
<1>2. F!BucketsMatch
  <2>1. \A k \in DOMAIN entries : entries[k].freq = uses[k]
    BY DEF LFUInv, UsesCounted
  <2>2. \A f \in F!Freqs :
           /\ NoneTwice(buckets[f])
           /\ Elements(buckets[f]) = {k \in DOMAIN entries : entries[k].freq = f}
    BY DEF LFUInv, BucketsFit, BucketOf
  <2>3. \A f \in F!Freqs :
           /\ F!IsInjective(buckets[f])
           /\ F!Range(buckets[f]) = {k \in DOMAIN entries : entries[k].freq = f}
    BY <2>2 DEF NoneTwice, Elements, F!IsInjective, F!Range
  <2>4. QED
    BY <2>1, <2>3 DEF F!BucketsMatch
<1>3. QED
  BY <1>1, <1>2 DEF F!LFUSound

\* A key's bucket once its node is erased.
LEMMA WithoutIs ==
  ASSUME F!LFUAssumption, LFUInv, NEW key \in DOMAIN entries
  PROVE  LET f == entries[key].freq
             m == F!Without(key)
         IN  /\ f \in F!Freqs
             /\ key \in Elements(buckets[f])
             /\ m \in Seq(Keys) /\ NoneTwice(m) /\ SortedBy(m, since)
             /\ Elements(m) = Elements(buckets[f]) \ {key}
<1> DEFINE f == entries[key].freq
           bucket == buckets[f]
           it == CHOOSE i \in DOMAIN bucket : bucket[i] = key
<1>1. f \in F!Freqs
  BY LFUTypes DEF LFUInv
<1>2. BucketOf(bucket, entries, since, f)
  BY <1>1 DEF LFUInv, BucketsFit
<1>3. key \in Elements(bucket)
  BY <1>2 DEF BucketOf
<1> HIDE DEF f
<1>4. it \in DOMAIN bucket /\ bucket[it] = key
  BY <1>3 DEF Elements
<1>5. F!Without(key) = [i \in 1 .. Len(bucket) - 1 |->
                          IF i < it THEN bucket[i] ELSE bucket[i + 1]]
  BY DEF F!Without, f
<1> HIDE DEF it
<1>6. bucket \in Seq(Keys) /\ NoneTwice(bucket) /\ SortedBy(bucket, since)
  BY <1>2 DEF BucketOf
<1> HIDE DEF bucket
<1>7. it \in 1 .. Len(bucket)
  BY <1>4, <1>6
<1>8. LET m == F!Without(key)
      IN  /\ m \in Seq(Keys) /\ NoneTwice(m) /\ SortedBy(m, since)
          /\ Elements(m) = Elements(bucket) \ {key}
  BY <1>4, <1>5, <1>6, <1>7, EraseDrops
<1>9. QED
  BY <1>1, <1>3, <1>8 DEF bucket, f

\* The keys left when one has gone from its bucket have no frequency below
\* min_freq_ as it then is.
LEMMA RaisedIs ==
  ASSUME F!LFUAssumption, LFUInv, NEW key \in DOMAIN entries
  PROVE  /\ F!Raised(key) \in Nat
         /\ F!Raised(key) <= entries[key].freq + 1
         /\ \A k \in DOMAIN entries \ {key} : F!Raised(key) <= entries[k].freq
<1> DEFINE f == entries[key].freq
<1>1. /\ min_freq \in Nat /\ f \in Nat
      /\ \A k \in DOMAIN entries : /\ entries[k].freq \in Nat
                                   /\ min_freq <= entries[k].freq
  BY LFUTypes, SMTT(30) DEF LFUInv, F!EvictEnds
<1>2. CASE F!Without(key) = <<>> /\ f = min_freq
  <2>1. F!Raised(key) = min_freq + 1
    BY <1>2 DEF F!Raised
  <2>2. \A k \in DOMAIN entries \ {key} : entries[k].freq # f
    <3>1. Elements(F!Without(key)) = Elements(buckets[f]) \ {key} /\ f \in F!Freqs
      BY WithoutIs
    <3>2. Elements(buckets[f]) = {k \in DOMAIN entries : entries[k].freq = f}
      BY <3>1 DEF LFUInv, BucketsFit, BucketOf
    <3>3. Elements(F!Without(key)) = {}
      BY <1>2 DEF Elements
    <3>4. QED
      BY <3>1, <3>2, <3>3
  <2>3. QED
    BY <1>1, <1>2, <2>1, <2>2
<1>3. CASE ~(F!Without(key) = <<>> /\ f = min_freq)
  <2>1. F!Raised(key) = min_freq
    BY <1>3 DEF F!Raised
  <2>2. QED
    BY <1>1, <2>1
<1>4. QED
  BY <1>2, <1>3

\* What is charged are natural numbers.
LEMMA ChargesNat ==
  ASSUME F!LFUAssumption, LFUInv
  PROVE  /\ IsFiniteSet(DOMAIN LFUCharges) /\ DOMAIN LFUCharges = DOMAIN entries
         /\ \A k \in DOMAIN LFUCharges : LFUCharges[k] \in Nat
         /\ lfu_memory_used = Total(LFUCharges)
BY LFUTypes DEF LFUInv, LFUBytes, LFUCharges

\* An entry that is forgotten is credited with what it was charged.
LEMMA ForgetBytes ==
  ASSUME F!LFUAssumption, LFUInv, NEW key \in DOMAIN entries, F!Forget(key)
  PROVE  /\ LFUBytes' /\ lfu_memory_used' \in Nat
         /\ DOMAIN entries' = DOMAIN entries \ {key}
         /\ \A k \in DOMAIN entries' : entries'[k] = entries[k]
         /\ uses' = uses /\ since' = since
<1>1. /\ DOMAIN entries' = DOMAIN entries \ {key}
      /\ \A k \in DOMAIN entries' : entries'[k] = entries[k]
      /\ lfu_memory_used' = lfu_memory_used - (KeySize[key] + entries[key].size)
      /\ uses' = uses /\ since' = since
  BY DEF F!Forget, F!Restrict, F!Charge
<1> DEFINE c == LFUCharges
           d == LFUCharges'
<1>2. /\ IsFiniteSet(DOMAIN c) /\ DOMAIN c = DOMAIN entries
      /\ \A k \in DOMAIN c : c[k] \in Nat
      /\ lfu_memory_used = Total(c)
  BY ChargesNat
<1>3. /\ DOMAIN d = DOMAIN c \ {key} /\ \A k \in DOMAIN d : d[k] = c[k]
      /\ DOMAIN d = DOMAIN entries'
      /\ c[key] = KeySize[key] + entries[key].size /\ key \in DOMAIN c
  BY <1>1 DEF LFUCharges
<1> HIDE DEF c, d
<1>4. Total(d) = Total(c) - c[key] /\ Total(d) \in Nat /\ IsFiniteSet(DOMAIN d)
  BY <1>2, <1>3, Credited
<1>5. lfu_memory_used' = Total(d)
  BY <1>1, <1>2, <1>3, <1>4
<1>6. QED
  BY <1>1, <1>3, <1>4, <1>5 DEF d, LFUBytes

\* An entry that is added, or given a new size, is charged for it.
LEMMA PutBytes ==
  ASSUME F!LFUAssumption, LFUInv, NEW key \in Keys, NEW size \in Nat,
         DOMAIN entries' = DOMAIN entries \cup {key},
         entries'[key].size = size,
         \A k \in DOMAIN entries \ {key} : entries'[k].size = entries[k].size,
         lfu_memory_used' =
           lfu_memory_used - (IF key \in DOMAIN entries
                          THEN KeySize[key] + entries[key].size ELSE 0)
                       + (KeySize[key] + size)
  PROVE  LFUBytes' /\ lfu_memory_used' \in Nat
<1> DEFINE c == LFUCharges
           d == LFUCharges'
<1>1. /\ IsFiniteSet(DOMAIN c) /\ DOMAIN c = DOMAIN entries
      /\ \A k \in DOMAIN c : c[k] \in Nat
      /\ lfu_memory_used = Total(c)
  BY ChargesNat
<1>2. /\ DOMAIN d = DOMAIN c \cup {key} /\ \A k \in DOMAIN c \ {key} : d[k] = c[k]
      /\ DOMAIN d = DOMAIN entries'
      /\ d[key] = KeySize[key] + size
      /\ key \in DOMAIN entries => c[key] = KeySize[key] + entries[key].size
  BY DEF LFUCharges
<1>3. KeySize[key] \in Nat
  BY LFUTypes DEF LFUInv
<1> HIDE DEF c, d
<1>4. d[key] \in Nat
  BY <1>2, <1>3
<1>5. /\ Total(d) = Total(c) - (IF key \in DOMAIN c THEN c[key] ELSE 0) + d[key]
      /\ Total(d) \in Nat /\ IsFiniteSet(DOMAIN d)
  BY <1>1, <1>2, <1>4, Charged
<1>6. (IF key \in DOMAIN c THEN c[key] ELSE 0)
        = IF key \in DOMAIN entries THEN KeySize[key] + entries[key].size ELSE 0
  BY <1>1, <1>2
<1>7. lfu_memory_used' = Total(d)
  BY <1>1, <1>2, <1>5, <1>6
<1>8. QED
  BY <1>2, <1>5, <1>7 DEF d, LFUBytes
-----------------------------------------------------------------------------
\* At the start nothing is remembered.
LEMMA LFUInit ==
  ASSUME F!LFUAssumption, F!Init
  PROVE  LFUInv
<1> USE DEF F!Init
<1>1. F!TypeOK
  <2>1. <<>> \in Seq(Keys)
    OBVIOUS
  <2>2. buckets \in [F!Freqs -> Seq(Keys)]
    BY <2>1
  <2>3. MaxCalls \in Nat /\ calls \in 0 .. MaxCalls
    BY DEF F!LFUAssumption
  <2>4. QED
    BY <2>2, <2>3 DEF F!TypeOK
<1>2. BucketsFit
  <2>1. <<>> \in Seq(Keys) /\ DOMAIN <<>> = {} /\ DOMAIN entries = {}
    OBVIOUS
  <2>2. QED
    BY <2>1 DEF BucketsFit, BucketOf, NoneTwice, SortedBy, Elements
<1>3. UsesCounted /\ F!EvictEnds
  BY DEF UsesCounted, F!EvictEnds
<1>4. LFUBytes
  <2> DEFINE c == LFUCharges
  <2>1. DOMAIN c = {} /\ lfu_memory_used = 0 /\ DOMAIN entries = {}
    BY DEF LFUCharges
  <2>2. IsFiniteSet({})
    BY FS_EmptySet
  <2> HIDE DEF c
  <2>3. Total(c) = 0
    BY <2>1, <2>2, TotalNatural
  <2>4. QED
    BY <2>1, <2>2, <2>3 DEF LFUBytes, c
<1>5. QED
  BY <1>1, <1>2, <1>3, <1>4 DEF LFUInv

\* A key that is used gets an age above every other's, and the others keep
\* theirs.
LEMMA UsesAges ==
  ASSUME F!LFUAssumption, LFUInv, NEW key \in Keys, NEW n \in Nat,
         F!Call, F!Uses(key, n), n <= calls'
  PROVE  /\ calls' \in 0 .. MaxCalls /\ calls' = calls + 1
         /\ uses' \in [Keys -> Nat] /\ since' \in [Keys -> Nat]
         /\ uses'[key] = n /\ since'[key] = calls'
         /\ \A k \in Keys \ {key} : uses'[k] = uses[k] /\ since'[k] = since[k]
         /\ \A k \in Keys \ {key} : since'[key] > since'[k]
         /\ \A k \in Keys : uses'[k] <= calls' /\ since'[k] <= calls'
<1>1. /\ calls < MaxCalls /\ calls' = calls + 1
      /\ uses' = [uses EXCEPT ![key] = n] /\ since' = [since EXCEPT ![key] = calls']
  BY DEF F!Call, F!Uses
<1>2. /\ MaxCalls \in Nat /\ calls \in Nat
      /\ DOMAIN uses = Keys /\ DOMAIN since = Keys
      /\ uses \in [Keys -> Nat] /\ since \in [Keys -> Nat]
      /\ \A k \in Keys : /\ uses[k] \in Nat /\ since[k] \in Nat
                         /\ uses[k] <= calls /\ since[k] <= calls
  BY LFUTypes DEF LFUInv, UsesCounted, F!TypeOK
<1>3. calls' \in Nat /\ calls' \in 0 .. MaxCalls
  BY <1>1, <1>2
<1>4. uses' \in [Keys -> Nat] /\ since' \in [Keys -> Nat]
  BY <1>1, <1>2, <1>3
<1>5. /\ uses'[key] = n /\ since'[key] = calls'
      /\ \A k \in Keys \ {key} : uses'[k] = uses[k] /\ since'[k] = since[k]
  BY <1>1, <1>2
<1>6. \A k \in Keys \ {key} : /\ since'[key] > since'[k]
                              /\ uses'[k] <= calls' /\ since'[k] <= calls'
  BY <1>1, <1>2, <1>5
<1>7. uses'[key] <= calls' /\ since'[key] <= calls'
  BY <1>3, <1>5
<1>8. QED
  BY <1>1, <1>3, <1>4, <1>5, <1>6, <1>7

\* A hit: the key goes to the front of the next bucket.
LEMMA LFUTouch ==
  ASSUME F!LFUAssumption, LFUInv, NEW key \in Keys, F!touch(key)
  PROVE  LFUInv'
<1> DEFINE f == entries[key].freq
<1>1. /\ F!Call /\ key \in DOMAIN entries
      /\ buckets' = [buckets EXCEPT ![f] = F!Without(key), ![f + 1] = <<key>> \o @]
      /\ min_freq' = F!Raised(key)
      /\ entries' = [entries EXCEPT ![key].freq = f + 1]
      /\ F!Uses(key, uses[key] + 1)
      /\ lfu_memory_used' = lfu_memory_used
  BY DEF F!touch
<1>2. /\ MaxCalls \in Nat /\ calls \in Nat /\ calls < MaxCalls /\ calls' = calls + 1
      /\ F!Freqs = 1 .. MaxCalls + 1
      /\ DOMAIN entries \subseteq Keys /\ DOMAIN buckets = F!Freqs
      /\ \A k \in DOMAIN entries :
            entries[k].size \in Nat /\ entries[k].freq \in F!Freqs
      /\ f = uses[key] /\ uses[key] \in Nat /\ uses[key] <= calls
      /\ \A k \in DOMAIN entries : entries[k].freq = uses[k]
  BY <1>1, LFUTypes DEF LFUInv, UsesCounted, F!Call
<1>3. f \in F!Freqs /\ f + 1 \in F!Freqs /\ f # f + 1
  BY <1>1, <1>2
<1>4. /\ DOMAIN entries' = DOMAIN entries
      /\ entries'[key].freq = f + 1 /\ entries'[key].size = entries[key].size
      /\ \A k \in DOMAIN entries \ {key} : entries'[k] = entries[k]
  <2>1. DOMAIN entries' = DOMAIN entries
    BY <1>1
  <2>2. entries[key] \in [size : Nat, freq : F!Freqs]
    BY <1>1 DEF LFUInv, F!TypeOK
  <2>3. entries'[key].freq = f + 1 /\ entries'[key].size = entries[key].size
    BY <1>1, <2>2
  <2>4. \A k \in DOMAIN entries \ {key} : entries'[k] = entries[k]
    BY <1>1
  <2>5. QED
    BY <2>1, <2>3, <2>4
<1>5. /\ buckets'[f] = F!Without(key) /\ buckets'[f + 1] = <<key>> \o buckets[f + 1]
      /\ DOMAIN buckets' = F!Freqs
      /\ \A g \in F!Freqs \ {f, f + 1} : buckets'[g] = buckets[g]
  BY <1>1, <1>2, <1>3
<1> HIDE DEF f
<1>6. uses[key] + 1 \in Nat /\ uses[key] + 1 <= calls'
  BY <1>2
<1>7. /\ calls' \in 0 .. MaxCalls
      /\ uses' \in [Keys -> Nat] /\ since' \in [Keys -> Nat]
      /\ uses'[key] = uses[key] + 1
      /\ \A k \in Keys \ {key} : uses'[k] = uses[k] /\ since'[k] = since[k]
      /\ \A k \in Keys \ {key} : since'[key] > since'[k]
      /\ \A k \in Keys : uses'[k] <= calls' /\ since'[k] <= calls'
  BY <1>1, <1>6, UsesAges
<1>8. ASSUME NEW g \in F!Freqs
      PROVE  BucketOf(buckets'[g], entries', since', g)
  <2>1. BucketOf(buckets[g], entries, since, g)
    BY DEF LFUInv, BucketsFit
  <2>2. /\ buckets[g] \in Seq(Keys) /\ NoneTwice(buckets[g])
        /\ SortedBy(buckets[g], since)
        /\ Elements(buckets[g]) = {k \in DOMAIN entries : entries[k].freq = g}
    BY <2>1 DEF BucketOf
  <2>3. CASE g = f
    <3>1. LET m == F!Without(key)
          IN  /\ m \in Seq(Keys) /\ NoneTwice(m) /\ SortedBy(m, since)
              /\ Elements(m) = Elements(buckets[g]) \ {key}
      BY <1>1, <2>3, WithoutIs DEF f
    <3>2. buckets'[g] = F!Without(key)
      BY <1>5, <2>3
    <3>3. \A k \in Elements(buckets'[g]) : since'[k] = since[k]
      BY <1>2, <1>7, <2>2, <3>1, <3>2
    <3>4. SortedBy(buckets'[g], since')
      BY <3>1, <3>2, <3>3, SortedStill
    <3>5. Elements(buckets'[g]) = {k \in DOMAIN entries' : entries'[k].freq = g}
      BY <1>3, <1>4, <2>2, <2>3, <3>1, <3>2
    <3>6. QED
      BY <3>1, <3>2, <3>4, <3>5 DEF BucketOf
  <2>4. CASE g = f + 1
    <3>1. key \notin Elements(buckets[g])
      BY <1>3, <2>2, <2>4 DEF f
    <3>2. \A k \in Elements(buckets[g]) : since'[k] = since[k] /\ since'[key] > since'[k]
      BY <1>2, <1>7, <2>2, <3>1
    <3>3. SortedBy(buckets[g], since')
      BY <2>2, <3>2, SortedStill
    <3>4. buckets'[g] = <<key>> \o buckets[g]
      BY <1>5, <2>4
    <3>5. LET m == buckets'[g]
          IN  /\ m \in Seq(Keys) /\ NoneTwice(m) /\ SortedBy(m, since')
              /\ Elements(m) = Elements(buckets[g]) \cup {key}
      BY <2>2, <3>1, <3>2, <3>3, <3>4, PushAdds
    <3>6. Elements(buckets'[g]) = {k \in DOMAIN entries' : entries'[k].freq = g}
      BY <1>1, <1>4, <2>2, <2>4, <3>5
    <3>7. QED
      BY <3>5, <3>6 DEF BucketOf
  <2>5. CASE g \notin {f, f + 1}
    <3>1. key \notin Elements(buckets[g]) /\ buckets'[g] = buckets[g]
      BY <1>5, <2>2, <2>5 DEF f
    <3>2. \A k \in Elements(buckets[g]) : since'[k] = since[k]
      BY <1>2, <1>7, <2>2, <3>1
    <3>3. SortedBy(buckets'[g], since')
      BY <2>2, <3>1, <3>2, SortedStill
    <3>4. Elements(buckets'[g]) = {k \in DOMAIN entries' : entries'[k].freq = g}
      BY <1>4, <2>2, <2>5, <3>1
    <3>5. QED
      BY <2>2, <3>1, <3>3, <3>4 DEF BucketOf
  <2>6. QED
    BY <2>3, <2>4, <2>5
<1>9. BucketsFit'
  BY <1>8 DEF BucketsFit, F!Freqs
<1>10. F!Raised(key) \in Nat /\ F!EvictEnds'
  <2>1. /\ F!Raised(key) \in Nat /\ F!Raised(key) <= f + 1
        /\ \A k \in DOMAIN entries \ {key} : F!Raised(key) <= entries[k].freq
    BY <1>1, RaisedIs DEF f
  <2>2. \A k \in DOMAIN entries' : min_freq' <= entries'[k].freq
    BY <1>1, <1>4, <2>1
  <2>3. QED
    BY <2>1, <2>2 DEF F!EvictEnds
<1>11. UsesCounted'
  <2>1. \A k \in DOMAIN entries' : entries'[k].freq = uses'[k]
    BY <1>1, <1>2, <1>4, <1>7, ZenonT(30)
  <2>2. QED
    BY <1>7, <2>1 DEF UsesCounted
<1>12. LFUBytes'
  <2>1. LFUCharges' = LFUCharges
    BY <1>1, <1>4 DEF LFUCharges
  <2>2. QED
    BY <1>1, <1>4, <2>1 DEF LFUInv, LFUBytes
<1>13. F!TypeOK'
  <2>1. \A k \in DOMAIN entries' : entries'[k] \in [size : Nat, freq : F!Freqs]
    <3>1. ASSUME NEW k \in DOMAIN entries' PROVE entries'[k] \in [size : Nat, freq : F!Freqs]
      <4>1. CASE k # key
        BY <1>4, <4>1 DEF LFUInv, F!TypeOK
      <4>2. CASE k = key
        <5>1. entries[key] \in [size : Nat, freq : F!Freqs]
          BY <1>1 DEF LFUInv, F!TypeOK
        <5>2. entries'[key] = [entries[key] EXCEPT !.freq = f + 1]
          BY <1>1 DEF f
        <5>3. QED
          BY <1>3, <4>2, <5>1, <5>2
      <4>3. QED
        BY <4>1, <4>2
    <3>2. QED
      BY <3>1
  <2>2. buckets' \in [F!Freqs -> Seq(Keys)]
    <3>1. buckets' = [g \in F!Freqs |-> buckets'[g]]
      BY <1>1, <1>2
    <3>2. \A g \in F!Freqs : buckets'[g] \in Seq(Keys)
      BY <1>8 DEF BucketOf
    <3>3. QED
      BY <3>1, <3>2
  <2>3. DOMAIN entries' \subseteq Keys /\ lfu_memory_used' \in Nat /\ min_freq' \in Nat
    BY <1>1, <1>2, <1>4, <1>10, LFUTypes DEF LFUInv
  <2>4. QED
    BY <1>7, <2>1, <2>2, <2>3 DEF F!TypeOK, F!Freqs
<1>14. QED
  BY <1>9, <1>10, <1>11, <1>12, <1>13 DEF LFUInv

\* add of a known key: a new size, and nothing else.
LEMMA LFUAddKnown ==
  ASSUME F!LFUAssumption, LFUInv, NEW key \in Keys, NEW size \in Sizes,
         F!addKnown(key, size)
  PROVE  LFUInv'
<1>1. /\ F!Call /\ key \in DOMAIN entries
      /\ lfu_memory_used' = lfu_memory_used - (KeySize[key] + entries[key].size)
                          + (KeySize[key] + size)
      /\ entries' = [entries EXCEPT ![key].size = size]
      /\ buckets' = buckets /\ min_freq' = min_freq
      /\ uses' = uses /\ since' = since
  BY DEF F!addKnown, F!Charge
<1>2. /\ size \in Nat /\ MaxCalls \in Nat
      /\ calls \in Nat /\ calls < MaxCalls /\ calls' = calls + 1
      /\ \A k \in Keys : uses[k] \in Nat /\ since[k] \in Nat
  BY <1>1, LFUTypes DEF LFUInv, F!LFUAssumption, F!Call
<1>3. /\ DOMAIN entries' = DOMAIN entries
      /\ entries'[key].freq = entries[key].freq /\ entries'[key].size = size
      /\ entries'[key] \in [size : Nat, freq : F!Freqs]
      /\ \A k \in DOMAIN entries \ {key} : entries'[k] = entries[k]
  <2>1. entries[key] \in [size : Nat, freq : F!Freqs]
    BY <1>1 DEF LFUInv, F!TypeOK
  <2>2. entries'[key] = [entries[key] EXCEPT !.size = size]
    BY <1>1
  <2>3. /\ entries'[key].freq = entries[key].freq /\ entries'[key].size = size
        /\ entries'[key] \in [size : Nat, freq : F!Freqs]
    BY <1>2, <2>1, <2>2
  <2>4. DOMAIN entries' = DOMAIN entries
    BY <1>1
  <2>5. \A k \in DOMAIN entries \ {key} : entries'[k] = entries[k]
    BY <1>1
  <2>6. QED
    BY <2>3, <2>4, <2>5
<1>4. \A k \in DOMAIN entries : entries'[k].freq = entries[k].freq
  BY <1>3
<1>5. BucketsFit'
  <2>1. ASSUME NEW g \in F!Freqs PROVE BucketOf(buckets[g], entries', since, g)
    BY <1>3, <1>4 DEF LFUInv, BucketsFit, BucketOf
  <2>2. QED
    BY <1>1, <2>1 DEF BucketsFit, F!Freqs
<1>6. UsesCounted' /\ F!EvictEnds'
  <2>1. \A k \in Keys : uses[k] <= calls' /\ since[k] <= calls'
    BY <1>2 DEF LFUInv, UsesCounted
  <2>2. \A k \in DOMAIN entries' : entries'[k].freq = uses[k]
    BY <1>3, <1>4 DEF LFUInv, UsesCounted
  <2>3. \A k \in DOMAIN entries' : min_freq <= entries'[k].freq
    BY <1>3, <1>4 DEF LFUInv, F!EvictEnds
  <2>4. QED
    BY <1>1, <2>1, <2>2, <2>3 DEF UsesCounted, F!EvictEnds
<1>7. LFUBytes' /\ lfu_memory_used' \in Nat
  <2>1. DOMAIN entries' = DOMAIN entries \cup {key}
    BY <1>1, <1>3
  <2>2. \A k \in DOMAIN entries \ {key} : entries'[k].size = entries[k].size
    BY <1>3
  <2>3. lfu_memory_used' =
           lfu_memory_used - (IF key \in DOMAIN entries
                          THEN KeySize[key] + entries[key].size ELSE 0)
                       + (KeySize[key] + size)
    BY <1>1
  <2>4. QED
    BY <1>2, <1>3, <2>1, <2>2, <2>3, PutBytes
<1>8. F!TypeOK'
  <2>1. \A k \in DOMAIN entries' : entries'[k] \in [size : Nat, freq : F!Freqs]
    BY <1>3 DEF LFUInv, F!TypeOK
  <2>2. calls' \in 0 .. MaxCalls
    BY <1>2
  <2>3. QED
    BY <1>1, <1>3, <1>7, <2>1, <2>2 DEF LFUInv, F!TypeOK, F!Freqs
<1>9. QED
  BY <1>5, <1>6, <1>7, <1>8 DEF LFUInv

\* A new key enters the first bucket.
LEMMA LFUAddNew ==
  ASSUME F!LFUAssumption, LFUInv, NEW key \in Keys, NEW size \in Sizes,
         F!addNew(key, size)
  PROVE  LFUInv'
<1>1. /\ F!Call /\ key \notin DOMAIN entries
      /\ buckets' = [buckets EXCEPT ![1] = <<key>> \o @]
      /\ entries' = [k \in DOMAIN entries \cup {key} |->
                       IF k = key THEN [size |-> size, freq |-> 1] ELSE entries[k]]
      /\ min_freq' = 1
      /\ lfu_memory_used' = lfu_memory_used + (KeySize[key] + size)
      /\ F!Uses(key, 1)
  BY DEF F!addNew, F!Enter, F!Charge
<1>2. /\ size \in Nat /\ MaxCalls \in Nat /\ calls \in Nat /\ calls' = calls + 1
      /\ F!Freqs = 1 .. MaxCalls + 1 /\ 1 \in F!Freqs
      /\ DOMAIN entries \subseteq Keys /\ DOMAIN buckets = F!Freqs
      /\ \A k \in DOMAIN entries :
            entries[k].size \in Nat /\ entries[k].freq \in F!Freqs
      /\ \A k \in DOMAIN entries : entries[k].freq = uses[k]
  BY <1>1, LFUTypes, SMTT(30) DEF LFUInv, UsesCounted, F!Call, F!LFUAssumption
<1>3. /\ DOMAIN entries' = DOMAIN entries \cup {key}
      /\ entries'[key] = [size |-> size, freq |-> 1]
      /\ \A k \in DOMAIN entries : k # key /\ entries'[k] = entries[k]
  BY <1>1
<1>4. /\ buckets'[1] = <<key>> \o buckets[1] /\ DOMAIN buckets' = F!Freqs
      /\ \A g \in F!Freqs \ {1} : buckets'[g] = buckets[g]
  BY <1>1, <1>2
<1>5. /\ calls' \in 0 .. MaxCalls
      /\ uses' \in [Keys -> Nat] /\ since' \in [Keys -> Nat]
      /\ uses'[key] = 1
      /\ \A k \in Keys \ {key} : uses'[k] = uses[k] /\ since'[k] = since[k]
      /\ \A k \in Keys \ {key} : since'[key] > since'[k]
      /\ \A k \in Keys : uses'[k] <= calls' /\ since'[k] <= calls'
  BY <1>1, <1>2, UsesAges
<1>6. ASSUME NEW g \in F!Freqs
      PROVE  BucketOf(buckets'[g], entries', since', g)
  <2>1. BucketOf(buckets[g], entries, since, g)
    BY DEF LFUInv, BucketsFit
  <2>2. /\ buckets[g] \in Seq(Keys) /\ NoneTwice(buckets[g])
        /\ SortedBy(buckets[g], since)
        /\ Elements(buckets[g]) = {k \in DOMAIN entries : entries[k].freq = g}
    BY <2>1 DEF BucketOf
  <2>3. key \notin Elements(buckets[g])
    BY <1>1, <2>2
  <2>4. \A k \in Elements(buckets[g]) : since'[k] = since[k] /\ since'[key] > since'[k]
    BY <1>2, <1>5, <2>2, <2>3
  <2>5. SortedBy(buckets[g], since')
    BY <2>2, <2>4, SortedStill
  <2>6. CASE g = 1
    <3>1. buckets'[g] = <<key>> \o buckets[g]
      BY <1>4, <2>6
    <3>2. LET m == buckets'[g]
          IN  /\ m \in Seq(Keys) /\ NoneTwice(m) /\ SortedBy(m, since')
              /\ Elements(m) = Elements(buckets[g]) \cup {key}
      BY <2>2, <2>3, <2>4, <2>5, <3>1, PushAdds
    <3>3. Elements(buckets'[g]) = {k \in DOMAIN entries' : entries'[k].freq = g}
      BY <1>3, <2>2, <2>6, <3>2
    <3>4. QED
      BY <3>2, <3>3 DEF BucketOf
  <2>7. CASE g # 1
    <3>1. buckets'[g] = buckets[g]
      BY <1>4, <2>7
    <3>2. Elements(buckets'[g]) = {k \in DOMAIN entries' : entries'[k].freq = g}
      BY <1>3, <2>2, <2>7, <3>1
    <3>3. QED
      BY <2>2, <2>5, <3>1, <3>2 DEF BucketOf
  <2>8. QED
    BY <2>6, <2>7
<1>7. BucketsFit'
  BY <1>6 DEF BucketsFit, F!Freqs
<1>8. UsesCounted' /\ F!EvictEnds'
  <2>1. \A k \in DOMAIN entries' : entries'[k].freq = uses'[k]
    BY <1>2, <1>3, <1>5
  <2>2. \A k \in DOMAIN entries' : 1 <= entries'[k].freq
    BY <1>2, <1>3
  <2>3. QED
    BY <1>1, <1>5, <2>1, <2>2 DEF UsesCounted, F!EvictEnds
<1>9. LFUBytes' /\ lfu_memory_used' \in Nat
  <2>1. entries'[key].size = size
    BY <1>3
  <2>2. \A k \in DOMAIN entries \ {key} : entries'[k].size = entries[k].size
    BY <1>3
  <2>3. lfu_memory_used \in Int
    BY LFUTypes DEF LFUInv
  <2>4. lfu_memory_used' =
           lfu_memory_used - (IF key \in DOMAIN entries
                          THEN KeySize[key] + entries[key].size ELSE 0)
                       + (KeySize[key] + size)
    BY <1>1, <2>3
  <2>5. QED
    BY <1>2, <1>3, <2>1, <2>2, <2>4, PutBytes
<1>10. F!TypeOK'
  <2>1. \A k \in DOMAIN entries' : entries'[k] \in [size : Nat, freq : F!Freqs]
    BY <1>2, <1>3 DEF LFUInv, F!TypeOK
  <2>2. buckets' \in [F!Freqs -> Seq(Keys)]
    <3>1. buckets' = [g \in F!Freqs |-> buckets'[g]]
      BY <1>1, <1>2
    <3>2. \A g \in F!Freqs : buckets'[g] \in Seq(Keys)
      BY <1>6 DEF BucketOf
    <3>3. QED
      BY <3>1, <3>2
  <2>3. DOMAIN entries' \subseteq Keys /\ min_freq' \in Nat
    BY <1>1, <1>2, <1>3
  <2>4. QED
    BY <1>5, <1>9, <2>1, <2>2, <2>3 DEF F!TypeOK, F!Freqs
<1>11. QED
  BY <1>7, <1>8, <1>9, <1>10 DEF LFUInv

\* A key leaves its bucket and is forgotten; min_freq_ is not above the
\* frequency of any other.
LEMMA LFUForgets ==
  ASSUME F!LFUAssumption, LFUInv, NEW key \in DOMAIN entries, F!Call,
         F!Forget(key),
         buckets' = [buckets EXCEPT ![entries[key].freq] = F!Without(key)],
         min_freq' \in Nat,
         \A k \in DOMAIN entries \ {key} : min_freq' <= entries[k].freq
  PROVE  LFUInv'
<1> DEFINE f == entries[key].freq
<1>1. /\ LFUBytes' /\ lfu_memory_used' \in Nat
      /\ DOMAIN entries' = DOMAIN entries \ {key}
      /\ \A k \in DOMAIN entries' : entries'[k] = entries[k]
      /\ uses' = uses /\ since' = since
  BY ForgetBytes
<1>2. /\ MaxCalls \in Nat /\ calls \in Nat /\ calls < MaxCalls /\ calls' = calls + 1
      /\ f \in F!Freqs /\ DOMAIN buckets = F!Freqs
      /\ \A k \in Keys : uses[k] \in Nat /\ since[k] \in Nat
  BY LFUTypes DEF LFUInv, F!Call
<1>3. /\ buckets'[f] = F!Without(key)
      /\ \A g \in F!Freqs \ {f} : buckets'[g] = buckets[g]
  BY <1>2
<1>4. LET m == F!Without(key)
      IN  /\ m \in Seq(Keys) /\ NoneTwice(m) /\ SortedBy(m, since)
          /\ Elements(m) = Elements(buckets[f]) \ {key}
  BY WithoutIs
<1>5. ASSUME NEW g \in F!Freqs
      PROVE  BucketOf(buckets'[g], entries', since, g)
  <2>1. BucketOf(buckets[g], entries, since, g)
    BY DEF LFUInv, BucketsFit
  <2>2. /\ buckets[g] \in Seq(Keys) /\ NoneTwice(buckets[g])
        /\ SortedBy(buckets[g], since)
        /\ Elements(buckets[g]) = {k \in DOMAIN entries : entries[k].freq = g}
    BY <2>1 DEF BucketOf
  <2>3. /\ buckets'[g] \in Seq(Keys) /\ NoneTwice(buckets'[g])
        /\ SortedBy(buckets'[g], since)
        /\ Elements(buckets'[g]) = Elements(buckets[g]) \ {key}
    <3>1. CASE g = f
      BY <1>3, <1>4, <3>1
    <3>2. CASE g # f
      <4>1. buckets'[g] = buckets[g] /\ key \notin Elements(buckets[g])
        BY <1>3, <2>2, <3>2
      <4>2. QED
        BY <2>2, <4>1
    <3>3. QED
      BY <3>1, <3>2
  <2>4. Elements(buckets'[g]) = {k \in DOMAIN entries' : entries'[k].freq = g}
    BY <1>1, <2>2, <2>3
  <2>5. QED
    BY <2>3, <2>4 DEF BucketOf
<1>6. BucketsFit'
  BY <1>1, <1>5 DEF BucketsFit, F!Freqs
<1>7. UsesCounted' /\ F!EvictEnds'
  <2>1. \A k \in Keys : uses[k] <= calls' /\ since[k] <= calls'
    BY <1>2 DEF LFUInv, UsesCounted
  <2>2. \A k \in DOMAIN entries' : entries'[k].freq = uses[k]
    BY <1>1 DEF LFUInv, UsesCounted
  <2>3. \A k \in DOMAIN entries' : min_freq' <= entries'[k].freq
    BY <1>1
  <2>4. QED
    BY <1>1, <2>1, <2>2, <2>3 DEF UsesCounted, F!EvictEnds
<1>8. F!TypeOK'
  <2>1. \A k \in DOMAIN entries' : entries'[k] \in [size : Nat, freq : F!Freqs]
    BY <1>1 DEF LFUInv, F!TypeOK
  <2>2. buckets' \in [F!Freqs -> Seq(Keys)]
    <3>1. buckets' = [g \in F!Freqs |-> buckets'[g]]
      BY <1>2
    <3>2. \A g \in F!Freqs : buckets'[g] \in Seq(Keys)
      BY <1>5 DEF BucketOf
    <3>3. QED
      BY <3>1, <3>2
  <2>3. calls' \in 0 .. MaxCalls
    BY <1>2
  <2>4. QED
    BY <1>1, <2>1, <2>2, <2>3 DEF LFUInv, F!TypeOK, F!Freqs
<1>9. QED
  BY <1>1, <1>6, <1>7, <1>8 DEF LFUInv

\* What evict() takes: the back of the first bucket that holds a key.
LFUVictim == LET f == F!Min(F!Filled) IN buckets[f][Len(buckets[f])]

LEMMA EvictTakes ==
  ASSUME F!LFUAssumption, LFUInv, F!evict
  PROVE  /\ F!Call /\ F!Forget(LFUVictim) /\ LFUVictim \in DOMAIN entries
         /\ min_freq' = entries[LFUVictim].freq /\ min_freq' \in F!Freqs
         /\ buckets' = [buckets EXCEPT ![entries[LFUVictim].freq] =
                                          F!Without(LFUVictim)]
         /\ \A k \in DOMAIN entries \ {LFUVictim} :
               \/ min_freq' < entries[k].freq
               \/ min_freq' = entries[k].freq /\ since[LFUVictim] < since[k]
<1> DEFINE f == F!Min(F!Filled)
           bucket == buckets[f]
           victim_ == LFUVictim
<1>1. /\ F!Call /\ F!Filled # {}
      /\ min_freq' = f
      /\ buckets' = [buckets EXCEPT ![f] = SubSeq(@, 1, Len(@) - 1)]
      /\ F!Forget(victim_)
  BY DEF F!evict, LFUVictim
<1>2. f \in F!Filled /\ \A g \in F!Filled : f <= g
  <2>1. F!Filled \in SUBSET Nat
    BY LFUTypes DEF LFUInv, F!Filled
  <2>2. \E n \in F!Filled : \A m \in F!Filled : n <= m
    BY <1>1, <2>1, LeastNatural
  <2>3. QED
    BY <2>2 DEF F!Min
<1> HIDE DEF f
<1>3. f \in F!Freqs /\ bucket # <<>> /\ f \in Nat
  BY <1>2, LFUTypes DEF LFUInv, F!Filled
<1>4. BucketOf(bucket, entries, since, f)
  BY <1>3 DEF LFUInv, BucketsFit
<1>5. /\ bucket \in Seq(Keys) /\ NoneTwice(bucket) /\ SortedBy(bucket, since)
      /\ Elements(bucket) = {k \in DOMAIN entries : entries[k].freq = f}
  BY <1>4 DEF BucketOf
<1>6. victim_ = bucket[Len(bucket)]
  BY DEF LFUVictim, f
<1>7. DOMAIN buckets = F!Freqs
  BY LFUTypes DEF LFUInv
<1>8. buckets' = [buckets EXCEPT ![f] = SubSeq(bucket, 1, Len(bucket) - 1)]
  BY <1>1, <1>3, <1>7
<1> HIDE DEF bucket, victim_
<1>9. /\ Len(bucket) \in Nat /\ Len(bucket) >= 1 /\ DOMAIN bucket = 1 .. Len(bucket)
      /\ Len(bucket) \in DOMAIN bucket
  <2>1. Len(bucket) \in Nat /\ DOMAIN bucket = 1 .. Len(bucket)
    BY <1>5
  <2>2. Len(bucket) # 0
    BY <1>3, <1>5
  <2>3. QED
    BY <2>1, <2>2
<1>10. victim_ \in Elements(bucket) /\ victim_ \in DOMAIN entries /\ entries[victim_].freq = f
  BY <1>5, <1>6, <1>9 DEF Elements
<1>11. SubSeq(bucket, 1, Len(bucket) - 1) = F!Without(victim_)
  <2> DEFINE it == CHOOSE i \in DOMAIN bucket : bucket[i] = victim_
  <2>1. it \in DOMAIN bucket /\ bucket[it] = victim_
    BY <1>6, <1>9
  <2>2. it = Len(bucket)
    BY <1>5, <1>6, <1>9, <2>1 DEF NoneTwice
  <2>3. F!Without(victim_) = [i \in 1 .. Len(bucket) - 1 |->
                               IF i < it THEN bucket[i] ELSE bucket[i + 1]]
    BY <1>10 DEF F!Without, bucket
  <2> HIDE DEF it
  <2>4. F!Without(victim_) = [i \in 1 .. Len(bucket) - 1 |-> bucket[i]]
    BY <1>9, <2>2, <2>3
  <2>5. SubSeq(bucket, 1, Len(bucket) - 1) = [i \in 1 .. Len(bucket) - 1 |-> bucket[i]]
    BY <1>5, <1>9
  <2>6. QED
    BY <2>4, <2>5
<1>12. buckets' = [buckets EXCEPT ![entries[victim_].freq] = F!Without(victim_)]
  BY <1>8, <1>10, <1>11
<1>13. ASSUME NEW k \in DOMAIN entries, k # victim_
       PROVE  \/ f < entries[k].freq
              \/ f = entries[k].freq /\ since[victim_] < since[k]
  <2> DEFINE g == entries[k].freq
  <2>1. g \in F!Freqs /\ g \in Nat /\ min_freq <= g
    BY LFUTypes DEF LFUInv, F!EvictEnds
  <2>2. buckets[g] # <<>>
    <3>1. Elements(buckets[g]) = {x \in DOMAIN entries : entries[x].freq = g}
      BY <2>1 DEF LFUInv, BucketsFit, BucketOf
    <3>2. k \in Elements(buckets[g])
      BY <3>1
    <3>3. QED
      BY <3>2 DEF Elements
  <2>3. f <= g
    BY <1>2, <2>1, <2>2 DEF F!Filled
  <2>4. CASE f = g
    <3>1. k \in Elements(bucket)
      BY <1>5, <2>4
    <3>2. PICK i \in DOMAIN bucket : bucket[i] = k
      BY <3>1 DEF Elements
    <3>3. i # Len(bucket)
      BY <1>6, <1>13, <3>2
    <3>4. i < Len(bucket)
      BY <1>9, <3>3
    <3>5. since[bucket[i]] > since[bucket[Len(bucket)]]
      BY <1>5, <1>9, <3>4 DEF SortedBy
    <3>6. since[k] > since[victim_]
      BY <1>6, <3>2, <3>5
    <3>7. since[k] \in Nat /\ since[victim_] \in Nat
      BY <1>10, LFUTypes DEF LFUInv
    <3>8. QED
      BY <2>4, <3>6, <3>7
  <2>5. CASE f # g
    BY <1>3, <2>1, <2>3, <2>5
  <2>6. QED
    BY <2>4, <2>5
<1>14. QED
  BY <1>1, <1>3, <1>10, <1>12, <1>13 DEF victim_

\* Every call keeps the invariant,
LEMMA LFUNext ==
  ASSUME F!LFUAssumption
  PROVE  LFUInv /\ [F!Next]_F!vars => LFUInv'
<1> SUFFICES ASSUME LFUInv, [F!Next]_F!vars PROVE LFUInv'
  OBVIOUS
<1>1. ASSUME NEW key \in Keys, F!remove(key) PROVE LFUInv'
  <2>1. /\ F!Call /\ F!Forget(key) /\ key \in DOMAIN entries
        /\ buckets' = [buckets EXCEPT ![entries[key].freq] = F!Without(key)]
        /\ min_freq' = F!Raised(key)
    BY <1>1 DEF F!remove
  <2>2. /\ F!Raised(key) \in Nat
        /\ \A k \in DOMAIN entries \ {key} : F!Raised(key) <= entries[k].freq
    BY <2>1, RaisedIs
  <2>3. QED
    BY <2>1, <2>2, LFUForgets
<1>2. CASE F!evict
  <2>1. /\ F!Call /\ F!Forget(LFUVictim) /\ LFUVictim \in DOMAIN entries
        /\ min_freq' \in F!Freqs
        /\ buckets' = [buckets EXCEPT ![entries[LFUVictim].freq] = F!Without(LFUVictim)]
        /\ \A k \in DOMAIN entries \ {LFUVictim} :
              min_freq' < entries[k].freq \/ min_freq' = entries[k].freq
    BY <1>2, EvictTakes
  <2>2. /\ min_freq' \in Nat
        /\ \A k \in DOMAIN entries : entries[k].freq \in Nat
    BY <2>1, LFUTypes, SMTT(30) DEF LFUInv
  <2>3. \A k \in DOMAIN entries \ {LFUVictim} : min_freq' <= entries[k].freq
    BY <2>1, <2>2
  <2>4. QED
    BY <2>1, <2>2, <2>3, LFUForgets
<1>3. CASE UNCHANGED F!vars
  <2>1. UNCHANGED <<entries, buckets, min_freq, lfu_memory_used, uses, since, calls>>
    BY <1>3 DEF F!vars
  <2>2. F!TypeOK' /\ F!EvictEnds' /\ UsesCounted' /\ BucketsFit'
    BY <2>1 DEF LFUInv, F!TypeOK, F!EvictEnds, UsesCounted, BucketsFit, F!Freqs
  <2>3. LFUBytes'
    BY <2>1 DEF LFUInv, LFUBytes, LFUCharges
  <2>4. QED
    BY <2>2, <2>3 DEF LFUInv
<1>4. QED
  BY <1>1, <1>2, <1>3, LFUTouch, LFUAddKnown, LFUAddNew DEF F!Next

\* so it always holds.
LEMMA AlwaysLFUInv ==
  ASSUME F!LFUAssumption
  PROVE  F!Spec => []LFUInv
<1>1. F!Init => LFUInv
  BY LFUInit
<1>2. QED
  BY <1>1, LFUNext, PTL DEF F!Spec

\* The entries, the buckets and min_freq_ of LFU agree after any sequence of
\* calls, and so the loop of LFU::evict ends.
THEOREM LFUAlwaysSound == F!Spec => []LFUSound
<1>1. LFUInv => LFUSound
  BY LFUInvSound DEF LFUSound
<1>2. QED
  BY <1>1, PoliciesAssumption, AlwaysLFUInv, PTL

\* LFU::evict takes a key used least often, and among those the one that has
\* had its frequency for longest.
LEMMA EvictionTakesLeastFrequent ==
  ASSUME F!LFUAssumption
  PROVE  F!Spec => F!EvictsLeastFrequent
<1> DEFINE A == \A gone \in DOMAIN entries \ DOMAIN entries', kept \in DOMAIN entries' :
                   F!evict => \/ uses[gone] < uses[kept]
                              \/ uses[gone] = uses[kept] /\ since[gone] < since[kept]
<1>1. ASSUME LFUInv, [F!Next]_F!vars PROVE A
  <2> SUFFICES ASSUME NEW gone \in DOMAIN entries \ DOMAIN entries',
                      NEW kept \in DOMAIN entries', F!evict
               PROVE  \/ uses[gone] < uses[kept]
                      \/ uses[gone] = uses[kept] /\ since[gone] < since[kept]
    OBVIOUS
  <2>1. /\ F!Forget(LFUVictim) /\ LFUVictim \in DOMAIN entries
        /\ min_freq' = entries[LFUVictim].freq
        /\ \A k \in DOMAIN entries \ {LFUVictim} :
               \/ min_freq' < entries[k].freq
               \/ min_freq' = entries[k].freq /\ since[LFUVictim] < since[k]
    BY <1>1, EvictTakes
  <2>2. DOMAIN entries' = DOMAIN entries \ {LFUVictim}
    BY <1>1, <2>1, ForgetBytes
  <2>3. gone = LFUVictim /\ kept \in DOMAIN entries \ {LFUVictim}
    BY <2>2
  <2>4. entries[gone].freq = uses[gone] /\ entries[kept].freq = uses[kept]
    BY <1>1, <2>3 DEF LFUInv, UsesCounted
  <2>5. QED
    BY <2>1, <2>3, <2>4
<1>2. LFUInv /\ [F!Next]_F!vars => [A]_F!vars
  BY <1>1
<1>3. QED
  BY <1>2, AlwaysLFUInv, PTL DEF F!Spec, F!EvictsLeastFrequent

\* Every call on LFU is a call the EvictionPolicy interface allows: a touch is
\* none, add and remove are its Add and Remove, and evict gives up some key.
LEMMA LFUImplementsPolicy ==
  ASSUME F!LFUAssumption
  PROVE  F!Spec => F!ImplementsPolicy
<1> DEFINE sizes == [k \in DOMAIN entries |-> entries[k].size]
<1>1. F!Init => F!Policy!PolicyInit
  BY DEF F!Init, F!Policy!PolicyInit
<1>2. ASSUME LFUInv, [F!Next]_F!vars
      PROVE  [F!Policy!PolicyNext]_F!Policy!policyVars
  <2>1. ASSUME NEW key \in Keys, F!touch(key)
        PROVE  sizes' = sizes /\ lfu_memory_used' = lfu_memory_used
    <3>1. /\ entries' = [entries EXCEPT ![key].freq = entries[key].freq + 1]
          /\ key \in DOMAIN entries /\ lfu_memory_used' = lfu_memory_used
      BY <2>1 DEF F!touch
    <3>2. entries[key] \in [size : Nat, freq : F!Freqs]
      BY <1>2, <3>1 DEF LFUInv, F!TypeOK
    <3>3. \A k \in DOMAIN entries : entries'[k].size = entries[k].size
      BY <3>1, <3>2
    <3>4. QED
      BY <3>1, <3>3
  <2>2. ASSUME NEW key \in Keys, NEW size \in Sizes, F!addKnown(key, size)
        PROVE  F!Policy!Add(key, size)
    <3>1. /\ entries' = [entries EXCEPT ![key].size = size] /\ key \in DOMAIN entries
          /\ lfu_memory_used' = lfu_memory_used - (KeySize[key] + entries[key].size)
                              + (KeySize[key] + size)
      BY <2>2 DEF F!addKnown, F!Charge
    <3>2. entries[key] \in [size : Nat, freq : F!Freqs]
      BY <1>2, <3>1 DEF LFUInv, F!TypeOK
    <3>3. /\ DOMAIN entries' = DOMAIN entries \cup {key}
          /\ \A k \in DOMAIN entries : entries'[k].size = IF k = key THEN size
                                                          ELSE entries[k].size
      BY <3>1, <3>2
    <3>4. sizes' = [k \in DOMAIN sizes \cup {key} |-> IF k = key THEN size ELSE sizes[k]]
      BY <3>1, <3>3
    <3>5. /\ KeySize[key] \in Nat /\ entries[key].size \in Nat /\ size \in Nat
          /\ lfu_memory_used \in Nat
      BY <1>2, <3>1, LFUTypes DEF LFUInv, F!LFUAssumption
    <3>6. lfu_memory_used' = lfu_memory_used - (KeySize[key] + sizes[key]) + KeySize[key] + size
      BY <3>1, <3>5
    <3>7. QED
      BY <3>1, <3>4, <3>6 DEF F!Policy!Add
  <2>3. ASSUME NEW key \in Keys, NEW size \in Sizes, F!addNew(key, size)
        PROVE  F!Policy!Add(key, size)
    <3>1. /\ entries' = [k \in DOMAIN entries \cup {key} |->
                           IF k = key THEN [size |-> size, freq |-> 1] ELSE entries[k]]
          /\ key \notin DOMAIN entries
          /\ lfu_memory_used' = lfu_memory_used + (KeySize[key] + size)
      BY <2>3 DEF F!addNew, F!Charge
    <3>2. sizes' = [k \in DOMAIN sizes \cup {key} |-> IF k = key THEN size ELSE sizes[k]]
      BY <3>1
    <3>3. KeySize[key] \in Nat /\ size \in Nat /\ lfu_memory_used \in Nat
      BY <1>2, LFUTypes DEF LFUInv, F!LFUAssumption
    <3>4. lfu_memory_used' = lfu_memory_used + KeySize[key] + size
      BY <3>1, <3>3
    <3>5. QED
      BY <3>1, <3>2, <3>4 DEF F!Policy!Add
  <2>4. ASSUME NEW key \in DOMAIN entries, F!Forget(key)
        PROVE  F!Policy!Forget(key)
    <3>1. /\ entries' = [k \in DOMAIN entries \ {key} |-> entries[k]]
          /\ lfu_memory_used' = lfu_memory_used - (KeySize[key] + entries[key].size)
      BY <2>4 DEF F!Forget, F!Restrict, F!Charge
    <3>2. sizes' = [k \in DOMAIN sizes \ {key} |-> sizes[k]]
      BY <3>1
    <3>3. QED
      BY <3>1, <3>2 DEF F!Policy!Forget
  <2>5. ASSUME NEW key \in Keys, F!remove(key)
        PROVE  F!Policy!Remove(key)
    BY <2>4, <2>5 DEF F!remove, F!Policy!Remove
  <2>6. CASE F!evict
    BY <1>2, <2>4, <2>6, EvictTakes DEF F!Policy!PolicyNext, F!Policy!Evict
  <2>7. CASE UNCHANGED F!vars
    BY <2>7 DEF F!vars, F!Policy!policyVars
  <2>8. CASE F!Next
    <3>1. CASE \E key \in Keys : F!touch(key)
      BY <2>1, <3>1 DEF F!Policy!policyVars
    <3>2. CASE \E key \in Keys : F!remove(key)
      BY <2>5, <3>2 DEF F!Policy!PolicyNext
    <3>3. CASE \E key \in Keys, size \in Sizes : F!addKnown(key, size) \/ F!addNew(key, size)
      BY <2>2, <2>3, <3>3 DEF F!Policy!PolicyNext
    <3>4. QED
      BY <2>6, <2>8, <3>1, <3>2, <3>3 DEF F!Next
  <2>9. QED
    BY <1>2, <2>7, <2>8
<1>3. LFUInv /\ [F!Next]_F!vars => [F!Policy!PolicyNext]_F!Policy!policyVars
  BY <1>2
<1>4. QED
  BY <1>1, <1>3, AlwaysLFUInv, PTL
     DEF F!Spec, F!ImplementsPolicy, F!Policy!PolicySpec

\* LFU is an EvictionPolicy, and its evict() takes a key used least often, and
\* among those the one that has had its frequency for longest.
THEOREM LFUAlwaysEvicts == F!Spec => LFUEvicts
BY PoliciesAssumption, EvictionTakesLeastFrequent, LFUImplementsPolicy
   DEF LFUEvicts
-----------------------------------------------------------------------------
(***************************************************************************)
(* The inductive invariant of SIEVE.                                       *)
(***************************************************************************)
\* No two nodes were added by the same call, and none by one to come.
AgesDiffer ==
  /\ \A k \in Keys : added[k] <= calls
  /\ \A k, m \in S!Live : added[k] = added[m] => k = m

\* next leads to the next older node, and the head is the newest one.
InOrder ==
  /\ \A k, m \in S!Live : added[m] < added[k]
        => node[k].next # nullptr /\ added[m] <= added[node[k].next]
  /\ \A k \in S!Live : added[k] <= added[head]

\* The hand has left behind only nodes that were touched since they were added.
HandBehind ==
  /\ \A k \in S!Live : node[k].visited => k \in touched
  /\ hand # nullptr => \A k \in S!Live : added[k] < added[hand] => k \in touched

\* memory_used_ is what the nodes were charged.
SIEVECharges == [k \in S!Live |-> KeySize[k] + node[k].value]
SIEVEBytes == IsFiniteSet(S!Live) /\ sieve_memory_used = Total(SIEVECharges)

SIEVEInv ==
  /\ S!TypeOK /\ S!NothingDangles /\ S!OneList
  /\ AgesDiffer /\ InOrder /\ HandBehind /\ SIEVEBytes

\* The parts of the type invariant, as facts about numbers and nodes.
LEMMA SIEVETypes ==
  ASSUME S!SIEVEAssumption, S!TypeOK
  PROVE  /\ MaxCalls \in Nat /\ calls \in Nat /\ calls <= MaxCalls
         /\ nullptr \notin Keys /\ S!Live = DOMAIN node /\ S!Live \subseteq Keys
         /\ \A k \in S!Live : node[k] \in S!Node /\ node[k].value \in Nat
         /\ \A k \in Keys : KeySize[k] \in Nat /\ added[k] \in Nat
         /\ DOMAIN added = Keys /\ sieve_memory_used \in Nat
<1>1. \A k \in S!Live : node[k] \in S!Node
  BY DEF S!TypeOK
<1>2. \A k \in S!Live : node[k].value \in Nat
  BY <1>1 DEF S!Node
<1>3. QED
  BY <1>1, <1>2 DEF S!SIEVEAssumption, S!TypeOK, S!Live

\* What the list says of each node.
LEMMA Links ==
  ASSUME S!OneList
  PROVE  /\ head = nullptr <=> S!Live = {}
         /\ tail = nullptr <=> S!Live = {}
         /\ \A k \in S!Live : /\ node[k].prev = nullptr <=> k = head
                              /\ node[k].next = nullptr <=> k = tail
         /\ \A k, m \in S!Live : /\ node[k].next = m <=> node[m].prev = k
                                 /\ node[k].next = m => added[m] < added[k]
BY DEF S!OneList

\* One field of a node is set.
LEMMA PrevSet ==
  ASSUME NEW n \in S!Node, NEW v \in Keys \cup {nullptr},
         NEW m, m = [n EXCEPT !.prev = v]
  PROVE  /\ m \in S!Node /\ m.prev = v /\ m.next = n.next
         /\ m.value = n.value /\ m.visited = n.visited
BY DEF S!Node

\* The same for another field,
LEMMA NextSet ==
  ASSUME NEW n \in S!Node, NEW v \in Keys \cup {nullptr},
         NEW m, m = [n EXCEPT !.next = v]
  PROVE  /\ m \in S!Node /\ m.next = v /\ m.prev = n.prev
         /\ m.value = n.value /\ m.visited = n.visited
BY DEF S!Node

\* and for the last.
LEMMA VisitedSet ==
  ASSUME NEW n \in S!Node, NEW b \in BOOLEAN,
         NEW m, m = [n EXCEPT !.visited = b]
  PROVE  /\ m \in S!Node /\ m.visited = b /\ m.prev = n.prev
         /\ m.value = n.value /\ m.next = n.next
BY DEF S!Node

\* Nodes with the same links as those there are, and no further visits: what
\* evict() makes of them before it takes one out.
SameLinks(nd) ==
  /\ DOMAIN nd = DOMAIN node
  /\ \A k \in DOMAIN node :
        /\ nd[k] \in S!Node
        /\ nd[k].prev = node[k].prev /\ nd[k].next = node[k].next
        /\ nd[k].value = node[k].value
        /\ nd[k].visited => node[k].visited

\* The nodes once one is taken out: its neighbours are linked to each other.
LEMMA UnlinkIs ==
  ASSUME S!SIEVEAssumption, SIEVEInv, NEW nd, SameLinks(nd),
         NEW n \in S!Live, S!Unlink(nd, n)
  PROVE  /\ S!Live' = S!Live \ {n}
         /\ \A k \in S!Live' :
               /\ node'[k] \in S!Node
               /\ node'[k].value = node[k].value
               /\ node'[k].visited => node[k].visited
               /\ node'[k].prev = IF k = node[n].next THEN node[n].prev
                                                      ELSE node[k].prev
               /\ node'[k].next = IF k = node[n].prev THEN node[n].next
                                                      ELSE node[k].next
         /\ head' = IF node[n].prev = nullptr THEN node[n].next ELSE head
         /\ tail' = IF node[n].next = nullptr THEN node[n].prev ELSE tail
         /\ sieve_memory_used' = sieve_memory_used - (KeySize[n] + node[n].value)
         /\ added' = added /\ touched' = touched
<1> DEFINE prev == nd[n].prev
           next == nd[n].next
           mid == S!SetNext(nd, {prev}, next)
           new == S!SetPrev(mid, {next}, prev)
<1>1. /\ n \in DOMAIN node /\ S!Live = DOMAIN node
      /\ nd[n] \in S!Node /\ prev = node[n].prev /\ next = node[n].next
      /\ nd[n].value = node[n].value
  BY DEF SameLinks, S!Live
<1>2. prev \in Keys \cup {nullptr} /\ next \in Keys \cup {nullptr}
  BY <1>1 DEF S!Node
<1>3. /\ node' = S!Restrict(new, DOMAIN nd \ {n})
      /\ head' = IF prev = nullptr THEN next ELSE head
      /\ tail' = IF next = nullptr THEN prev ELSE tail
      /\ sieve_memory_used' = sieve_memory_used - (KeySize[n] + node[n].value)
      /\ added' = added /\ touched' = touched
  BY <1>1 DEF S!Unlink, S!Charge
<1> HIDE DEF prev, next
<1>4. DOMAIN mid = DOMAIN node
      /\ \A k \in DOMAIN node :
            mid[k] = IF k = prev THEN [nd[k] EXCEPT !.next = next] ELSE nd[k]
  BY DEF S!SetNext, SameLinks
<1>5. \A k \in DOMAIN node : /\ mid[k] \in S!Node
                             /\ mid[k].value = nd[k].value
                             /\ mid[k].visited = nd[k].visited
                             /\ mid[k].prev = nd[k].prev
                             /\ mid[k].next = IF k = prev THEN next ELSE nd[k].next
  <2> SUFFICES ASSUME NEW k \in DOMAIN node
               PROVE  /\ mid[k] \in S!Node
                      /\ mid[k].value = nd[k].value
                      /\ mid[k].visited = nd[k].visited
                      /\ mid[k].prev = nd[k].prev
                      /\ mid[k].next = IF k = prev THEN next ELSE nd[k].next
    OBVIOUS
  <2>1. nd[k] \in S!Node
    BY DEF SameLinks
  <2>2. CASE k = prev
    <3>1. mid[k] = [nd[k] EXCEPT !.next = next]
      BY <1>4, <2>2
    <3>2. QED
      BY <1>2, <2>1, <2>2, <3>1, NextSet
  <2>3. CASE k # prev
    BY <1>4, <2>1, <2>3
  <2>4. QED
    BY <2>2, <2>3
<1> HIDE DEF mid
<1>6. DOMAIN new = DOMAIN node
      /\ \A k \in DOMAIN node :
            new[k] = IF k = next THEN [mid[k] EXCEPT !.prev = prev] ELSE mid[k]
  BY <1>4 DEF S!SetPrev
<1>7. \A k \in DOMAIN node : /\ new[k] \in S!Node
                             /\ new[k].value = mid[k].value
                             /\ new[k].visited = mid[k].visited
                             /\ new[k].next = mid[k].next
                             /\ new[k].prev = IF k = next THEN prev ELSE mid[k].prev
  <2> SUFFICES ASSUME NEW k \in DOMAIN node
               PROVE  /\ new[k] \in S!Node
                      /\ new[k].value = mid[k].value
                      /\ new[k].visited = mid[k].visited
                      /\ new[k].next = mid[k].next
                      /\ new[k].prev = IF k = next THEN prev ELSE mid[k].prev
    OBVIOUS
  <2>1. mid[k] \in S!Node
    BY <1>5
  <2>2. CASE k = next
    <3>1. new[k] = [mid[k] EXCEPT !.prev = prev]
      BY <1>6, <2>2
    <3>2. QED
      BY <1>2, <2>1, <2>2, <3>1, PrevSet
  <2>3. CASE k # next
    BY <1>6, <2>1, <2>3
  <2>4. QED
    BY <2>2, <2>3
<1> HIDE DEF new
<1>8. /\ DOMAIN node' = DOMAIN node \ {n}
      /\ \A k \in DOMAIN node' : node'[k] = new[k] /\ k \in DOMAIN node
  BY <1>3, <1>6 DEF S!Restrict, SameLinks
<1>9. S!Live' = S!Live \ {n} /\ S!Live' = DOMAIN node'
  BY <1>8 DEF S!Live
<1>10. ASSUME NEW k \in S!Live'
       PROVE  /\ node'[k] \in S!Node
              /\ node'[k].value = node[k].value
              /\ node'[k].visited => node[k].visited
              /\ node'[k].prev = IF k = next THEN prev ELSE node[k].prev
              /\ node'[k].next = IF k = prev THEN next ELSE node[k].next
  <2>1. node'[k] = new[k] /\ k \in DOMAIN node
    BY <1>8, <1>9
  <2>2. /\ nd[k].prev = node[k].prev /\ nd[k].next = node[k].next
        /\ nd[k].value = node[k].value
        /\ nd[k].visited => node[k].visited
    BY <2>1 DEF SameLinks
  <2>3. /\ new[k] \in S!Node /\ new[k].value = nd[k].value
        /\ new[k].visited = nd[k].visited
        /\ new[k].prev = IF k = next THEN prev ELSE nd[k].prev
        /\ new[k].next = IF k = prev THEN next ELSE nd[k].next
    BY <1>5, <1>7, <2>1
  <2>4. node'[k].visited => node[k].visited
    BY <2>1, <2>2, <2>3
  <2>5. QED
    BY <2>1, <2>2, <2>3, <2>4
<1>11. QED
  BY <1>1, <1>3, <1>9, <1>10

\* The neighbours of a node.
LEMMA Neighbours ==
  ASSUME S!SIEVEAssumption, SIEVEInv, NEW n \in S!Live
  PROVE  LET prev == node[n].prev
             next == node[n].next
         IN  /\ prev # nullptr => /\ prev \in S!Live \ {n} /\ node[prev].next = n
                                  /\ added[n] < added[prev]
             /\ next # nullptr => /\ next \in S!Live \ {n} /\ node[next].prev = n
                                  /\ added[next] < added[n]
             /\ \A k \in S!Live : /\ node[k].next = n <=> prev = k
                                  /\ node[k].prev = n <=> next = k
             /\ \A k \in S!Live \ {n} :
                   /\ next = nullptr => added[n] < added[k]
                   /\ prev = nullptr => added[k] < added[n]
<1>1. /\ nullptr \notin Keys /\ S!Live \subseteq Keys
      /\ \A k \in Keys : added[k] \in Nat
  BY SIEVETypes DEF SIEVEInv
<1>2. node[n].prev \in S!Live \cup {nullptr} /\ node[n].next \in S!Live \cup {nullptr}
  BY DEF SIEVEInv, S!NothingDangles
<1>3. \A k, m \in S!Live : /\ node[k].next = m <=> node[m].prev = k
                           /\ node[k].next = m => added[m] < added[k]
  BY Links DEF SIEVEInv
<1>4. \A k \in S!Live : /\ node[n].next = nullptr /\ k # n => added[n] < added[k]
                        /\ node[n].prev = nullptr /\ k # n => added[k] < added[n]
  <2> SUFFICES ASSUME NEW k \in S!Live, k # n
               PROVE  /\ node[n].next = nullptr => added[n] < added[k]
                      /\ node[n].prev = nullptr => added[k] < added[n]
    OBVIOUS
  <2>1. added[k] \in Nat /\ added[n] \in Nat /\ added[k] # added[n]
    BY <1>1 DEF SIEVEInv, AgesDiffer
  <2>2. node[n].next = nullptr => ~(added[k] < added[n])
    BY DEF SIEVEInv, InOrder
  <2>3. node[n].prev = nullptr => added[k] <= added[n]
    BY Links DEF SIEVEInv, InOrder
  <2>4. QED
    BY <2>1, <2>2, <2>3
<1>5. \A k \in S!Live : added[k] \in Nat
  BY <1>1
<1>6. QED
  BY <1>2, <1>3, <1>4, <1>5

\* A node taken out leaves the list of the others. Where the hand then is, is
\* up to the caller.
LEMMA Unlinked ==
  ASSUME S!SIEVEAssumption, SIEVEInv, NEW nd, SameLinks(nd),
         NEW n \in S!Live, S!Unlink(nd, n), S!Call,
         hand' \in (S!Live \ {n}) \cup {nullptr},
         hand' # nullptr => \A k \in S!Live \ {n} :
                               added[k] < added[hand'] => k \in touched
  PROVE  SIEVEInv'
<1> DEFINE prev == node[n].prev
           next == node[n].next
<1>1. /\ MaxCalls \in Nat /\ calls \in Nat /\ calls <= MaxCalls
      /\ nullptr \notin Keys /\ S!Live = DOMAIN node /\ S!Live \subseteq Keys
      /\ \A k \in S!Live : node[k] \in S!Node /\ node[k].value \in Nat
      /\ \A k \in Keys : KeySize[k] \in Nat /\ added[k] \in Nat
      /\ DOMAIN added = Keys /\ sieve_memory_used \in Nat
  BY SIEVETypes DEF SIEVEInv
<1>2. /\ head = nullptr <=> S!Live = {}
      /\ tail = nullptr <=> S!Live = {}
      /\ \A k \in S!Live : /\ node[k].prev = nullptr <=> k = head
                           /\ node[k].next = nullptr <=> k = tail
      /\ \A k, m \in S!Live : /\ node[k].next = m <=> node[m].prev = k
                              /\ node[k].next = m => added[m] < added[k]
  BY Links DEF SIEVEInv
<1>3. /\ prev # nullptr => /\ prev \in S!Live \ {n} /\ node[prev].next = n
                           /\ added[n] < added[prev]
      /\ next # nullptr => /\ next \in S!Live \ {n} /\ node[next].prev = n
                           /\ added[next] < added[n]
      /\ \A k \in S!Live : /\ node[k].next = n <=> prev = k
                           /\ node[k].prev = n <=> next = k
      /\ \A k \in S!Live \ {n} : /\ next = nullptr => added[n] < added[k]
                                 /\ prev = nullptr => added[k] < added[n]
  BY Neighbours
<1>4. /\ S!Live' = S!Live \ {n}
      /\ \A k \in S!Live' :
            /\ node'[k] \in S!Node
            /\ node'[k].value = node[k].value
            /\ node'[k].visited => node[k].visited
            /\ node'[k].prev = IF k = next THEN prev ELSE node[k].prev
            /\ node'[k].next = IF k = prev THEN next ELSE node[k].next
      /\ head' = IF prev = nullptr THEN next ELSE head
      /\ tail' = IF next = nullptr THEN prev ELSE tail
      /\ sieve_memory_used' = sieve_memory_used - (KeySize[n] + node[n].value)
      /\ added' = added /\ touched' = touched
  BY UnlinkIs
<1>5. calls' = calls + 1 /\ calls < MaxCalls
  BY DEF S!Call
<1>6. /\ \A k \in S!Live : {node[k].prev, node[k].next} \subseteq S!Live \cup {nullptr}
      /\ {head, tail} \subseteq S!Live \cup {nullptr}
  BY DEF SIEVEInv, S!NothingDangles
<1>7. /\ \A k, m \in S!Live : added[k] = added[m] => k = m
      /\ \A k \in Keys : added[k] <= calls
      /\ \A k, m \in S!Live : added[m] < added[k]
            => node[k].next # nullptr /\ added[m] <= added[node[k].next]
      /\ \A k \in S!Live : added[k] <= added[head]
      /\ \A k \in S!Live : node[k].visited => k \in touched
  BY DEF SIEVEInv, AgesDiffer, InOrder, HandBehind
<1> HIDE DEF prev, next
<1>8. next = nullptr <=> n = tail
  BY <1>2 DEF next
<1>9. prev = nullptr <=> n = head
  BY <1>2 DEF prev
<1>10. prev \in S!Live \cup {nullptr} /\ next \in S!Live \cup {nullptr}
  BY <1>6 DEF prev, next
<1>11. nullptr \notin S!Live /\ \A k \in S!Live : added[k] \in Nat
  BY <1>1
<1>12. S!NothingDangles'
  <2>1. {head', tail', hand'} \subseteq S!Live' \cup {nullptr}
    BY <1>3, <1>4, <1>6, <1>8, <1>9, <1>10
  <2>2. ASSUME NEW k \in S!Live' PROVE node'[k].prev \in S!Live' \cup {nullptr}
    BY <1>3, <1>4, <1>6, <1>10, <2>2
  <2>3. ASSUME NEW k \in S!Live' PROVE node'[k].next \in S!Live' \cup {nullptr}
    BY <1>3, <1>4, <1>6, <1>10, <2>3
  <2>4. QED
    BY <2>1, <2>2, <2>3 DEF S!NothingDangles
<1>13. SIEVEBytes' /\ sieve_memory_used' \in Nat
  <2> DEFINE f == SIEVECharges
             h == SIEVECharges'
  <2>1. /\ DOMAIN f = S!Live /\ \A k \in S!Live : f[k] = KeySize[k] + node[k].value
        /\ DOMAIN h = S!Live \ {n}
        /\ \A k \in S!Live \ {n} : h[k] = f[k]
    BY <1>4 DEF SIEVECharges
  <2>2. \A k \in S!Live : f[k] \in Nat
    BY <1>1, <2>1
  <2>3. IsFiniteSet(S!Live) /\ sieve_memory_used = Total(f)
    BY DEF SIEVEInv, SIEVEBytes
  <2> HIDE DEF f, h
  <2>4. /\ Total(h) = Total(f) - f[n] /\ Total(h) \in Nat
        /\ IsFiniteSet(DOMAIN h)
    BY <2>1, <2>2, <2>3, Credited
  <2>5. sieve_memory_used' = Total(h) /\ IsFiniteSet(S!Live')
    BY <1>4, <2>1, <2>3, <2>4
  <2>6. QED
    BY <2>4, <2>5 DEF SIEVEBytes, h
<1>14. S!TypeOK'
  <2>1. S!Live' \subseteq Keys /\ {head', tail', hand'} \subseteq Keys \cup {nullptr}
    BY <1>1, <1>4, <1>12 DEF S!NothingDangles
  <2>2. calls' \in 0 .. MaxCalls
    BY <1>1, <1>5
  <2>3. added' \in [Keys -> Nat] /\ touched' \subseteq Keys
    BY <1>4 DEF SIEVEInv, S!TypeOK
  <2>4. QED
    BY <1>4, <1>13, <2>1, <2>2, <2>3 DEF S!TypeOK
<1>15. S!OneList'
  <2>1. (head' = nullptr) = (S!Live' = {}) /\ (tail' = nullptr) = (S!Live' = {})
    <3>1. CASE prev = nullptr /\ next = nullptr
      <4>1. \A k \in S!Live \ {n} : added[n] < added[k] /\ added[k] < added[n]
        BY <1>3, <3>1
      <4>2. S!Live \ {n} = {}
        BY <1>11, <4>1
      <4>3. QED
        BY <1>4, <3>1, <4>2
    <3>2. CASE prev # nullptr
      BY <1>2, <1>3, <1>4, <1>8, <3>2
    <3>3. CASE next # nullptr
      BY <1>2, <1>3, <1>4, <1>9, <3>3
    <3>4. QED
      BY <3>1, <3>2, <3>3
  <2>2. ASSUME NEW k \in S!Live'
        PROVE  /\ (node'[k].prev = nullptr) = (k = head')
               /\ (node'[k].next = nullptr) = (k = tail')
    <3>1. k \in S!Live /\ k # n /\ k # nullptr
      BY <1>4, <1>11, <2>2
    <3>2. node'[k].prev = nullptr <=> k = head'
      <4>1. CASE k = next
        <5>1. node'[k].prev = prev /\ node[k].prev = n /\ n # nullptr
          BY <1>3, <1>4, <1>11, <2>2, <3>1, <4>1
        <5>2. k # head
          BY <1>2, <3>1, <5>1
        <5>3. QED
          BY <1>4, <4>1, <5>1, <5>2
      <4>2. CASE k # next
        <5>1. node'[k].prev = node[k].prev
          BY <1>4, <2>2, <4>2
        <5>2. node[k].prev = nullptr <=> k = head
          BY <1>2, <3>1
        <5>3. QED
          BY <1>4, <1>9, <3>1, <4>2, <5>1, <5>2
      <4>3. QED
        BY <4>1, <4>2
    <3>3. node'[k].next = nullptr <=> k = tail'
      <4>1. CASE k = prev
        <5>1. node'[k].next = next /\ node[k].next = n /\ n # nullptr
          BY <1>3, <1>4, <1>11, <2>2, <3>1, <4>1
        <5>2. k # tail
          BY <1>2, <3>1, <5>1
        <5>3. QED
          BY <1>4, <4>1, <5>1, <5>2
      <4>2. CASE k # prev
        <5>1. node'[k].next = node[k].next
          BY <1>4, <2>2, <4>2
        <5>2. node[k].next = nullptr <=> k = tail
          BY <1>2, <3>1
        <5>3. QED
          BY <1>4, <1>8, <3>1, <4>2, <5>1, <5>2
      <4>3. QED
        BY <4>1, <4>2
    <3>4. QED
      BY <3>2, <3>3
  <2>3. ASSUME NEW k \in S!Live', NEW m \in S!Live'
        PROVE  /\ (node'[k].next = m) = (node'[m].prev = k)
               /\ node'[k].next = m => added'[m] < added'[k]
    <3>1. k \in S!Live /\ k # n /\ m \in S!Live /\ m # n /\ k # nullptr /\ m # nullptr
      BY <1>4, <1>11, <2>3
    <3>2. /\ node'[k].next = IF k = prev THEN next ELSE node[k].next
          /\ node'[m].prev = IF m = next THEN prev ELSE node[m].prev
      BY <1>4, <2>3
    <3>3. (node'[k].next = m) = (node'[m].prev = k)
      BY <1>2, <1>3, <3>1, <3>2
    <3>4. node'[k].next = m => added[m] < added[k]
      <4>1. CASE k = prev
        BY <1>3, <1>11, <3>1, <3>2, <4>1
      <4>2. CASE k # prev
        BY <1>2, <3>1, <3>2, <4>2
      <4>3. QED
        BY <4>1, <4>2
    <3>5. QED
      BY <1>4, <3>3, <3>4
  <2>4. QED
    BY <2>1, <2>2, <2>3 DEF S!OneList
<1>16. AgesDiffer'
  BY <1>1, <1>4, <1>5, <1>7 DEF AgesDiffer
<1>17. InOrder'
  <2>1. ASSUME NEW k \in S!Live', NEW m \in S!Live', added[m] < added[k]
        PROVE  node'[k].next # nullptr /\ added[m] <= added[node'[k].next]
    <3>1. k \in S!Live /\ k # n /\ m \in S!Live /\ m # n
      BY <1>4, <2>1
    <3>2. node[k].next # nullptr /\ added[m] <= added[node[k].next]
      BY <1>7, <2>1, <3>1
    <3>3. CASE k = prev
      <4>1. node[k].next = n /\ node'[k].next = next
        BY <1>3, <1>4, <1>11, <2>1, <3>1, <3>3
      <4>2. added[m] # added[n]
        BY <1>7, <3>1
      <4>3. added[m] < added[n]
        BY <1>11, <3>1, <3>2, <4>1, <4>2
      <4>4. next # nullptr /\ added[m] <= added[next]
        BY <1>7, <3>1, <4>3 DEF next
      <4>5. QED
        BY <4>1, <4>4
    <3>4. CASE k # prev
      BY <1>4, <2>1, <3>2, <3>4
    <3>5. QED
      BY <3>3, <3>4
  <2>2. ASSUME NEW k \in S!Live' PROVE added[k] <= added[head']
    <3>1. k \in S!Live /\ k # n
      BY <1>4, <2>2
    <3>2. CASE prev = nullptr
      <4>1. added[k] < added[n]
        BY <1>3, <3>1, <3>2
      <4>2. added[k] <= added[next]
        BY <1>7, <3>1, <4>1 DEF next
      <4>3. QED
        BY <1>4, <3>2, <4>2
    <3>3. CASE prev # nullptr
      BY <1>4, <1>7, <3>1, <3>3
    <3>4. QED
      BY <3>2, <3>3
  <2>3. QED
    BY <1>4, <2>1, <2>2 DEF InOrder
<1>18. HandBehind'
  BY <1>4, <1>7 DEF HandBehind
<1>19. QED
  BY <1>12, <1>13, <1>14, <1>15, <1>16, <1>17, <1>18 DEF SIEVEInv
-----------------------------------------------------------------------------
\* A node that is added, or given a new size, is charged for it.
LEMMA NodeCharged ==
  ASSUME S!SIEVEAssumption, SIEVEInv, NEW key \in Keys, NEW size \in Nat,
         S!Live' = S!Live \cup {key},
         node'[key].value = size,
         \A k \in S!Live \ {key} : node'[k].value = node[k].value,
         sieve_memory_used' =
           sieve_memory_used - (IF key \in S!Live
                          THEN KeySize[key] + node[key].value ELSE 0)
                       + (KeySize[key] + size)
  PROVE  SIEVEBytes' /\ sieve_memory_used' \in Nat
<1> DEFINE c == SIEVECharges
           d == SIEVECharges'
<1>1. /\ KeySize[key] \in Nat
      /\ \A k \in S!Live : KeySize[k] + node[k].value \in Nat
  BY SIEVETypes DEF SIEVEInv
<1>2. /\ IsFiniteSet(DOMAIN c) /\ DOMAIN c = S!Live
      /\ \A k \in DOMAIN c : c[k] \in Nat
      /\ sieve_memory_used = Total(c)
  BY <1>1 DEF SIEVECharges, SIEVEInv, SIEVEBytes
<1>3. /\ DOMAIN d = DOMAIN c \cup {key} /\ \A k \in DOMAIN c \ {key} : d[k] = c[k]
      /\ DOMAIN d = S!Live'
      /\ d[key] = KeySize[key] + size
      /\ key \in S!Live => c[key] = KeySize[key] + node[key].value
  BY DEF SIEVECharges
<1> HIDE DEF c, d
<1>4. d[key] \in Nat
  BY <1>1, <1>3
<1>5. /\ Total(d) = Total(c) - (IF key \in DOMAIN c THEN c[key] ELSE 0) + d[key]
      /\ Total(d) \in Nat /\ IsFiniteSet(DOMAIN d)
  BY <1>2, <1>3, <1>4, Charged
<1>6. (IF key \in DOMAIN c THEN c[key] ELSE 0)
        = IF key \in S!Live THEN KeySize[key] + node[key].value ELSE 0
  BY <1>2, <1>3
<1>7. sieve_memory_used' = Total(d)
  BY <1>2, <1>3, <1>5, <1>6
<1>8. QED
  BY <1>3, <1>5, <1>7 DEF d, SIEVEBytes

\* At the start there are no nodes.
LEMMA SIEVEInit ==
  ASSUME S!SIEVEAssumption, S!Init
  PROVE  SIEVEInv
<1> USE DEF S!Init, S!Live
<1>1. S!TypeOK
  BY DEF S!TypeOK, S!SIEVEAssumption
<1>2. S!NothingDangles /\ S!OneList /\ AgesDiffer /\ InOrder /\ HandBehind
  BY DEF S!NothingDangles, S!OneList, AgesDiffer, InOrder, HandBehind
<1>3. SIEVEBytes
  <2> DEFINE c == SIEVECharges
  <2>1. DOMAIN c = {} /\ sieve_memory_used = 0 /\ S!Live = {}
    BY DEF SIEVECharges
  <2>2. IsFiniteSet({})
    BY FS_EmptySet
  <2> HIDE DEF c
  <2>3. Total(c) = 0
    BY <2>1, <2>2, TotalNatural
  <2>4. QED
    BY <2>1, <2>2, <2>3 DEF SIEVEBytes, c
<1>4. QED
  BY <1>1, <1>2, <1>3 DEF SIEVEInv

\* A call that leaves the links alone leaves the list as it is.
LEMMA SameList ==
  ASSUME S!SIEVEAssumption, SIEVEInv, S!Live' = S!Live,
         \A k \in S!Live : /\ node'[k] \in S!Node
                           /\ node'[k].prev = node[k].prev
                           /\ node'[k].next = node[k].next,
         UNCHANGED <<head, tail, hand, added>>,
         touched' \subseteq Keys, sieve_memory_used' \in Nat,
         calls' = calls \/ S!Call
  PROVE  /\ S!TypeOK' /\ S!NothingDangles' /\ S!OneList'
         /\ AgesDiffer' /\ InOrder'
<1>1. /\ MaxCalls \in Nat /\ calls \in Nat /\ calls <= MaxCalls
      /\ \A k \in Keys : added[k] \in Nat
  BY SIEVETypes DEF SIEVEInv
<1>2. calls' \in 0 .. MaxCalls /\ calls <= calls'
  BY <1>1 DEF S!Call
<1>3. S!TypeOK'
  BY <1>2 DEF SIEVEInv, S!TypeOK
<1>4. S!NothingDangles'
  BY DEF SIEVEInv, S!NothingDangles
<1>5. S!OneList'
  BY DEF SIEVEInv, S!OneList
<1>6. AgesDiffer'
  BY <1>1, <1>2 DEF SIEVEInv, AgesDiffer
<1>7. InOrder'
  BY DEF SIEVEInv, InOrder
<1>8. QED
  BY <1>3, <1>4, <1>5, <1>6, <1>7

\* A hit: the node is visited.
LEMMA SIEVETouch ==
  ASSUME S!SIEVEAssumption, SIEVEInv, NEW key \in Keys, S!touch(key)
  PROVE  /\ SIEVEInv' /\ S!Live' = S!Live /\ sieve_memory_used' = sieve_memory_used
         /\ \A k \in S!Live : node'[k].value = node[k].value
<1>1. /\ key \in DOMAIN node /\ node' = [node EXCEPT ![key].visited = TRUE]
      /\ touched' = touched \cup {key} /\ S!Call
      /\ UNCHANGED <<head, tail, hand, sieve_memory_used, added>>
  BY DEF S!touch
<1>2. /\ S!Live' = S!Live /\ S!Live = DOMAIN node
      /\ \A k \in S!Live \ {key} : node'[k] = node[k]
      /\ node'[key] = [node[key] EXCEPT !.visited = TRUE]
  BY <1>1 DEF S!Live
<1>3. \A k \in S!Live : node[k] \in S!Node
  BY SIEVETypes DEF SIEVEInv
<1>4. /\ node'[key] \in S!Node /\ node'[key].prev = node[key].prev
      /\ node'[key].next = node[key].next /\ node'[key].value = node[key].value
  <2>1. key \in S!Live /\ node[key] \in S!Node
    BY <1>1, <1>2, <1>3
  <2>2. QED
    BY <1>2, <2>1, VisitedSet, ZenonT(30)
<1>5. \A k \in S!Live : /\ node'[k] \in S!Node
                        /\ node'[k].prev = node[k].prev
                        /\ node'[k].next = node[k].next
                        /\ node'[k].value = node[k].value
  BY <1>2, <1>3, <1>4
<1>6. touched' \subseteq Keys /\ sieve_memory_used' \in Nat
  BY <1>1 DEF SIEVEInv, S!TypeOK
<1>7. /\ S!TypeOK' /\ S!NothingDangles' /\ S!OneList'
      /\ AgesDiffer' /\ InOrder'
  BY <1>1, <1>2, <1>5, <1>6, SameList
<1>8. HandBehind'
  BY <1>1, <1>2 DEF SIEVEInv, HandBehind
<1>9. SIEVEBytes'
  <2>1. SIEVECharges' = SIEVECharges
    BY <1>2, <1>5 DEF SIEVECharges
  <2>2. QED
    BY <1>1, <1>2, <2>1 DEF SIEVEInv, SIEVEBytes
<1>10. QED
  BY <1>1, <1>2, <1>5, <1>7, <1>8, <1>9 DEF SIEVEInv

\* A new size for a known key.
LEMMA SIEVEAddKnown ==
  ASSUME S!SIEVEAssumption, SIEVEInv, NEW key \in Keys, NEW size \in Sizes,
         S!addKnown(key, size)
  PROVE  /\ SIEVEInv' /\ key \in S!Live /\ S!Live' = S!Live
         /\ node'[key].value = size
         /\ \A k \in S!Live \ {key} : node'[k].value = node[k].value
<1>1. /\ key \in DOMAIN node /\ node' = [node EXCEPT ![key].value = size]
      /\ sieve_memory_used' = sieve_memory_used - (KeySize[key] + node[key].value)
                          + (KeySize[key] + size)
      /\ S!Call /\ UNCHANGED <<head, tail, hand, added, touched>>
  BY DEF S!addKnown, S!Charge
<1>2. /\ S!Live' = S!Live /\ S!Live = DOMAIN node
      /\ \A k \in S!Live \ {key} : node'[k] = node[k]
      /\ node'[key] = [node[key] EXCEPT !.value = size]
  BY <1>1 DEF S!Live
<1>3. /\ \A k \in S!Live : node[k] \in S!Node
      /\ size \in Nat
  BY SIEVETypes DEF SIEVEInv, S!SIEVEAssumption
<1>4. /\ node'[key] \in S!Node /\ node'[key].prev = node[key].prev
      /\ node'[key].next = node[key].next /\ node'[key].value = size
      /\ node'[key].visited = node[key].visited
  <2>1. node[key] \in S!Node
    BY <1>1, <1>2, <1>3
  <2>2. QED
    BY <1>2, <1>3, <2>1 DEF S!Node
<1>5. \A k \in S!Live : /\ node'[k] \in S!Node
                        /\ node'[k].prev = node[k].prev
                        /\ node'[k].next = node[k].next
                        /\ node'[k].visited = node[k].visited
  BY <1>2, <1>3, <1>4
<1>6. SIEVEBytes' /\ sieve_memory_used' \in Nat
  <2>1. /\ S!Live' = S!Live \cup {key}
        /\ \A k \in S!Live \ {key} : node'[k].value = node[k].value
        /\ key \in S!Live
    BY <1>1, <1>2
  <2>2. sieve_memory_used' = sieve_memory_used - (IF key \in S!Live
                                      THEN KeySize[key] + node[key].value ELSE 0)
                                   + (KeySize[key] + size)
    BY <1>1, <2>1
  <2>3. QED
    BY <1>3, <1>4, <2>1, <2>2, NodeCharged
<1>7. touched' \subseteq Keys
  BY <1>1 DEF SIEVEInv, S!TypeOK
<1>8. /\ S!TypeOK' /\ S!NothingDangles' /\ S!OneList'
      /\ AgesDiffer' /\ InOrder'
  BY <1>1, <1>2, <1>5, <1>6, <1>7, SameList
<1>9. HandBehind'
  BY <1>1, <1>2, <1>5 DEF SIEVEInv, HandBehind
<1>10. QED
  BY <1>1, <1>2, <1>4, <1>6, <1>8, <1>9 DEF SIEVEInv

\* A key removed: the hand, if it was there, goes on to the next newer node.
LEMMA SIEVERemove ==
  ASSUME S!SIEVEAssumption, SIEVEInv, NEW key \in Keys, S!remove(key)
  PROVE  SIEVEInv' /\ SameLinks(node) /\ S!Unlink(node, key) /\ key \in S!Live
<1>1. /\ key \in S!Live /\ S!Unlink(node, key) /\ S!Call
      /\ hand' = IF hand = key THEN node[key].prev ELSE hand
  BY DEF S!remove, S!HandAfter, S!Live
<1>2. SameLinks(node)
  BY SIEVETypes DEF SIEVEInv, SameLinks
<1>3. /\ nullptr \notin S!Live /\ \A k \in S!Live : added[k] \in Nat
      /\ node[key].prev \in (S!Live \ {key}) \cup {nullptr}
      /\ \A k, m \in S!Live : added[k] = added[m] => k = m
  BY <1>1, SIEVETypes, Neighbours DEF SIEVEInv, AgesDiffer, S!NothingDangles
<1>4. hand' \in (S!Live \ {key}) \cup {nullptr}
  BY <1>1, <1>3 DEF SIEVEInv, S!NothingDangles
<1>5. ASSUME hand' # nullptr, NEW k \in S!Live \ {key}, added[k] < added[hand']
      PROVE  k \in touched
  <2>1. hand # nullptr => \A m \in S!Live : added[m] < added[hand] => m \in touched
    BY DEF SIEVEInv, HandBehind
  <2>2. CASE hand = key
    <3>1. hand' = node[key].prev /\ hand' \in S!Live /\ node[hand'].next = key
      BY <1>1, <1>3, <1>5, <2>2, Neighbours
    <3>2. added[k] <= added[key]
      BY <1>5, <3>1 DEF SIEVEInv, InOrder
    <3>3. added[k] < added[key]
      BY <1>1, <1>3, <3>2
    <3>4. QED
      BY <1>1, <1>3, <2>1, <2>2, <3>3
  <2>3. CASE hand # key
    BY <1>1, <1>5, <2>1, <2>3
  <2>4. QED
    BY <2>2, <2>3
<1>6. SIEVEInv'
  BY <1>1, <1>2, <1>4, <1>5, Unlinked
<1>7. QED
  BY <1>1, <1>2, <1>6

\* A new key: its node becomes the head.
LEMMA SIEVEAddNew ==
  ASSUME S!SIEVEAssumption, SIEVEInv, NEW key \in Keys, NEW size \in Sizes,
         S!addNew(key, size)
  PROVE  /\ SIEVEInv' /\ key \notin S!Live /\ S!Live' = S!Live \cup {key}
         /\ node'[key].value = size
         /\ \A k \in S!Live : node'[k].value = node[k].value
<1> DEFINE new == [value |-> size, visited |-> FALSE, prev |-> nullptr,
                   next |-> head]
           old == S!SetPrev(node, {head}, key)
<1>1. /\ MaxCalls \in Nat /\ calls \in Nat /\ calls <= MaxCalls
      /\ nullptr \notin Keys /\ S!Live = DOMAIN node /\ S!Live \subseteq Keys
      /\ \A k \in S!Live : node[k] \in S!Node /\ node[k].value \in Nat
      /\ \A k \in Keys : KeySize[k] \in Nat /\ added[k] \in Nat
      /\ DOMAIN added = Keys /\ sieve_memory_used \in Nat
  BY SIEVETypes DEF SIEVEInv
<1>2. /\ head = nullptr <=> S!Live = {}
      /\ tail = nullptr <=> S!Live = {}
      /\ \A k \in S!Live : /\ node[k].prev = nullptr <=> k = head
                           /\ node[k].next = nullptr <=> k = tail
      /\ \A k, m \in S!Live : /\ node[k].next = m <=> node[m].prev = k
                              /\ node[k].next = m => added[m] < added[k]
  BY Links DEF SIEVEInv
<1>3. /\ S!Call /\ key \notin DOMAIN node /\ node' = S!Pushed(key, size)
      /\ head' = key /\ tail' = IF tail = nullptr THEN key ELSE tail
      /\ sieve_memory_used' = sieve_memory_used + (KeySize[key] + size)
      /\ added' = [added EXCEPT ![key] = calls']
      /\ touched' = touched \ {key} /\ hand' = hand
  BY DEF S!addNew, S!Charge
<1>4. calls' = calls + 1 /\ calls < MaxCalls
  BY <1>3 DEF S!Call
<1>5. size \in Nat
  BY DEF S!SIEVEAssumption
<1>6. /\ {head, tail, hand} \subseteq S!Live \cup {nullptr}
      /\ \A k \in S!Live : {node[k].prev, node[k].next} \subseteq S!Live \cup {nullptr}
  BY DEF SIEVEInv, S!NothingDangles
<1>7. /\ \A k, m \in S!Live : added[k] = added[m] => k = m
      /\ \A k \in Keys : added[k] <= calls
      /\ \A k, m \in S!Live : added[m] < added[k]
            => node[k].next # nullptr /\ added[m] <= added[node[k].next]
      /\ \A k \in S!Live : added[k] <= added[head]
      /\ \A k \in S!Live : node[k].visited => k \in touched
      /\ hand # nullptr => \A k \in S!Live : added[k] < added[hand] => k \in touched
  BY DEF SIEVEInv, AgesDiffer, InOrder, HandBehind
<1>8. /\ DOMAIN node' = DOMAIN node \cup {key} /\ node'[key] = new
      /\ \A k \in DOMAIN node : node'[k] = old[k]
  BY <1>3 DEF S!Pushed
<1>9. /\ new \in S!Node /\ new.value = size /\ ~new.visited
      /\ new.prev = nullptr /\ new.next = head
  BY <1>5, <1>1, <1>6 DEF S!Node
<1>10. \A k \in DOMAIN node :
          old[k] = IF k = head THEN [node[k] EXCEPT !.prev = key] ELSE node[k]
  BY DEF S!SetPrev
<1> HIDE DEF new, old
<1>11. /\ S!Live' = S!Live \cup {key} /\ key \notin S!Live
       /\ node'[key] \in S!Node /\ node'[key].value = size
       /\ node'[key].visited = FALSE
       /\ node'[key].prev = nullptr /\ node'[key].next = head
  BY <1>1, <1>3, <1>8, <1>9 DEF S!Live
<1>12. ASSUME NEW k \in S!Live
       PROVE  /\ node'[k] \in S!Node
              /\ node'[k].value = node[k].value
              /\ node'[k].visited = node[k].visited
              /\ node'[k].next = node[k].next
              /\ node'[k].prev = IF k = head THEN key ELSE node[k].prev
  <2>1. /\ node'[k] = IF k = head THEN [node[k] EXCEPT !.prev = key] ELSE node[k]
        /\ node[k] \in S!Node
    BY <1>1, <1>8, <1>10, <1>12
  <2>2. CASE k = head
    BY <2>1, <2>2, PrevSet
  <2>3. CASE k # head
    BY <2>1, <2>3
  <2>4. QED
    BY <2>2, <2>3
<1>13. /\ \A k \in S!Live : added'[k] = added[k] /\ added[k] \in Nat
       /\ added'[key] = calls' /\ calls' \in 0 .. MaxCalls
       /\ \A k \in S!Live : added[k] < added'[key]
       /\ \A k \in Keys : added'[k] <= calls'
       /\ added' \in [Keys -> Nat]
  <2>1. calls' \in Nat /\ calls' \in 0 .. MaxCalls
    BY <1>1, <1>4
  <2>2. added'[key] = calls' /\ \A k \in Keys \ {key} : added'[k] = added[k]
    BY <1>1, <1>3
  <2>3. \A k \in Keys : added[k] < calls'
    BY <1>1, <1>4, <1>7
  <2>4. added' \in [Keys -> Nat]
    BY <1>3, <2>1 DEF SIEVEInv, S!TypeOK
  <2>5. \A k \in S!Live : k \in Keys \ {key}
    BY <1>1, <1>11
  <2>6. \A k \in Keys : added'[k] <= calls'
    BY <1>1, <2>1, <2>2, <2>3
  <2>7. QED
    BY <1>1, <2>1, <2>2, <2>3, <2>4, <2>5, <2>6
<1>14. SIEVEBytes' /\ sieve_memory_used' \in Nat
  <2>1. sieve_memory_used' = sieve_memory_used - (IF key \in S!Live
                                      THEN KeySize[key] + node[key].value ELSE 0)
                                   + (KeySize[key] + size)
    BY <1>1, <1>3, <1>5, <1>11
  <2>2. QED
    BY <1>5, <1>11, <1>12, <2>1, NodeCharged
<1>15. nullptr \notin S!Live /\ key # nullptr
  BY <1>1
<1>16. S!NothingDangles'
  <2>1. {head', tail', hand'} \subseteq S!Live' \cup {nullptr}
    BY <1>3, <1>6, <1>11
  <2>2. ASSUME NEW k \in S!Live'
        PROVE  {node'[k].prev, node'[k].next} \subseteq S!Live' \cup {nullptr}
    BY <1>6, <1>11, <1>12, <2>2
  <2>3. QED
    BY <2>1, <2>2 DEF S!NothingDangles
<1>17. S!TypeOK'
  <2>1. S!Live' \subseteq Keys /\ {head', tail', hand'} \subseteq Keys \cup {nullptr}
    BY <1>1, <1>11, <1>16 DEF S!NothingDangles
  <2>2. touched' \subseteq Keys
    BY <1>3 DEF SIEVEInv, S!TypeOK
  <2>3. \A k \in S!Live' : node'[k] \in S!Node
    BY <1>11, <1>12
  <2>4. QED
    BY <1>13, <1>14, <2>1, <2>2, <2>3 DEF S!TypeOK
<1>18. S!OneList'
  <2>1. (head' = nullptr) = (S!Live' = {}) /\ (tail' = nullptr) = (S!Live' = {})
    BY <1>3, <1>11, <1>15
  <2>2. ASSUME NEW k \in S!Live'
        PROVE  /\ (node'[k].prev = nullptr) = (k = head')
               /\ (node'[k].next = nullptr) = (k = tail')
    <3>1. CASE k = key
      <4>1. head = nullptr <=> tail = nullptr
        BY <1>2
      <4>2. key # tail
        BY <1>6, <1>11, <1>15
      <4>3. QED
        BY <1>3, <1>11, <3>1, <4>1, <4>2
    <3>2. CASE k # key
      <4>1. k \in S!Live /\ tail' = tail
        BY <1>2, <1>3, <1>11, <2>2, <3>2
      <4>2. /\ node'[k].prev = IF k = head THEN key ELSE node[k].prev
            /\ node'[k].next = node[k].next
        BY <1>12, <4>1
      <4>3. node'[k].prev # nullptr
        BY <1>2, <1>15, <4>1, <4>2
      <4>4. node'[k].next = nullptr <=> k = tail'
        BY <1>2, <4>1, <4>2
      <4>5. QED
        BY <1>3, <3>2, <4>3, <4>4
    <3>3. QED
      BY <3>1, <3>2
  <2>3. ASSUME NEW k \in S!Live', NEW m \in S!Live'
        PROVE  /\ (node'[k].next = m) = (node'[m].prev = k)
               /\ node'[k].next = m => added'[m] < added'[k]
    <3>1. CASE k = key /\ m = key
      BY <1>6, <1>11, <1>15, <3>1
    <3>2. CASE k = key /\ m # key
      <4>1. m \in S!Live /\ node[m].prev # key
        BY <1>6, <1>11, <1>15, <2>3, <3>2
      <4>2. node'[m].prev = key <=> m = head
        BY <1>12, <4>1
      <4>3. node'[key].next = m <=> m = head
        BY <1>11
      <4>4. QED
        BY <1>13, <3>2, <4>1, <4>2, <4>3
    <3>3. CASE k # key /\ m = key
      BY <1>6, <1>11, <1>12, <1>15, <2>3, <3>3
    <3>4. CASE k # key /\ m # key
      <4>1. k \in S!Live /\ m \in S!Live
        BY <1>11, <2>3, <3>4
      <4>2. node'[k].next = m <=> node[k].next = m
        BY <1>12, <4>1
      <4>3. node'[m].prev = k <=> node[m].prev = k
        <5>1. CASE m = head
          <6>1. node'[m].prev = key /\ node[m].prev = nullptr
            BY <1>2, <1>12, <4>1, <5>1
          <6>2. QED
            BY <1>15, <3>4, <4>1, <6>1
        <5>2. CASE m # head
          BY <1>12, <4>1, <5>2
        <5>3. QED
          BY <5>1, <5>2
      <4>4. QED
        BY <1>2, <1>13, <4>1, <4>2, <4>3
    <3>5. QED
      BY <3>1, <3>2, <3>3, <3>4
  <2>4. QED
    BY <2>1, <2>2, <2>3 DEF S!OneList
<1>19. AgesDiffer'
  <2>1. ASSUME NEW k \in S!Live', NEW m \in S!Live', added'[k] = added'[m]
        PROVE  k = m
    BY <1>7, <1>11, <1>13, <2>1
  <2>2. QED
    BY <1>13, <2>1 DEF AgesDiffer
<1>20. InOrder'
  <2>1. ASSUME NEW k \in S!Live', NEW m \in S!Live', added'[m] < added'[k]
        PROVE  node'[k].next # nullptr /\ added'[m] <= added'[node'[k].next]
    <3>1. m \in S!Live
      BY <1>11, <1>13, <2>1
    <3>2. CASE k = key
      <4>1. head # nullptr /\ head \in S!Live
        BY <1>2, <1>6, <3>1
      <4>2. QED
        BY <1>7, <1>11, <1>13, <3>1, <3>2, <4>1
    <3>3. CASE k # key
      <4>1. k \in S!Live /\ added[m] < added[k]
        BY <1>11, <1>13, <2>1, <3>1, <3>3
      <4>2. node'[k].next = node[k].next
        BY <1>12, <4>1
      <4>3. node[k].next # nullptr /\ added[m] <= added[node[k].next]
        BY <1>7, <3>1, <4>1
      <4>4. node[k].next \in S!Live
        BY <1>6, <4>1, <4>3
      <4>5. QED
        BY <1>13, <3>1, <4>2, <4>3, <4>4
    <3>4. QED
      BY <3>2, <3>3
  <2>2. ASSUME NEW k \in S!Live' PROVE added'[k] <= added'[head']
    <3>1. k \in Keys
      BY <1>17 DEF S!TypeOK
    <3>2. QED
      BY <1>3, <1>13, <3>1
  <2>3. QED
    BY <2>1, <2>2 DEF InOrder
<1>21. HandBehind'
  <2>1. ASSUME NEW k \in S!Live', node'[k].visited PROVE k \in touched'
    BY <1>3, <1>7, <1>11, <1>12, <2>1
  <2>2. ASSUME hand' # nullptr, NEW k \in S!Live', added'[k] < added'[hand']
        PROVE  k \in touched'
    <3>1. hand \in S!Live /\ hand' = hand
      BY <1>3, <1>6, <2>2
    <3>2. k # key
      BY <1>13, <2>2, <3>1
    <3>3. k \in S!Live /\ added[k] < added[hand]
      BY <1>11, <1>13, <2>2, <3>1, <3>2
    <3>4. QED
      BY <1>3, <1>7, <2>2, <3>1, <3>2, <3>3
  <2>3. QED
    BY <2>1, <2>2 DEF HandBehind
<1>22. QED
  BY <1>11, <1>12, <1>14, <1>16, <1>17, <1>18, <1>19, <1>20, <1>21 DEF SIEVEInv
-----------------------------------------------------------------------------
(***************************************************************************)
(* SIEVE's evict.  Its loop is followed by the nodes it comes to.          *)
(***************************************************************************)
\* Where the loop begins, and where it goes on to.
Start == IF hand # nullptr THEN hand ELSE tail
Newer(k) == IF k = nullptr THEN nullptr ELSE node[k].prev

\* g are the first n steps of the loop.
Steps(n, g) ==
  /\ DOMAIN g = 0 .. n
  /\ g[0] = Start
  /\ \A i \in 1 .. n : g[i] = Newer(g[i - 1])

\* There are steps of any number,
LEMMA StepsExist ==
  ASSUME NEW n \in Nat
  PROVE  \E g : Steps(n, g)
<1> DEFINE T == {m \in Nat : ~\E g : Steps(m, g)}
<1>1. SUFFICES ASSUME T # {} PROVE FALSE
  OBVIOUS
<1>2. PICK m \in T : \A k \in T : m <= k
  BY <1>1, LeastNatural
<1>3. Steps(0, [i \in 0 .. 0 |-> Start])
  BY DEF Steps
<1>4. m \in Nat /\ m # 0
  BY <1>2, <1>3
<1>5. m - 1 \in Nat /\ m - 1 \notin T
  BY <1>2, <1>4
<1>6. PICK g : Steps(m - 1, g)
  BY <1>5
<1> DEFINE h == [i \in 0 .. m |-> IF i = m THEN Newer(g[m - 1]) ELSE g[i]]
<1>7. /\ DOMAIN h = 0 .. m /\ h[0] = g[0] /\ h[m] = Newer(g[m - 1])
      /\ \A i \in 0 .. m - 1 : h[i] = g[i]
  BY <1>4
<1> HIDE DEF h
<1>8. \A i \in 1 .. m : h[i] = Newer(h[i - 1])
  <2> SUFFICES ASSUME NEW i \in 1 .. m PROVE h[i] = Newer(h[i - 1])
    OBVIOUS
  <2>1. i - 1 \in 0 .. m - 1 /\ h[i - 1] = g[i - 1]
    BY <1>4, <1>7
  <2>2. CASE i = m
    BY <1>7, <2>1, <2>2
  <2>3. CASE i # m
    <3>1. i \in 1 .. m - 1 /\ i \in 0 .. m - 1
      BY <1>4, <2>3
    <3>2. QED
      BY <1>6, <1>7, <2>1, <3>1 DEF Steps
  <2>4. QED
    BY <2>2, <2>3
<1>9. Steps(m, h)
  BY <1>6, <1>7, <1>8 DEF Steps
<1>10. QED
  BY <1>2, <1>9

\* SIEVE counts its nodes with the Cardinality of FiniteSets.
LEMMA SameCardinality == S!Cardinality(DOMAIN node) = Cardinality(DOMAIN node)
BY DEF S!Cardinality, Cardinality

\* and Walk is some.
LEMMA WalkIs ==
  ASSUME IsFiniteSet(DOMAIN node)
  PROVE  Steps(Cardinality(DOMAIN node), S!Walk)
<1> DEFINE n == Cardinality(DOMAIN node)
           Eq(u) == u = [i \in 0 .. n |->
                           IF i = 0 THEN IF hand # nullptr THEN hand ELSE tail
                           ELSE IF u[i - 1] = nullptr THEN nullptr
                                ELSE node[u[i - 1]].prev]
<1>1. n \in Nat
  BY FS_CardinalityType
<1>2. S!Walk = CHOOSE u : Eq(u)
  BY SameCardinality DEF S!Walk
<1> HIDE DEF n
<1>3. PICK g : Steps(n, g)
  BY <1>1, StepsExist
<1>4. \E u : Eq(u)
  <2> DEFINE h == [i \in 0 .. n |-> g[i]]
  <2>1. DOMAIN h = 0 .. n /\ \A i \in 0 .. n : h[i] = g[i]
    OBVIOUS
  <2>2. ASSUME NEW i \in 0 .. n
        PROVE  g[i] = IF i = 0 THEN IF hand # nullptr THEN hand ELSE tail
                      ELSE IF h[i - 1] = nullptr THEN nullptr
                           ELSE node[h[i - 1]].prev
    <3>1. CASE i = 0
      BY <1>3, <3>1 DEF Steps, Start
    <3>2. CASE i # 0
      <4>1. i \in 1 .. n /\ i - 1 \in 0 .. n
        BY <1>1, <3>2
      <4>2. h[i - 1] = g[i - 1] /\ g[i] = Newer(g[i - 1])
        BY <1>3, <2>1, <4>1 DEF Steps
      <4>3. QED
        BY <3>2, <4>2 DEF Newer
    <3>3. QED
      BY <3>1, <3>2
  <2> DEFINE at(i) == IF i = 0 THEN IF hand # nullptr THEN hand ELSE tail
                      ELSE IF h[i - 1] = nullptr THEN nullptr
                           ELSE node[h[i - 1]].prev
  <2>3. \A i \in 0 .. n : g[i] = at(i)
    BY <2>2
  <2>4. [i \in 0 .. n |-> g[i]] = [i \in 0 .. n |-> at(i)]
    <3> HIDE DEF h, at
    <3>1. QED
      BY <2>3
  <2>5. Eq(h)
    BY <2>4, Zenon
  <2>6. QED
    BY <2>5
<1> HIDE DEF Eq
<1>5. Eq(S!Walk)
  BY <1>2, <1>4, Zenon
<1> DEFINE w == S!Walk
<1> HIDE DEF w
<1>6. w = [i \in 0 .. n |-> IF i = 0 THEN IF hand # nullptr THEN hand ELSE tail
                            ELSE IF w[i - 1] = nullptr THEN nullptr
                                 ELSE node[w[i - 1]].prev]
  BY <1>5 DEF w, Eq
<1>7. Steps(n, w)
  <2>1. DOMAIN w = 0 .. n
    BY <1>6
  <2>2. w[0] = Start
    BY <1>1, <1>6 DEF Start
  <2>3. ASSUME NEW i \in 1 .. n PROVE w[i] = Newer(w[i - 1])
    <3>1. i \in 0 .. n /\ i # 0
      BY <1>1
    <3>2. QED
      BY <1>6, <3>1 DEF Newer
  <2>4. QED
    BY <2>1, <2>2, <2>3 DEF Steps
<1>8. QED
  BY <1>7 DEF n, w

\* A place where the loop does not go on.
Stops(k) == k = nullptr \/ ~node[k].visited

\* The loop comes to nodes, from the oldest or the hand's, until it is past the
\* head,
LEMMA WalkOverNodes ==
  ASSUME S!SIEVEAssumption, SIEVEInv, tail # nullptr
  PROVE  LET n == Cardinality(S!Live)
             w == S!Walk
         IN  /\ n \in Nat /\ Steps(n, w) /\ Start \in S!Live
             /\ \A i \in 0 .. n : w[i] \in S!Live \cup {nullptr}
<1> DEFINE n == Cardinality(S!Live)
           w == S!Walk
           T == {i \in 0 .. n : w[i] \notin S!Live \cup {nullptr}}
<1>1. n \in Nat /\ Steps(n, w)
  BY WalkIs, FS_CardinalityType DEF SIEVEInv, SIEVEBytes, S!Live
<1>2. Start \in S!Live
  BY DEF Start, SIEVEInv, S!NothingDangles
<1> HIDE DEF n, w
<1>3. T = {}
  <2>1. SUFFICES ASSUME T # {} PROVE FALSE
    OBVIOUS
  <2>2. T \in SUBSET Nat
    BY <1>1
  <2>3. PICK i \in T : \A k \in T : i <= k
    BY <2>1, <2>2, LeastNatural
  <2>4. i \in 1 .. n /\ i - 1 \in 0 .. n
    BY <1>1, <1>2, <2>3 DEF Steps
  <2>5. i - 1 \notin T
    BY <2>3, <2>4
  <2>6. w[i - 1] \in S!Live \cup {nullptr} /\ w[i] = Newer(w[i - 1])
    BY <1>1, <2>4, <2>5 DEF Steps
  <2>7. w[i] \in S!Live \cup {nullptr}
    BY <2>6 DEF Newer, SIEVEInv, S!NothingDangles
  <2>8. QED
    BY <2>3, <2>7
<1>4. QED
  BY <1>1, <1>2, <1>3 DEF n, w

\* and stops: each node it comes to is newer than the one before, and so there
\* are not enough of them to go on.
LEMMA WalkStops ==
  ASSUME S!SIEVEAssumption, SIEVEInv, tail # nullptr
  PROVE  \E i \in 0 .. Cardinality(S!Live) : Stops(S!Walk[i])
<1> DEFINE n == Cardinality(S!Live)
           w == S!Walk
<1>1. /\ n \in Nat /\ Steps(n, w) /\ Start \in S!Live
      /\ \A i \in 0 .. n : w[i] \in S!Live \cup {nullptr}
  BY WalkOverNodes
<1>2. IsFiniteSet(S!Live) /\ S!Live \subseteq Keys /\ nullptr \notin S!Live
      /\ \A k \in S!Live : added[k] \in Nat
  BY SIEVETypes DEF SIEVEInv, SIEVEBytes
<1>3. SUFFICES ASSUME \A i \in 0 .. n : ~Stops(w[i]) PROVE FALSE
  OBVIOUS
<1>4. Cardinality(S!Live) < n + 1
  BY <1>1
<1>5. IsFiniteSet(0 .. n) /\ Cardinality(0 .. n) = n + 1
  BY <1>1, FS_Interval
<1> HIDE DEF n, w
<1>6. \A i \in 0 .. n : w[i] \in S!Live
  BY <1>1, <1>3 DEF Stops
<1>7. \A i \in 1 .. n : added[w[i - 1]] < added[w[i]]
  <2> SUFFICES ASSUME NEW i \in 1 .. n PROVE added[w[i - 1]] < added[w[i]]
    OBVIOUS
  <2>1. i - 1 \in 0 .. n /\ i \in 0 .. n
    BY <1>1
  <2>2. w[i - 1] \in S!Live /\ w[i] = node[w[i - 1]].prev /\ w[i] # nullptr
    BY <1>1, <1>2, <1>6, <2>1 DEF Steps, Newer
  <2>3. QED
    BY <2>2, Neighbours
<1> DEFINE T == {j \in 0 .. n : \E i \in 0 .. n : i < j /\ ~(added[w[i]] < added[w[j]])}
<1>8. T = {}
  <2>1. SUFFICES ASSUME T # {} PROVE FALSE
    OBVIOUS
  <2>2. T \in SUBSET Nat
    BY <1>1
  <2>3. PICK j \in T : \A k \in T : j <= k
    BY <2>1, <2>2, LeastNatural
  <2>4. PICK i \in 0 .. n : i < j /\ ~(added[w[i]] < added[w[j]])
    BY <2>3
  <2>5. j \in 0 .. n /\ j \in 1 .. n /\ j - 1 \in 0 .. n /\ j - 1 < j
    BY <1>1, <2>3, <2>4
  <2>6. j - 1 \notin T
    BY <2>3, <2>5
  <2>7. added[w[i]] \in Nat /\ added[w[j]] \in Nat /\ added[w[j - 1]] \in Nat
    BY <1>2, <1>6, <2>5
  <2>8. added[w[j - 1]] < added[w[j]]
    BY <1>7, <2>5
  <2>9. CASE i = j - 1
    BY <2>4, <2>8, <2>9
  <2>10. CASE i # j - 1
    <3>1. i < j - 1
      BY <1>1, <2>4, <2>5, <2>10
    <3>2. added[w[i]] < added[w[j - 1]]
      BY <2>5, <2>6, <3>1
    <3>3. QED
      BY <2>4, <2>7, <2>8, <3>2
  <2>11. QED
    BY <2>9, <2>10
<1>9. DOMAIN w = 0 .. n
  BY <1>1 DEF Steps
<1> DEFINE f == [i \in 0 .. n |-> w[i]]
<1>10. f \in [0 .. n -> S!Live] /\ \A i \in 0 .. n : f[i] = w[i]
  BY <1>6
<1> HIDE DEF f
<1>11. PICK i, j \in 0 .. n : i # j /\ f[i] = f[j]
  <2> DEFINE D == 0 .. n
             L == S!Live
  <2>1. /\ IsFiniteSet(D) /\ IsFiniteSet(L) /\ f \in [D -> L]
        /\ Cardinality(L) < Cardinality(D)
    BY <1>2, <1>4, <1>5, <1>10
  <2> HIDE DEF D, L
  <2>2. \E i, j \in D : i # j /\ f[i] = f[j]
    BY <2>1, FS_PigeonHole
  <2>3. QED
    BY <2>2 DEF D
<1>12. w[i] = w[j] /\ added[w[i]] \in Nat /\ added[w[j]] \in Nat
  BY <1>2, <1>6, <1>10, <1>11
<1>13. i < j \/ j < i
  BY <1>1, <1>11
<1>14. added[w[i]] < added[w[j]] \/ added[w[j]] < added[w[i]]
  BY <1>8, <1>13
<1>15. QED
  BY <1>12, <1>14

\* What the loop passes are visited nodes, and the victim is one it does not
\* pass, or the tail.
LEMMA PassedIs ==
  ASSUME S!SIEVEAssumption, SIEVEInv, tail # nullptr
  PROVE  LET n == Cardinality(S!Live)
             p == S!Passed
             w == S!Walk
         IN  /\ p \in 0 .. n
             /\ \A i \in 0 .. p - 1 : w[i] \in S!Live /\ node[w[i]].visited
             /\ S!Victim \in S!Live
             /\ S!Victim = IF w[p] = nullptr THEN tail ELSE w[p]
<1> DEFINE n == Cardinality(S!Live)
           w == S!Walk
           T == {i \in 0 .. n : Stops(w[i])}
           Good(p) == /\ w[p] = nullptr \/ ~node[w[p]].visited
                      /\ \A i \in 0 .. p - 1 : w[i] # nullptr /\ node[w[i]].visited
<1>1. /\ n \in Nat /\ Steps(n, w)
      /\ \A i \in 0 .. n : w[i] \in S!Live \cup {nullptr}
  BY WalkOverNodes
<1>2. T # {}
  BY WalkStops
<1>3. S!Passed = CHOOSE p \in DOMAIN w : Good(p)
  BY DEF S!Passed
<1>4. tail \in S!Live /\ S!Victim = IF w[S!Passed] = nullptr THEN tail ELSE w[S!Passed]
  BY DEF S!Victim, SIEVEInv, S!NothingDangles
<1> HIDE DEF n, w
<1>5. DOMAIN w = 0 .. n
  BY <1>1 DEF Steps
<1>6. T \in SUBSET Nat
  BY <1>1
<1>7. PICK p \in T : \A k \in T : p <= k
  BY <1>2, <1>6, LeastNatural
<1>8. p \in 0 .. n
  BY <1>7
<1>9. \A i \in 0 .. p - 1 : i \in 0 .. n /\ ~Stops(w[i])
  BY <1>1, <1>7, <1>8
<1>10. Good(p)
  BY <1>7, <1>9 DEF Stops
<1>11. S!Passed \in 0 .. n /\ Good(S!Passed)
  BY <1>3, <1>5, <1>8, <1>10
<1> DEFINE q == S!Passed
<1> HIDE DEF q
<1>12. q \in 0 .. n /\ Good(q)
  BY <1>11 DEF q
<1>13. \A i \in 0 .. q - 1 : i \in 0 .. n /\ w[i] # nullptr /\ node[w[i]].visited
  BY <1>1, <1>12
<1>14. \A i \in 0 .. q - 1 : w[i] \in S!Live /\ node[w[i]].visited
  BY <1>1, <1>13
<1>15. w[q] \in S!Live \cup {nullptr}
  BY <1>1, <1>12
<1>16. S!Victim \in S!Live
  BY <1>4, <1>15 DEF q
<1>17. QED
  BY <1>4, <1>12, <1>14, <1>16 DEF n, w, q

\* All nodes older than k were touched since they were added.
OlderTouched(k) == \A m \in S!Live : added[m] < added[k] => m \in touched

\* One node further, past a touched one, that is still so.
LEMMA OneFurther ==
  ASSUME S!SIEVEAssumption, SIEVEInv, NEW k \in S!Live,
         k \in touched, OlderTouched(k), node[k].prev # nullptr
  PROVE  node[k].prev \in S!Live /\ OlderTouched(node[k].prev)
<1> DEFINE up == node[k].prev
<1>1. up \in S!Live /\ node[up].next = k
  BY Neighbours
<1> HIDE DEF up
<1>2. ASSUME NEW m \in S!Live, added[m] < added[up] PROVE m \in touched
  <2>1. added[m] <= added[k]
    BY <1>1, <1>2 DEF SIEVEInv, InOrder
  <2>2. added[m] \in Nat /\ added[k] \in Nat
    BY SIEVETypes DEF SIEVEInv
  <2>3. added[m] < added[k] \/ m = k
    BY <2>1, <2>2 DEF SIEVEInv, AgesDiffer
  <2>4. QED
    BY <2>3 DEF OlderTouched
<1>3. QED
  BY <1>1, <1>2 DEF OlderTouched, up

\* What is older than the victim was touched: the hand had left it behind, or
\* the loop has just passed it.
LEMMA OlderThanVictim ==
  ASSUME S!SIEVEAssumption, SIEVEInv, tail # nullptr
  PROVE  S!Victim \in S!Live /\ OlderTouched(S!Victim)
<1> DEFINE n == Cardinality(S!Live)
           w == S!Walk
           p == S!Passed
           T == {i \in 0 .. p : w[i] # nullptr /\ ~OlderTouched(w[i])}
<1>1. /\ n \in Nat /\ Steps(n, w) /\ Start \in S!Live
      /\ \A i \in 0 .. n : w[i] \in S!Live \cup {nullptr}
  BY WalkOverNodes
<1>2. /\ p \in 0 .. n
      /\ \A i \in 0 .. p - 1 : w[i] \in S!Live /\ node[w[i]].visited
      /\ S!Victim \in S!Live
      /\ S!Victim = IF w[p] = nullptr THEN tail ELSE w[p]
  BY PassedIs
<1>3. tail \in S!Live /\ OlderTouched(tail)
  <2>1. tail \in S!Live /\ node[tail].next = nullptr
    BY Links DEF SIEVEInv, S!NothingDangles
  <2>2. QED
    BY <2>1 DEF SIEVEInv, InOrder, OlderTouched
<1> HIDE DEF n, w, p
<1>4. OlderTouched(Start)
  BY <1>3 DEF Start, OlderTouched, SIEVEInv, HandBehind
<1>5. T = {}
  <2>1. SUFFICES ASSUME T # {} PROVE FALSE
    OBVIOUS
  <2>2. T \in SUBSET Nat
    BY <1>1, <1>2
  <2>3. PICK i \in T : \A k \in T : i <= k
    BY <2>1, <2>2, LeastNatural
  <2>4. i \in 0 .. p /\ i # 0
    BY <1>1, <1>4, <2>3 DEF Steps
  <2>5. i - 1 \in 0 .. p /\ i - 1 \in 0 .. p - 1 /\ i \in 1 .. n
    BY <1>1, <1>2, <2>4
  <2>6. i - 1 \notin T
    BY <2>3, <2>5
  <2> DEFINE k == w[i - 1]
  <2>7. k \in S!Live /\ node[k].visited /\ w[i] = Newer(k)
    BY <1>1, <1>2, <2>5 DEF Steps
  <2> HIDE DEF k
  <2>8. nullptr \notin S!Live
    BY SIEVETypes DEF SIEVEInv
  <2>9. OlderTouched(k) /\ k \in touched
    BY <2>5, <2>6, <2>7, <2>8 DEF k, SIEVEInv, HandBehind
  <2>10. w[i] = node[k].prev /\ w[i] # nullptr
    BY <2>3, <2>7, <2>8 DEF Newer
  <2>11. OlderTouched(w[i])
    BY <2>7, <2>9, <2>10, OneFurther
  <2>12. QED
    BY <2>3, <2>11
<1>6. p \in 0 .. p
  BY <1>1, <1>2
<1>7. w[p] # nullptr => OlderTouched(w[p])
  BY <1>5, <1>6
<1>8. QED
  BY <1>2, <1>3, <1>7

\* An eviction: the victim is taken out, and the hand goes on to the next newer
\* node.
LEMMA SIEVEEvict ==
  ASSUME S!SIEVEAssumption, SIEVEInv, S!evict
  PROVE  /\ SIEVEInv' /\ S!Victim \in S!Live /\ OlderTouched(S!Victim)
         /\ \E nd : SameLinks(nd) /\ S!Unlink(nd, S!Victim)
<1> DEFINE v == S!Victim
           passed == {S!Walk[i] : i \in 0 .. S!Passed - 1}
           nd == S!Unvisit(node, passed)
<1>1. /\ tail # nullptr /\ S!Call /\ hand' = node[v].prev /\ S!Unlink(nd, v)
  BY DEF S!evict, S!NextHand
<1>2. v \in S!Live /\ OlderTouched(v)
  BY <1>1, OlderThanVictim
<1>3. \A k \in S!Live : node[k] \in S!Node
  BY SIEVETypes DEF SIEVEInv
<1> HIDE DEF passed, v
<1>4. DOMAIN nd = DOMAIN node
      /\ \A k \in DOMAIN node :
            nd[k] = IF k \in passed THEN [node[k] EXCEPT !.visited = FALSE] ELSE node[k]
  BY DEF S!Unvisit
<1> HIDE DEF nd
<1>5. SameLinks(nd)
  <2>1. ASSUME NEW k \in DOMAIN node
        PROVE  /\ nd[k] \in S!Node
               /\ nd[k].prev = node[k].prev /\ nd[k].next = node[k].next
               /\ nd[k].value = node[k].value
               /\ nd[k].visited => node[k].visited
    <3>1. node[k] \in S!Node
      BY <1>3, <2>1 DEF S!Live
    <3>2. CASE k \in passed
      <4>1. nd[k] = [node[k] EXCEPT !.visited = FALSE]
        BY <1>4, <3>2
      <4>2. /\ nd[k] \in S!Node /\ nd[k].visited = FALSE
            /\ nd[k].prev = node[k].prev /\ nd[k].next = node[k].next
            /\ nd[k].value = node[k].value
        BY <3>1, <4>1, VisitedSet, ZenonT(30)
      <4>3. QED
        BY <4>2
    <3>3. CASE k \notin passed
      <4>1. nd[k] = node[k]
        BY <1>4, <3>3
      <4>2. QED
        BY <3>1, <4>1
    <3>4. QED
      BY <3>2, <3>3
  <2>2. QED
    BY <1>4, <2>1 DEF SameLinks
<1>6. nullptr \notin S!Live /\ \A k \in S!Live : added[k] \in Nat
  BY SIEVETypes DEF SIEVEInv
<1>7. hand' \in (S!Live \ {v}) \cup {nullptr}
  BY <1>1, <1>2, Neighbours
<1>8. ASSUME hand' # nullptr, NEW k \in S!Live \ {v}, added[k] < added[hand']
      PROVE  k \in touched
  <2>1. hand' \in S!Live /\ node[hand'].next = v
    BY <1>1, <1>2, <1>8, Neighbours
  <2>2. added[k] <= added[v]
    BY <1>8, <2>1 DEF SIEVEInv, InOrder
  <2>3. added[k] # added[v]
    BY <1>2, <1>8 DEF SIEVEInv, AgesDiffer
  <2>4. added[k] < added[v]
    BY <1>2, <1>6, <2>2, <2>3
  <2>5. QED
    BY <1>2, <2>4 DEF OlderTouched
<1>9. SIEVEInv'
  BY <1>1, <1>2, <1>5, <1>7, <1>8, Unlinked
<1>10. QED
  BY <1>1, <1>2, <1>5, <1>9 DEF v
-----------------------------------------------------------------------------
\* Every call keeps the invariant,
LEMMA SIEVENext ==
  ASSUME S!SIEVEAssumption, SIEVEInv, [S!Next]_S!vars
  PROVE  SIEVEInv'
<1>1. CASE UNCHANGED S!vars
  <2> USE <1>1 DEF S!vars, S!list
  <2>1. S!Live' = S!Live
    BY DEF S!Live
  <2>2. touched' \subseteq Keys /\ sieve_memory_used' \in Nat
    BY DEF SIEVEInv, S!TypeOK
  <2>3. \A k \in S!Live : node[k] \in S!Node
    BY SIEVETypes DEF SIEVEInv
  <2>4. /\ S!TypeOK' /\ S!NothingDangles' /\ S!OneList'
        /\ AgesDiffer' /\ InOrder'
    BY <2>1, <2>2, <2>3, SameList
  <2>5. HandBehind'
    BY <2>1 DEF SIEVEInv, HandBehind
  <2>6. SIEVECharges' = SIEVECharges
    BY <2>1 DEF SIEVECharges
  <2>7. SIEVEBytes'
    BY <2>1, <2>6 DEF SIEVEInv, SIEVEBytes
  <2>8. QED
    BY <2>4, <2>5, <2>7 DEF SIEVEInv
<1>2. CASE S!Next
  BY <1>2, SIEVETouch, SIEVERemove, SIEVEAddKnown, SIEVEAddNew, SIEVEEvict DEF S!Next
<1>3. QED
  BY <1>1, <1>2

\* so it always holds.
LEMMA AlwaysSIEVEInv ==
  ASSUME S!SIEVEAssumption
  PROVE  S!Spec => []SIEVEInv
<1>1. S!Init => SIEVEInv
  BY SIEVEInit
<1>2. QED
  BY <1>1, SIEVENext, PTL DEF S!Spec

\* SIEVE's nodes form one list, into which all its pointers lead, after any
\* sequence of calls.
THEOREM SIEVEAlwaysSound == S!Spec => []SIEVESound
<1>1. SIEVEInv => SIEVESound
  BY DEF SIEVEInv, S!SIEVESound, SIEVESound
<1>2. QED
  BY <1>1, PoliciesAssumption, AlwaysSIEVEInv, PTL

\* The hand of SIEVE::evict passes nothing by: of the keys never touched, it
\* takes the oldest.
LEMMA UntouchedEvictedInOrder ==
  ASSUME S!SIEVEAssumption
  PROVE  S!Spec => S!UntouchedInOrder
<1> DEFINE A == \A gone \in S!Live \ S!Live' :
                   (S!evict /\ gone \notin touched) =>
                      \A kept \in S!Live' \ touched : added[gone] < added[kept]
<1>1. ASSUME SIEVEInv, [S!Next]_S!vars PROVE A
  <2> SUFFICES ASSUME NEW gone \in S!Live \ S!Live', S!evict,
                      NEW kept \in S!Live' \ touched
               PROVE  added[gone] < added[kept]
    OBVIOUS
  <2>1. S!Victim \in S!Live /\ OlderTouched(S!Victim)
        /\ \E nd : SameLinks(nd) /\ S!Unlink(nd, S!Victim)
    BY <1>1, SIEVEEvict
  <2>2. S!Live' = S!Live \ {S!Victim}
    BY <1>1, <2>1, UnlinkIs
  <2>3. gone = S!Victim /\ kept \in S!Live \ {S!Victim}
    BY <2>2
  <2>4. ~(added[kept] < added[gone])
    BY <2>1, <2>3 DEF OlderTouched
  <2>5. /\ added[kept] \in Nat /\ added[gone] \in Nat
        /\ added[kept] # added[gone]
    BY <1>1, <2>3, SIEVETypes DEF SIEVEInv, AgesDiffer
  <2>6. QED
    BY <2>4, <2>5
<1>2. SIEVEInv /\ [S!Next]_S!vars => [A]_S!vars
  BY <1>1
<1>3. QED
  BY <1>2, AlwaysSIEVEInv, PTL DEF S!Spec, S!UntouchedInOrder

\* Every call on SIEVE is a call the EvictionPolicy interface allows: a touch
\* is none, add and remove are its Add and Remove, and evict gives up some key.
LEMMA SIEVEImplementsPolicy ==
  ASSUME S!SIEVEAssumption
  PROVE  S!Spec => S!ImplementsPolicy
<1> DEFINE sizes == [k \in S!Live |-> node[k].value]
<1>1. S!Init => S!Policy!PolicyInit
  BY DEF S!Init, S!Policy!PolicyInit, S!Live
<1>2. ASSUME SIEVEInv, [S!Next]_S!vars
      PROVE  [S!Policy!PolicyNext]_S!Policy!policyVars
  <2>1. ASSUME NEW key \in Keys, S!touch(key)
        PROVE  sizes' = sizes /\ sieve_memory_used' = sieve_memory_used
    BY <1>2, <2>1, SIEVETouch
  <2>2. ASSUME NEW key \in Keys, NEW size \in Sizes, S!addKnown(key, size)
        PROVE  S!Policy!Add(key, size)
    <3>1. /\ key \in S!Live /\ S!Live' = S!Live
          /\ node'[key].value = size
          /\ \A k \in S!Live \ {key} : node'[k].value = node[k].value
      BY <1>2, <2>2, SIEVEAddKnown
    <3>2. sieve_memory_used' = sieve_memory_used - (KeySize[key] + node[key].value)
                           + (KeySize[key] + size)
      BY <2>2 DEF S!addKnown, S!Charge
    <3>3. sizes' = [k \in DOMAIN sizes \cup {key} |-> IF k = key THEN size ELSE sizes[k]]
      BY <3>1
    <3>4. /\ KeySize[key] \in Nat /\ node[key].value \in Nat /\ size \in Nat
          /\ sieve_memory_used \in Nat
      BY <1>2, <3>1, SIEVETypes DEF SIEVEInv, S!SIEVEAssumption
    <3>5. sieve_memory_used' = sieve_memory_used - (KeySize[key] + sizes[key]) + KeySize[key] + size
      BY <3>1, <3>2, <3>4
    <3>6. QED
      BY <3>1, <3>3, <3>5 DEF S!Policy!Add
  <2>3. ASSUME NEW key \in Keys, NEW size \in Sizes, S!addNew(key, size)
        PROVE  S!Policy!Add(key, size)
    <3>1. /\ key \notin S!Live /\ S!Live' = S!Live \cup {key}
          /\ node'[key].value = size
          /\ \A k \in S!Live : node'[k].value = node[k].value
      BY <1>2, <2>3, SIEVEAddNew
    <3>2. sieve_memory_used' = sieve_memory_used + (KeySize[key] + size)
      BY <2>3 DEF S!addNew, S!Charge
    <3>3. sizes' = [k \in DOMAIN sizes \cup {key} |-> IF k = key THEN size ELSE sizes[k]]
      BY <3>1
    <3>4. KeySize[key] \in Nat /\ size \in Nat /\ sieve_memory_used \in Nat
      BY <1>2, SIEVETypes DEF SIEVEInv, S!SIEVEAssumption
    <3>5. sieve_memory_used' = sieve_memory_used + KeySize[key] + size
      BY <3>2, <3>4
    <3>6. QED
      BY <3>1, <3>3, <3>5 DEF S!Policy!Add
  <2>4. ASSUME NEW key \in S!Live, NEW nd, SameLinks(nd), S!Unlink(nd, key)
        PROVE  S!Policy!Forget(key)
    <3>1. /\ S!Live' = S!Live \ {key}
          /\ \A k \in S!Live' : node'[k].value = node[k].value
          /\ sieve_memory_used' = sieve_memory_used - (KeySize[key] + node[key].value)
      BY <1>2, <2>4, UnlinkIs
    <3>2. sizes' = [k \in DOMAIN sizes \ {key} |-> sizes[k]]
      BY <3>1
    <3>3. QED
      BY <3>1, <3>2 DEF S!Policy!Forget
  <2>5. ASSUME NEW key \in Keys, S!remove(key)
        PROVE  S!Policy!Remove(key)
    BY <1>2, <2>4, <2>5, SIEVERemove DEF S!Policy!Remove
  <2>6. CASE S!evict
    BY <1>2, <2>4, <2>6, SIEVEEvict DEF S!Policy!PolicyNext, S!Policy!Evict
  <2>7. CASE UNCHANGED S!vars
    BY <2>7 DEF S!vars, S!list, S!Policy!policyVars, S!Live
  <2>8. CASE S!Next
    <3>1. CASE \E key \in Keys : S!touch(key)
      BY <2>1, <3>1 DEF S!Policy!policyVars
    <3>2. CASE \E key \in Keys : S!remove(key)
      BY <2>5, <3>2 DEF S!Policy!PolicyNext
    <3>3. CASE \E key \in Keys, size \in Sizes : S!addKnown(key, size) \/ S!addNew(key, size)
      BY <2>2, <2>3, <3>3 DEF S!Policy!PolicyNext
    <3>4. QED
      BY <2>6, <2>8, <3>1, <3>2, <3>3 DEF S!Next
  <2>9. QED
    BY <1>2, <2>7, <2>8
<1>3. SIEVEInv /\ [S!Next]_S!vars => [S!Policy!PolicyNext]_S!Policy!policyVars
  BY <1>2
<1>4. QED
  BY <1>1, <1>3, AlwaysSIEVEInv, PTL
     DEF S!Spec, S!ImplementsPolicy, S!Policy!PolicySpec

\* SIEVE is an EvictionPolicy, and of the keys never touched its evict() takes
\* the oldest.
THEOREM SIEVEAlwaysEvicts == S!Spec => SIEVEEvicts
BY PoliciesAssumption, UntouchedEvictedInOrder, SIEVEImplementsPolicy
   DEF SIEVEEvicts
=============================================================================
