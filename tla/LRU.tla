-------------------------------- MODULE LRU --------------------------------
(***************************************************************************)
(* The LRU eviction policy as a data structure: the state of one LRU       *)
(* object and its five methods, as operators from state to state.          *)
(*                                                                         *)
(* The object owns a doubly linked list of (key, size) entries, the most   *)
(* recently used at the front, an index from a key to the list node that   *)
(* holds it, and a running byte count.  The list is a sequence whose first *)
(* element is the front.  The index is the set of the keys it maps: the    *)
(* node it maps a key to is the front-most entry of that key, because only *)
(* a key the index does not know is pushed to the front.                   *)
(***************************************************************************)
EXTENDS Integers, Sequences

CONSTANTS
  Keys,      \* the keys clients use
  KeySize,   \* key.size() of each key
  EmptyKey   \* std::string{}: what evict() returns when it has no victim

ASSUME KeySizeAssumption == KeySize \in [Keys -> Nat]

Entry == [key : Keys, size : Nat]

EmptyLRU == [list |-> <<>>, index |-> {}, memory_used |-> 0]

\* What one entry adds to memory_used_: the key's bytes and the size given.
Charge(e) == KeySize[e.key] + e.size

\* index_.find(key)->second: the list node of an indexed key.
Node(list, key) ==
  CHOOSE i \in DOMAIN list :
     /\ list[i].key = key
     /\ \A j \in DOMAIN list : j < i => list[j].key # key

\* list_.splice(list_.begin(), list_, it): node i moves to the front.
MoveToFront(list, i) ==
  [j \in 1 .. Len(list) |->
     IF j = 1 THEN list[i] ELSE IF j <= i THEN list[j - 1] ELSE list[j]]

\* list_.push_front(e)
PushFront(list, e) ==
  [j \in 1 .. Len(list) + 1 |-> IF j = 1 THEN e ELSE list[j - 1]]

\* list_.erase(it)
EraseNode(list, i) ==
  [j \in 1 .. Len(list) - 1 |-> IF j < i THEN list[j] ELSE list[j + 1]]
-----------------------------------------------------------------------------
(***************************************************************************)
(* Each method is preceded by the slips that the properties are shown to   *)
(* catch: the same method with one thing forgotten.                        *)
(***************************************************************************)
\* touch without the splice.
touchInPlace(lru, key) == lru

\* touch(key): a hit moves the key to the front.
touch(lru, key) ==
  IF key \in lru.index
  THEN [lru EXCEPT !.list = MoveToFront(@, Node(@, key))]
  ELSE lru

\* add that charges a known key for its name and not for its new size.
addForgetsSize(lru, key, size) ==
  LET e == [key |-> key, size |-> size]
  IN  IF key \in lru.index
      THEN LET i == Node(lru.list, key)
           IN  [lru EXCEPT
                  !.list = [MoveToFront(@, i) EXCEPT ![1] = e],
                  !.memory_used = @ - Charge(lru.list[i]) + KeySize[key]]
      ELSE [list        |-> PushFront(lru.list, e),
            index       |-> lru.index \cup {key},
            memory_used |-> lru.memory_used + Charge(e)]

\* add that leaves a known key where it is on the list.
addInPlace(lru, key, size) ==
  LET e == [key |-> key, size |-> size]
  IN  IF key \in lru.index
      THEN LET i == Node(lru.list, key)
           IN  [lru EXCEPT
                  !.list = [@ EXCEPT ![i] = e],
                  !.memory_used = @ - Charge(lru.list[i]) + Charge(e)]
      ELSE [list        |-> PushFront(lru.list, e),
            index       |-> lru.index \cup {key},
            memory_used |-> lru.memory_used + Charge(e)]

\* add(key, size): a known key moves to the front with its new size, an
\* unknown one is pushed there.
add(lru, key, size) ==
  LET e == [key |-> key, size |-> size]
  IN  IF key \in lru.index
      THEN LET i == Node(lru.list, key)
           IN  [list        |-> [MoveToFront(lru.list, i) EXCEPT ![1] = e],
                index       |-> lru.index,
                memory_used |-> lru.memory_used - Charge(lru.list[i])
                                  + Charge(e)]
      ELSE [list        |-> PushFront(lru.list, e),
            index       |-> lru.index \cup {key},
            memory_used |-> lru.memory_used + Charge(e)]

\* add(key, size) of an unknown key when index_.emplace throws bad_alloc:
\* the entry is on the list, unindexed and uncharged.
addThrows(lru, key, size) ==
  [lru EXCEPT !.list = PushFront(@, [key |-> key, size |-> size])]

\* remove that does not give the bytes back.
removeUncharged(lru, key) ==
  IF key \in lru.index
  THEN [list        |-> EraseNode(lru.list, Node(lru.list, key)),
        index       |-> lru.index \ {key},
        memory_used |-> lru.memory_used]
  ELSE lru

\* remove(key)
remove(lru, key) ==
  IF key \in lru.index
  THEN LET i == Node(lru.list, key)
       IN  [list        |-> EraseNode(lru.list, i),
            index       |-> lru.index \ {key},
            memory_used |-> lru.memory_used - Charge(lru.list[i])]
  ELSE lru

\* The key evict() returns: the back of the list.
victim(lru) ==
  IF lru.list = <<>> THEN EmptyKey ELSE lru.list[Len(lru.list)].key

\* evict that leaves the victim in the index.
evictKeepsIndex(lru) ==
  IF lru.list = <<>>
  THEN lru
  ELSE LET n == Len(lru.list)
       IN  [lru EXCEPT !.list = EraseNode(@, n),
                       !.memory_used = @ - Charge(lru.list[n])]

\* evict that takes the front of the list.
evictFront(lru) ==
  IF lru.list = <<>>
  THEN lru
  ELSE [list        |-> EraseNode(lru.list, 1),
        index       |-> lru.index \ {lru.list[1].key},
        memory_used |-> lru.memory_used - Charge(lru.list[1])]

\* The state evict() leaves.
evict(lru) ==
  IF lru.list = <<>>
  THEN lru
  ELSE LET n == Len(lru.list)
       IN  [list        |-> EraseNode(lru.list, n),
            index       |-> lru.index \ {lru.list[n].key},
            memory_used |-> lru.memory_used - Charge(lru.list[n])]
-----------------------------------------------------------------------------
\* The keys on a list, and the size recorded for an indexed key.
KeysOf(list) == {list[i].key : i \in DOMAIN list}
SizeOf(lru, key) == lru.list[Node(lru.list, key)].size

\* The bytes of the first n entries, and of the whole list.
BytesUpTo(list) ==
  LET up[n \in 0 .. Len(list)] ==
        IF n = 0 THEN 0 ELSE up[n - 1] + Charge(list[n])
  IN  up
TotalBytes(list) == BytesUpTo(list)[Len(list)]

\* What makes an LRU object sound: no key is listed twice, the index knows
\* exactly the listed keys, and memory_used_ is the bytes of the list.
NoKeyTwice(list) ==
  \A i, j \in DOMAIN list : list[i].key = list[j].key => i = j
IndexMatches(lru) == lru.index = KeysOf(lru.list)
BytesExact(lru) == lru.memory_used = TotalBytes(lru.list)
Sound(lru) ==
  /\ NoKeyTwice(lru.list)
  /\ IndexMatches(lru)
  /\ BytesExact(lru)
=============================================================================
