------------------------------- MODULE SIEVE -------------------------------
(***************************************************************************)
(* The SIEVE eviction policy driven by every sequence of calls its owner   *)
(* may make.  A node is known by its key: index_ maps a key to its one     *)
(* live node, and node holds the live ones.  prev leads to the head, where *)
(* keys are added; the hand moves that way too.                            *)
(***************************************************************************)
EXTENDS Integers, FiniteSets, Functions

CONSTANTS
  Keys,
  KeySize,   \* key.size() of each key
  Sizes,     \* the sizes add() is called with
  nullptr,
  MaxCalls   \* bound on the number of calls

\* What is assumed of the constants.
SIEVEAssumption ==
  /\ KeySize \in [Keys -> Nat] /\ Sizes \subseteq Nat /\ MaxCalls \in Nat
  /\ nullptr \notin Keys

VARIABLES
  node,              \* the nodes that index_ maps to
  head, tail, hand,
  memory_used,
  added,             \* history: the call that added each key
  touched,           \* history: the keys touched since they were added
  calls              \* history: the number of calls so far

list == <<node, head, tail, hand>>
vars == <<list, memory_used, added, touched, calls>>

Charge(key, size) == KeySize[key] + size

Call == calls < MaxCalls /\ calls' = calls + 1

\* The nodes nd once the ones in `set' have the value v in field prev, next or
\* visited.
SetPrev(nd, set, v) ==
  [k \in DOMAIN nd |-> IF k \in set THEN [nd[k] EXCEPT !.prev = v] ELSE nd[k]]
SetNext(nd, set, v) ==
  [k \in DOMAIN nd |-> IF k \in set THEN [nd[k] EXCEPT !.next = v] ELSE nd[k]]
Unvisit(nd, set) ==
  [k \in DOMAIN nd |->
     IF k \in set THEN [nd[k] EXCEPT !.visited = FALSE] ELSE nd[k]]
-----------------------------------------------------------------------------
touch(key) ==
  /\ Call
  /\ key \in DOMAIN node
  /\ node' = [node EXCEPT ![key].visited = TRUE]
  /\ touched' = touched \cup {key}
  /\ UNCHANGED <<head, tail, hand, memory_used, added>>

\* add of a known key that is not charged for its new size.
addKnownUncharged(key, size) ==
  /\ Call
  /\ key \in DOMAIN node
  /\ memory_used' = memory_used - Charge(key, node[key].value) + KeySize[key]
  /\ node' = [node EXCEPT ![key].value = size]
  /\ UNCHANGED <<head, tail, hand, added, touched>>

\* add of a known key: a new size, and no visit.
addKnown(key, size) ==
  /\ Call
  /\ key \in DOMAIN node
  /\ memory_used' = memory_used - Charge(key, node[key].value) + Charge(key, size)
  /\ node' = [node EXCEPT ![key].value = size]
  /\ UNCHANGED <<head, tail, hand, added, touched>>

\* The nodes once a new one is pushed at the head; without head_->prev = n.
PushedOneWay(key, size) ==
  [k \in DOMAIN node \cup {key} |->
     IF k = key THEN [value |-> size, visited |-> FALSE, prev |-> nullptr,
                      next |-> head]
     ELSE node[k]]
Pushed(key, size) ==
  [k \in DOMAIN node \cup {key} |->
     IF k = key THEN [value |-> size, visited |-> FALSE, prev |-> nullptr,
                      next |-> head]
     ELSE SetPrev(node, {head}, key)[k]]

addNew(key, size) ==
  /\ Call
  /\ key \notin DOMAIN node
  /\ node' = Pushed(key, size)
  /\ head' = key
  /\ tail' = IF tail = nullptr THEN key ELSE tail
  /\ memory_used' = memory_used + Charge(key, size)
  /\ added' = [added EXCEPT ![key] = calls']
  /\ touched' = touched \ {key}
  /\ UNCHANGED hand

\* n is taken out of the nodes nd and deleted.
Unlink(nd, n) ==
  /\ node' = Restrict(SetPrev(SetNext(nd, {nd[n].prev}, nd[n].next),
                              {nd[n].next}, nd[n].prev),
                      DOMAIN nd \ {n})
  /\ head' = IF nd[n].prev = nullptr THEN nd[n].next ELSE head
  /\ tail' = IF nd[n].next = nullptr THEN nd[n].prev ELSE tail
  /\ memory_used' = memory_used - Charge(n, nd[n].value)
  /\ UNCHANGED <<added, touched>>

\* The hand once a key is removed; left where it was.
HandStays(key) == hand
HandAfter(key) == IF hand = key THEN node[key].prev ELSE hand

remove(key) ==
  /\ Call
  /\ key \in DOMAIN node
  /\ Unlink(node, key)
  /\ hand' = HandAfter(key)

\* The nodes the loop of evict() comes to, the hand's or the tail first, and
\* after the head nullptr; how many of them it passes; and the victim.
Walk ==
  LET at[i \in 0 .. Cardinality(DOMAIN node)] ==
        IF i = 0 THEN IF hand # nullptr THEN hand ELSE tail
        ELSE IF at[i - 1] = nullptr THEN nullptr ELSE node[at[i - 1]].prev
  IN  at
Passed ==
  CHOOSE n \in DOMAIN Walk :
     /\ Walk[n] = nullptr \/ ~node[Walk[n]].visited
     /\ \A i \in 0 .. n - 1 : Walk[i] # nullptr /\ node[Walk[i]].visited
Victim == IF Walk[Passed] = nullptr THEN tail ELSE Walk[Passed]

\* The hand after an eviction: one node further than it should be.
NextHandSkips ==
  LET prev == node[Victim].prev
  IN  IF prev = nullptr THEN nullptr ELSE node[prev].prev
NextHand == node[Victim].prev

evict ==
  /\ Call
  /\ tail # nullptr
  /\ hand' = NextHand
  /\ Unlink(Unvisit(node, {Walk[i] : i \in 0 .. Passed - 1}), Victim)

Init ==
  /\ node = [k \in {} |-> 0]
  /\ head = nullptr /\ tail = nullptr /\ hand = nullptr
  /\ memory_used = 0
  /\ added = [k \in Keys |-> 0] /\ touched = {} /\ calls = 0

\* A call that finds no node to change does nothing, and is left out.
Next ==
  \/ \E key \in Keys : touch(key) \/ remove(key)
  \/ \E key \in Keys, size \in Sizes : addKnown(key, size) \/ addNew(key, size)
  \/ evict

Spec == Init /\ [][Next]_vars
-----------------------------------------------------------------------------
Live == DOMAIN node
Node == [value : Nat, visited : BOOLEAN,
         prev : Keys \cup {nullptr}, next : Keys \cup {nullptr}]

TypeOK ==
  /\ Live \subseteq Keys
  /\ \A k \in Live : node[k] \in Node
  /\ {head, tail, hand} \subseteq Keys \cup {nullptr}
  /\ memory_used \in Nat
  /\ added \in [Keys -> Nat] /\ touched \subseteq Keys
  /\ calls \in 0 .. MaxCalls

\* No pointer of SIEVE dangles: head_, tail_, hand_ and the links of a live
\* node lead to live nodes.
NothingDangles ==
  /\ {head, tail, hand} \subseteq Live \cup {nullptr}
  /\ \A k \in Live : {node[k].prev, node[k].next} \subseteq Live \cup {nullptr}

\* The nodes of SIEVE form one list from head_ to tail_, newest first, that can
\* be walked either way: touches never reorder it.  An age that falls along
\* next, and one end each way, leave no room for a second list or a cycle.
OneList ==
  /\ (head = nullptr) = (Live = {}) /\ (tail = nullptr) = (Live = {})
  /\ \A k \in Live :
        /\ (node[k].prev = nullptr) = (k = head)
        /\ (node[k].next = nullptr) = (k = tail)
  /\ \A k, m \in Live :
        /\ (node[k].next = m) = (node[m].prev = k)
        /\ node[k].next = m => added[m] < added[k]

\* SIEVE's nodes form one list, into which all its pointers lead, after any
\* sequence of calls.
SIEVESound == TypeOK /\ NothingDangles /\ OneList

\* The hand passes nothing by: of the keys never touched, SIEVE::evict takes
\* the oldest.
UntouchedInOrder ==
  [][\A gone \in Live \ Live' :
        (evict /\ gone \notin touched) =>
           \A kept \in Live' \ touched : added[gone] < added[kept]]_vars

\* Every call on SIEVE is a call the EvictionPolicy interface (policy.h)
\* allows.
Policy ==
  INSTANCE EvictionPolicy WITH sizes <- [k \in Live |-> node[k].value]
ImplementsPolicy == Policy!PolicySpec
=============================================================================
