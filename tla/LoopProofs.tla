----------------------------- MODULE LoopProofs -----------------------------
(***************************************************************************)
(* The safety theorems about the two loops and the shim that they share,   *)
(* for any number of descriptors, connections and events at once, and      *)
(* about the admin loop, for any clients, any requests and any limits.     *)
(*                                                                         *)
(* A loop watches and polls its own connections only, and only it closes   *)
(* them: an event that it holds stays true of its descriptor, whatever the *)
(* other loop closes and accepts, because the descriptor is in use until   *)
(* the loop itself has seen to the event.                                  *)
(*                                                                         *)
(* The admin loop receives and answers for one connection at a time, from  *)
(* an empty request on, and closes it; so what it has received is always   *)
(* the beginning of what that client sent.                                 *)
(***************************************************************************)
EXTENDS TwoLoops, TLAPS, FiniteSetTheorems, SequenceTheorems,
        WellFoundedInduction

\* A loop's connections, what it may watch, and that it has begun to.
Mine(l) == {fd \in Fds : conn[fd] # Closed /\ owner[fd] = l}
Watched(l) == Mine(l) \cup {listen_fd_[l]}
Started(l) == at[l] \notin {"none", "numbered"}

\* Each loop's instance is its own, and is in the table once it is registered.
Numbers ==
  /\ next_fd = Cardinality({l \in Loops : at[l] # "none"})
  /\ \A l \in Loops : /\ at[l] # "none" => epfd[l] > 0
                      /\ at[l] = "numbered" => epfd[l] \notin DOMAIN instances
                      /\ Started(l) => epfd[l] \in DOMAIN instances
  /\ \A l, m \in Loops : at[l] # "none" /\ epfd[l] = epfd[m] => l = m

\* What a loop watches is its own,
WatchesOwn ==
  \A l \in Loops : Started(l) => DOMAIN Watches(l) \subseteq Watched(l)

\* and so is what it polls; it polls only in epoll_wait.
PollsOwn ==
  /\ DOMAIN pfds = Loops
  /\ \A l \in Loops : /\ DOMAIN pfds[l] \subseteq Watched(l)
                      /\ at[l] # "polling" => DOMAIN pfds[l] = {}

\* Its events are of its own descriptors, one of each, and say which connection
\* is under them.
EventsFit ==
  /\ DOMAIN events = Loops
  /\ \A l \in Loops :
       /\ at[l] # "serving" => events[l] = {}
       /\ IsFiniteSet(events[l]) /\ Cardinality(events[l]) <= kMaxEvents
       /\ \A e \in events[l] : /\ e.on \in Watched(l)
                               /\ e.on \in Fds => e.conn = conn[e.on]
       /\ \A e, f \in events[l] : e.on = f.on => e = f

IInv == TypeOK /\ Numbers /\ WatchesOwn /\ PollsOwn /\ EventsFit
-----------------------------------------------------------------------------
\* A non-empty set of naturals has a least element.
LEMMA LeastNatural ==
  ASSUME NEW T \in SUBSET Nat, T # {}
  PROVE  \E n \in T : \A m \in T : n <= m
<1>1. IsWellFoundedOn(OpToRel(<, Nat), Nat)
  BY NatLessThanWellFounded
<1>2. PICK n \in T : \A m \in T : ~(<<m, n>> \in OpToRel(<, Nat))
  BY <1>1, WFMin
<1>3. \A m \in T : ~(m < n)
  BY <1>2 DEF OpToRel
<1>4. QED
  BY <1>3

\* A bounded one has a greatest, which is its Max.
LEMMA MaxIs ==
  ASSUME NEW c \in Nat, NEW T \in SUBSET (0 .. c), T # {}
  PROVE  Max(T) \in T
<1> DEFINE U == {n \in Nat : \E x \in T : n = c - x}
<1>1. PICK n \in U : \A m \in U : n <= m
  <2>1. U # {}
    <3>1. PICK x \in T : TRUE
      OBVIOUS
    <3>2. c - x \in U
      BY <3>1
    <3>3. QED
      BY <3>2
  <2>2. QED
    BY <2>1, LeastNatural
<1>2. PICK x \in T : n = c - x
  BY <1>1
<1>3. \A y \in T : x >= y
  <2>1. TAKE y \in T
  <2>2. c - y \in U
    OBVIOUS
  <2>3. QED
    BY <1>1, <1>2, <2>2
<1>4. QED
  BY <1>2, <1>3 DEF Max

\* The lesser of two numbers.
LEMMA MinIs ==
  ASSUME NEW m \in Nat, NEW n \in Nat
  PROVE  Min({m, n}) = IF m <= n THEN m ELSE n
<1> DEFINE least == IF m <= n THEN m ELSE n
<1>1. least \in {m, n} /\ \A y \in {m, n} : least <= y
  OBVIOUS
<1>2. \A x \in {m, n} : (\A y \in {m, n} : x <= y) => x = least
  OBVIOUS
<1>3. QED
  BY <1>1, <1>2 DEF Min

\* Some of a non-empty set are among its lowest.
LEMMA LowestSome ==
  ASSUME NEW S \in SUBSET Nat, S # {}, NEW n \in Nat \ {0}
  PROVE  Lowest(S, n) # {}
<1>1. PICK x \in S : \A y \in S : x <= y
  BY LeastNatural
<1>2. {y \in S : y < x} = {}
  <2>1. \A y \in S : y \in Nat /\ x \in Nat /\ ~(y < x)
    BY <1>1
  <2>2. QED
    BY <2>1
<1>3. Cardinality({y \in S : y < x}) = 0
  BY <1>2, FS_EmptySet
<1>4. QED
  BY <1>3 DEF Lowest

\* The listening sockets are not connections.
LEMMA Listening ==
  /\ Fds \subseteq Nat \ {0} /\ IsFiniteSet(Fds)
  /\ \A l \in Loops : listen_fd_[l] \in Nat \ Fds
<1>1. MaxFd \in Nat
  BY ShimAssumption
<1>2. IsFiniteSet(Fds)
  BY <1>1, FS_Interval DEF Fds
<1>3. QED
  BY <1>1, <1>2 DEF Fds, Loops, listen_fd_

\* What epoll_ctl does to a table.
LEMMA SetsIs ==
  ASSUME NEW l \in Loops, epfd[l] \in DOMAIN instances, NEW watches, Sets(l, watches)
  PROVE  /\ DOMAIN instances' = DOMAIN instances
         /\ DOMAIN (instances'[epfd[l]]) = DOMAIN watches \cup DOMAIN Watches(l)
         /\ \A n \in DOMAIN instances : n # epfd[l] => instances'[n] = instances[n]
BY DEF Sets, Watches, Assigned

\* EPOLL_CTL_DEL takes a descriptor out of one instance.
LEMMA DeletesIs ==
  ASSUME NEW l \in Loops, epfd[l] \in DOMAIN instances, NEW d, Deletes(l, d)
  PROVE  /\ DOMAIN instances' = DOMAIN instances
         /\ DOMAIN (instances'[epfd[l]]) = DOMAIN Watches(l) \ {d}
         /\ \A n \in DOMAIN instances : n # epfd[l] => instances'[n] = instances[n]
BY DEF Deletes, Watches, Restrict
-----------------------------------------------------------------------------
\* Nothing is watched at the start.
LEMMA InitIInv == Init => IInv
<1> SUFFICES ASSUME Init PROVE IInv
  OBVIOUS
<1>1. {l \in Loops : at[l] # "none"} = {}
  BY DEF Init
<1>2. Cardinality({}) = 0 /\ IsFiniteSet({})
  BY FS_EmptySet
<1>3. TypeOK
  BY ShimAssumption DEF Init, TypeOK, Closed, Fds, Loops
<1>4. Numbers
  BY <1>1, <1>2 DEF Init, Numbers, Started
<1>5. WatchesOwn /\ PollsOwn
  BY DEF Init, WatchesOwn, PollsOwn, Started
<1>6. EventsFit
  BY <1>2, ShimAssumption DEF Init, EventsFit
<1>7. QED
  BY <1>3, <1>4, <1>5, <1>6 DEF IInv

\* A loop takes a number that no other has,
LEMMA CreateStep ==
  ASSUME IInv, NEW l \in Loops, epoll_create1(l)
  PROVE  IInv'
<1> DEFINE Have == {m \in Loops : at[m] # "none"}
<1>1. /\ at[l] = "none" /\ at' = [at EXCEPT ![l] = "numbered"]
      /\ next_fd' = next_fd + 1 /\ epfd' = [epfd EXCEPT ![l] = next_fd']
      /\ UNCHANGED <<instances, pfds, events, conn, owner, state, queue, conns>>
  BY DEF epoll_create1, Goes, kernel
<1>2. TypeOK /\ Numbers /\ at \in [Loops -> {"none", "numbered", "calling", "polling",
                                             "serving"}]
  BY DEF IInv, TypeOK
<1>3. {m \in Loops : at'[m] # "none"} = Have \cup {l} /\ l \notin Have
  BY <1>1, <1>2
<1>4. IsFiniteSet(Loops) /\ Cardinality(Loops) = 2
  <2>1. IsFiniteSet({"server"}) /\ Cardinality({"server"}) = 1
    BY FS_Singleton
  <2>2. Loops = {"server"} \cup {"admin"} /\ "admin" \notin {"server"}
    BY DEF Loops
  <2>3. QED
    BY <2>1, <2>2, FS_AddElement
<1>5. Have \cup {l} \in SUBSET Loops /\ Have \in SUBSET Loops
  OBVIOUS
<1>6. IsFiniteSet(Have)
  BY <1>4, <1>5, FS_Subset
<1>7. Cardinality(Have \cup {l}) = Cardinality(Have) + 1
  BY <1>3, <1>6, FS_AddElement
<1>8. Cardinality(Have \cup {l}) <= 2
  BY <1>4, <1>5, FS_Subset
<1>9. next_fd' = Cardinality({m \in Loops : at'[m] # "none"}) /\ next_fd' \in 1 .. 2
  <2>1. next_fd = Cardinality(Have) /\ next_fd \in Nat
    BY <1>2 DEF Numbers, TypeOK
  <2>2. next_fd' = Cardinality(Have \cup {l}) /\ next_fd' \in 1 .. 2
    BY <1>1, <1>7, <1>8, <2>1
  <2>3. QED
    BY <1>3, <2>2
<1>10. TypeOK'
  <2>1. /\ epfd' \in [Loops -> 0 .. next_fd'] /\ DOMAIN instances \subseteq 1 .. next_fd'
        /\ at' \in [Loops -> {"none", "numbered", "calling", "polling", "serving"}]
    BY <1>1, <1>2, <1>9 DEF TypeOK
  <2>2. QED
    BY <1>1, <1>2, <1>9, <2>1 DEF TypeOK
<1>11. Numbers'
  <2>1. epfd \in [Loops -> 0 .. next_fd] /\ DOMAIN instances \subseteq 1 .. next_fd
        /\ next_fd \in Nat
    BY <1>2 DEF TypeOK
  <2>2. next_fd' \notin DOMAIN instances /\ \A m \in Loops : epfd[m] # next_fd'
    BY <1>1, <2>1
  <2>3. /\ at' \in [Loops -> {"none", "numbered", "calling", "polling", "serving"}]
        /\ \A m \in Loops : /\ at'[m] = IF m = l THEN "numbered" ELSE at[m]
                            /\ epfd'[m] = IF m = l THEN next_fd' ELSE epfd[m]
    BY <1>1, <1>2, <2>1
  <2>4. \A m \in Loops : /\ at'[m] # "none" => epfd'[m] > 0
                         /\ at'[m] = "numbered" => epfd'[m] \notin DOMAIN instances
                         /\ Started(m)' => epfd'[m] \in DOMAIN instances
    BY <1>2, <1>9, <2>2, <2>3 DEF Numbers, Started
  <2>5. \A m, k \in Loops : at'[m] # "none" /\ epfd'[m] = epfd'[k] => m = k
    BY <1>2, <2>2, <2>3 DEF Numbers
  <2>6. QED
    BY <1>1, <1>9, <2>4, <2>5 DEF Numbers
<1>12. WatchesOwn'
  BY <1>1, <1>2 DEF IInv, WatchesOwn, Watches, Watched, Mine, Started, TypeOK
<1>13. PollsOwn' /\ EventsFit'
  BY <1>1, <1>2 DEF IInv, PollsOwn, EventsFit, Watched, Mine
<1>14. QED
  BY <1>10, <1>11, <1>12, <1>13 DEF IInv

\* and enters a table under it.
LEMMA RegisterStep ==
  ASSUME IInv, NEW l \in Loops, Registers(l)
  PROVE  IInv'
<1>1. /\ at[l] = "numbered" /\ at' = [at EXCEPT ![l] = "calling"]
      /\ instances' = Assigned(instances, Entry(epfd[l], Entry(listen_fd_[l], {"in"})))
      /\ UNCHANGED <<next_fd, epfd, pfds, events, conn, owner, state, queue, conns>>
  BY DEF Registers, Goes, kernel
<1>2. TypeOK /\ Numbers /\ at \in [Loops -> {"none", "numbered", "calling", "polling",
                                             "serving"}]
  BY DEF IInv, TypeOK
<1>3. /\ DOMAIN instances' = DOMAIN instances \cup {epfd[l]}
      /\ instances'[epfd[l]] = Entry(listen_fd_[l], {"in"})
      /\ \A n \in DOMAIN instances : n # epfd[l] => instances'[n] = instances[n]
  BY <1>1 DEF Assigned, Entry
<1>4. epfd[l] \in 1 .. next_fd
  BY <1>1, <1>2 DEF Numbers, TypeOK
<1>5. TypeOK'
  BY <1>1, <1>2, <1>3, <1>4 DEF TypeOK
<1>6. Numbers'
  <2>1. {m \in Loops : at'[m] # "none"} = {m \in Loops : at[m] # "none"}
    BY <1>1, <1>2
  <2>2. QED
    BY <1>1, <1>2, <1>3, <2>1 DEF Numbers, Started
<1>7. WatchesOwn'
  <2>1. SUFFICES ASSUME NEW m \in Loops, Started(m)'
                 PROVE  DOMAIN (instances'[epfd[m]]) \subseteq Watched(m)
    BY <1>1 DEF WatchesOwn, Watches, Watched, Mine
  <2>2. CASE m = l
    BY <1>3, <2>2 DEF Entry, Watched
  <2>3. CASE m # l
    <3>1. Started(m) /\ epfd[m] # epfd[l] /\ epfd[m] \in DOMAIN instances
      BY <1>1, <1>2, <2>1, <2>3 DEF Started, Numbers
    <3>2. QED
      BY <1>3, <3>1 DEF IInv, WatchesOwn, Watches
  <2>4. QED
    BY <2>2, <2>3
<1>8. PollsOwn' /\ EventsFit'
  BY <1>1, <1>2 DEF IInv, PollsOwn, EventsFit, Watched, Mine
<1>9. QED
  BY <1>5, <1>6, <1>7, <1>8 DEF IInv

\* epoll_wait copies the watches.
LEMMA CopyStep ==
  ASSUME IInv, NEW l \in Loops, Copies(l)
  PROVE  IInv'
<1>1. /\ at[l] = "calling" /\ at' = [at EXCEPT ![l] = "polling"]
      /\ pfds' = [pfds EXCEPT ![l] = Watches(l)]
      /\ UNCHANGED <<next_fd, instances, epfd, events, conn, owner, state, queue, conns>>
  BY DEF Copies, Goes, kernel
<1>2. TypeOK /\ Numbers /\ at \in [Loops -> {"none", "numbered", "calling", "polling",
                                             "serving"}]
  BY DEF IInv, TypeOK
<1>3. DOMAIN Watches(l) \subseteq Watched(l) /\ Watched(l) \subseteq Fds \cup {listen_fd_[l]}
  BY <1>1 DEF IInv, WatchesOwn, Started, Watched, Mine
<1>4. /\ DOMAIN pfds' = Loops
      /\ \A m \in Loops : pfds'[m] = IF m = l THEN Watches(l) ELSE pfds[m]
  BY <1>1 DEF IInv, PollsOwn
<1>5. TypeOK'
  BY <1>1, <1>2, <1>3, <1>4 DEF TypeOK
<1>6. Numbers'
  <2>1. {m \in Loops : at'[m] # "none"} = {m \in Loops : at[m] # "none"}
    BY <1>1, <1>2
  <2>2. QED
    BY <1>1, <1>2, <2>1 DEF Numbers, Started
<1>7. WatchesOwn'
  BY <1>1, <1>2 DEF IInv, WatchesOwn, Watches, Watched, Mine, Started
<1>8. PollsOwn'
  BY <1>1, <1>2, <1>3, <1>4 DEF IInv, PollsOwn, Watched, Mine
<1>9. EventsFit'
  BY <1>1, <1>2 DEF IInv, EventsFit, Watched, Mine
<1>10. QED
  BY <1>5, <1>6, <1>7, <1>8, <1>9 DEF IInv

\* epoll_wait returns at most one event of each of the watches, no more than fit.
LEMMA WaitStep ==
  ASSUME IInv, NEW l \in Loops, epoll_wait(l)
  PROVE  IInv'
<1> DEFINE polled == {d \in DOMAIN pfds[l] : Polled(l, d) # {}}
           ready == {d \in polled : Revents(l, d) # {}}
           ev(d) == [on |-> d, revents |-> Revents(l, d),
                     conn |-> IF d \in Fds THEN conn[d] ELSE Closed]
<1>1. PICK first \in kSubset(Count(Cardinality(ready)), ready) :
        /\ at[l] = "polling" /\ at' = [at EXCEPT ![l] = "serving"]
        /\ events' = [events EXCEPT ![l] = {ev(d) : d \in first}]
        /\ pfds' = [pfds EXCEPT ![l] = [d \in {} |-> {}]]
        /\ UNCHANGED <<next_fd, instances, epfd, conn, owner, state, queue, conns>>
  BY DEF epoll_wait, Goes, kernel
<1>2. TypeOK /\ Numbers /\ at \in [Loops -> {"none", "numbered", "calling", "polling",
                                             "serving"}]
  BY DEF IInv, TypeOK
<1>3. /\ first \subseteq ready /\ ready \subseteq Watched(l)
      /\ Cardinality(first) = Count(Cardinality(ready))
  BY DEF IInv, PollsOwn, kSubset
<1>4. IsFiniteSet(ready) /\ IsFiniteSet(first) /\ Cardinality(ready) \in Nat
  <2>1. IsFiniteSet(Fds \cup {listen_fd_[l]})
    BY Listening, FS_AddElement
  <2>2. ready \in SUBSET (Fds \cup {listen_fd_[l]})
    BY <1>3 DEF Watched, Mine
  <2>3. IsFiniteSet(ready)
    BY <2>1, <2>2, FS_Subset
  <2>4. QED
    BY <1>3, <2>3, FS_Subset, FS_CardinalityType
<1>5. Cardinality(first) <= kMaxEvents
  <2> DEFINE n == Cardinality(ready)
  <2>1. n \in Nat /\ kMaxEvents \in Nat
    BY <1>4, ShimAssumption
  <2> HIDE DEF n
  <2>2. Count(n) <= kMaxEvents
    BY <2>1, MinIs DEF Count
  <2>3. Cardinality(first) = Count(n)
    BY <1>3 DEF n
  <2>4. QED
    BY <2>2, <2>3
<1> DEFINE new == {ev(d) : d \in first}
<1>6. IsFiniteSet(new) /\ Cardinality(new) <= Cardinality(first)
                       /\ Cardinality(new) \in Nat /\ Cardinality(first) \in Nat
  <2> DEFINE f == [d \in first |-> ev(d)]
  <2>1. f \in Surjection(first, new)
    BY DEF Surjection
  <2>2. IsFiniteSet(new) /\ Cardinality(new) <= Cardinality(first)
    BY <1>4, <2>1, FS_Surjection
  <2>3. QED
    BY <1>4, <2>2, FS_CardinalityType
<1>7. /\ \A e \in new : /\ e.on \in Watched(l) /\ e.revents # {}
                        /\ e.on \in Fds => e.conn = conn[e.on]
      /\ \A e, f \in new : e.on = f.on => e = f
  <2>1. \A d \in first : d \in Watched(l) /\ Revents(l, d) # {}
    BY <1>3
  <2>2. \A e \in new : \E d \in first : e = ev(d) /\ e.on = d
    OBVIOUS
  <2>3. QED
    BY <2>1, <2>2
<1>8. Cardinality(new) <= kMaxEvents
  BY <1>5, <1>6, ShimAssumption
<1> HIDE DEF new, ready
<1>9. \A m \in Loops : /\ events'[m] = IF m = l THEN new ELSE events[m]
                       /\ DOMAIN pfds'[m] = IF m = l THEN {} ELSE DOMAIN pfds[m]
                       /\ at'[m] = IF m = l THEN "serving" ELSE at[m]
  BY <1>1, <1>2 DEF IInv, PollsOwn, EventsFit, new
<1>10. DOMAIN pfds' = Loops /\ DOMAIN events' = Loops
  BY <1>1 DEF IInv, PollsOwn, EventsFit
<1>11. TypeOK'
  <2>1. at' \in [Loops -> {"none", "numbered", "calling", "polling", "serving"}]
    BY <1>1, <1>2
  <2>2. \A m \in Loops : /\ DOMAIN pfds'[m] \subseteq Fds \cup {listen_fd_[m]}
                         /\ \A e \in events'[m] : e.revents # {}
    BY <1>2, <1>7, <1>9 DEF TypeOK
  <2>3. QED
    BY <1>1, <1>2, <2>1, <2>2 DEF TypeOK
<1>12. Numbers'
  <2>1. {m \in Loops : at'[m] # "none"} = {m \in Loops : at[m] # "none"}
    BY <1>1, <1>9
  <2>2. QED
    BY <1>1, <1>2, <2>1 DEF Numbers, Started
<1>13. WatchesOwn'
  BY <1>1, <1>2 DEF IInv, WatchesOwn, Watches, Watched, Mine, Started
<1>14. PollsOwn'
  BY <1>1, <1>9, <1>10 DEF IInv, PollsOwn, Watched, Mine
<1>15. EventsFit'
  <2>1. conn' = conn /\ \A m \in Loops : Watched(m)' = Watched(m)
    BY <1>1 DEF Watched, Mine
  <2>2. ASSUME NEW m \in Loops
        PROVE  /\ at'[m] # "serving" => events'[m] = {}
               /\ IsFiniteSet(events'[m]) /\ Cardinality(events'[m]) <= kMaxEvents
               /\ \A e \in events'[m] : /\ e.on \in Watched(m)'
                                        /\ e.on \in Fds => e.conn = conn'[e.on]
               /\ \A e, f \in events'[m] : e.on = f.on => e = f
    <3>1. CASE m = l
      BY <1>6, <1>7, <1>8, <1>9, <2>1, <3>1
    <3>2. CASE m # l
      BY <1>9, <2>1, <3>2 DEF IInv, EventsFit
    <3>3. QED
      BY <3>1, <3>2
  <2>3. QED
    BY <1>10, <2>2, Zenon DEF EventsFit
<1>16. QED
  BY <1>11, <1>12, <1>13, <1>14, <1>15 DEF IInv

\* A loop that has an event of one of its connections is the one that may close it.
LEMMA Serving ==
  ASSUME IInv, NEW l \in Loops, NEW e \in events[l]
  PROVE  /\ at[l] = "serving" /\ Started(l) /\ epfd[l] \in DOMAIN instances
         /\ e.on \in Fds => e.on \in Mine(l)
         /\ DOMAIN pfds[l] = {}
         /\ \A m \in Loops : m # l => epfd[m] # epfd[l]
<1>1. at[l] = "serving"
  BY DEF IInv, EventsFit
<1>2. e.on \in Fds => e.on \in Mine(l)
  BY Listening DEF IInv, EventsFit, Watched
<1>3. QED
  BY <1>1, <1>2 DEF IInv, Numbers, Started, PollsOwn

\* Seeing to an event keeps the invariant when the watches stay the loops' own
\* and the descriptors of the other events their connections.
LEMMA SeenToKeeps ==
  ASSUME IInv, TypeOK', NEW l \in Loops, NEW e \in events[l], SeenTo(l, e),
         DOMAIN instances' = DOMAIN instances,
         \A m \in Loops : Started(m) => DOMAIN (instances'[epfd[m]]) \subseteq Watched(m)',
         \A m \in Loops : m # l => Watched(m) \subseteq Watched(m)',
         Watched(l) \ {e.on} \subseteq Watched(l)',
         \A m \in Loops : \A fd \in Mine(m) \ {e.on} : conn'[fd] = conn[fd]
  PROVE  IInv'
<1>1. /\ at[l] = "serving" /\ DOMAIN pfds[l] = {}
      /\ e.on \in Fds => e.on \in Mine(l)
  BY Serving
<1>2. /\ events' = [events EXCEPT ![l] = @ \ {e}]
      /\ UNCHANGED <<next_fd, epfd, at, pfds>>
  BY DEF SeenTo
<1>3. Numbers'
  <2>1. {m \in Loops : at'[m] # "none"} = {m \in Loops : at[m] # "none"}
    BY <1>2
  <2>2. QED
    BY <1>2, <2>1 DEF IInv, Numbers, Started
<1>4. WatchesOwn'
  BY <1>2 DEF WatchesOwn, Watches, Started
<1>5. PollsOwn'
  BY <1>1, <1>2 DEF IInv, PollsOwn
<1>6. EventsFit'
  <2>1. DOMAIN events' = Loops
        /\ \A m \in Loops : events'[m] = IF m = l THEN events[l] \ {e} ELSE events[m]
    BY <1>2 DEF IInv, EventsFit
  <2>2. SUFFICES ASSUME NEW m \in Loops
                 PROVE  /\ at[m] # "serving" => events'[m] = {}
                        /\ IsFiniteSet(events'[m])
                        /\ Cardinality(events'[m]) <= kMaxEvents
                        /\ \A f \in events'[m] : /\ f.on \in Watched(m)'
                                                 /\ f.on \in Fds => f.conn = conn'[f.on]
                        /\ \A f, g \in events'[m] : f.on = g.on => f = g
    BY <1>2, <2>1, ZenonT(30) DEF EventsFit
  <2>3. events'[m] \subseteq events[m]
    BY <2>1
  <2>4. at[m] # "serving" => events'[m] = {}
    BY <2>3 DEF IInv, EventsFit
  <2>5. IsFiniteSet(events'[m]) /\ Cardinality(events'[m]) <= kMaxEvents
    <3>1. IsFiniteSet(events[m]) /\ Cardinality(events[m]) <= kMaxEvents
          /\ events'[m] \in SUBSET events[m] /\ kMaxEvents \in Nat
      BY <2>3, ShimAssumption DEF IInv, EventsFit
    <3>2. IsFiniteSet(events'[m]) /\ Cardinality(events'[m]) <= Cardinality(events[m])
      BY <3>1, FS_Subset
    <3>3. Cardinality(events'[m]) \in Nat /\ Cardinality(events[m]) \in Nat
      BY <3>1, <3>2, FS_CardinalityType
    <3>4. QED
      BY <3>1, <3>2, <3>3
  <2>6. ASSUME NEW f \in events'[m]
        PROVE  f.on \in Watched(m)' /\ (f.on \in Fds => f.conn = conn'[f.on])
    <3>1. f.on \in Watched(m) /\ (f.on \in Fds => f.conn = conn[f.on] /\ f.on \in Mine(m))
      BY <2>3, Listening DEF IInv, EventsFit, Watched
    <3>2. f.on \in Fds => f.on # e.on
      <4>1. CASE m = l
        BY <2>1, <4>1 DEF IInv, EventsFit
      <4>2. CASE m # l
        BY <1>1, <3>1, <4>2 DEF Mine
      <4>3. QED
        BY <4>1, <4>2
    <3>3. m = l => f.on # e.on
      BY <2>1 DEF IInv, EventsFit
    <3>4. QED
      BY <3>1, <3>2, <3>3
  <2>7. \A f, g \in events'[m] : f.on = g.on => f = g
    BY <2>3 DEF IInv, EventsFit
  <2>8. QED
    BY <2>4, <2>5, <2>6, <2>7
<1>7. QED
  BY <1>3, <1>4, <1>5, <1>6 DEF IInv

\* Closing a connection takes its watch with it, and is done by its own loop.
LEMMA CloseStep ==
  ASSUME IInv, NEW l \in Loops, NEW e \in events[l], Closes(l, e)
  PROVE  IInv'
<1>1. /\ e.on \in Fds /\ SeenTo(l, e) /\ Deletes(l, e.on)
      /\ conn' = [conn EXCEPT ![e.on] = Closed]
      /\ owner' = [owner EXCEPT ![e.on] = "server"]
      /\ state' = [state EXCEPT ![e.on] = {}]
      /\ UNCHANGED <<queue, conns>>
  BY DEF Closes, close_fd, Gone
<1>2. TypeOK
  BY DEF IInv
<1>3. /\ at[l] = "serving" /\ Started(l) /\ epfd[l] \in DOMAIN instances
      /\ e.on \in Mine(l)
      /\ \A m \in Loops : m # l => epfd[m] # epfd[l]
  BY <1>1, Serving
<1>4. /\ DOMAIN instances' = DOMAIN instances
      /\ DOMAIN (instances'[epfd[l]]) = DOMAIN Watches(l) \ {e.on}
      /\ \A n \in DOMAIN instances : n # epfd[l] => instances'[n] = instances[n]
  BY <1>1, <1>3, DeletesIs
<1>5. TypeOK'
  <2>1. \A m \in Loops : events'[m] \subseteq events[m]
    BY <1>1 DEF SeenTo, IInv, EventsFit
  <2>2. /\ conn' \in [Fds -> 0 .. conns] /\ owner' \in [Fds -> Loops]
        /\ state' \in [Fds -> SUBSET {"in", "out", "hup"}]
    BY <1>1, <1>2 DEF TypeOK, Closed, Loops
  <2>3. QED
    BY <1>1, <1>2, <1>4, <2>1, <2>2 DEF TypeOK, SeenTo
<1>6. /\ \A m \in Loops : Mine(m)' = Mine(m) \ {e.on}
      /\ \A m \in Loops : m # l => e.on \notin Mine(m)
      /\ \A m \in Loops : \A fd \in Mine(m) \ {e.on} : conn'[fd] = conn[fd]
  BY <1>1, <1>2, <1>3 DEF Mine, TypeOK
<1>7. \A m \in Loops : Watched(m)' = Watched(m) \ {e.on}
  BY <1>1, <1>6, Listening DEF Watched
<1>8. \A m \in Loops : m # l => Watched(m)' = Watched(m)
  BY <1>6 DEF Watched
<1>9. ASSUME NEW m \in Loops, Started(m)
      PROVE  DOMAIN (instances'[epfd[m]]) \subseteq Watched(m)'
  <2>1. DOMAIN Watches(m) \subseteq Watched(m) /\ epfd[m] \in DOMAIN instances
    BY <1>9 DEF IInv, WatchesOwn, Numbers
  <2>2. CASE m = l
    BY <1>4, <1>7, <2>1, <2>2
  <2>3. CASE m # l
    BY <1>3, <1>4, <1>8, <2>1, <2>3 DEF Watches
  <2>4. QED
    BY <2>2, <2>3
<1>10. QED
  BY <1>1, <1>4, <1>5, <1>6, <1>7, <1>8, <1>9, SeenToKeeps

\* Serving a connection watches it anew.
LEMMA ServeStep ==
  ASSUME IInv, NEW l \in Loops, NEW e \in events[l], Serves(l, e)
  PROVE  IInv'
<1>1. PICK blocked \in BOOLEAN :
        /\ Sets(l, Entry(e.on, IF blocked THEN {"in", "out"} ELSE {"in"}))
        /\ state' = [state EXCEPT ![e.on] =
             (@ \cap ({"in"} \ e.revents)) \cup (IF blocked THEN {} ELSE {"out"})]
  BY DEF Serves
<1>2. e.on \in Fds /\ SeenTo(l, e) /\ UNCHANGED <<conn, owner, queue, conns>>
  BY DEF Serves
<1>3. TypeOK
  BY DEF IInv
<1>4. /\ Started(l) /\ epfd[l] \in DOMAIN instances /\ e.on \in Mine(l)
      /\ \A m \in Loops : m # l => epfd[m] # epfd[l]
  BY <1>2, Serving
<1>5. /\ DOMAIN instances' = DOMAIN instances
      /\ DOMAIN (instances'[epfd[l]]) = {e.on} \cup DOMAIN Watches(l)
      /\ \A n \in DOMAIN instances : n # epfd[l] => instances'[n] = instances[n]
  BY <1>1, <1>4, SetsIs DEF Entry
<1>6. TypeOK'
  <2>1. \A m \in Loops : events'[m] \subseteq events[m]
    BY <1>2 DEF SeenTo, IInv, EventsFit
  <2>2. state' \in [Fds -> SUBSET {"in", "out", "hup"}]
    BY <1>1, <1>2, <1>3 DEF TypeOK
  <2>3. QED
    BY <1>2, <1>3, <1>5, <2>1, <2>2 DEF TypeOK, SeenTo
<1>7. \A m \in Loops : Mine(m)' = Mine(m) /\ Watched(m)' = Watched(m)
  BY <1>2 DEF Mine, Watched
<1>8. ASSUME NEW m \in Loops, Started(m)
      PROVE  DOMAIN (instances'[epfd[m]]) \subseteq Watched(m)'
  <2>1. DOMAIN Watches(m) \subseteq Watched(m) /\ epfd[m] \in DOMAIN instances
    BY <1>8 DEF IInv, WatchesOwn, Numbers
  <2>2. CASE m = l
    BY <1>4, <1>5, <1>7, <2>1, <2>2 DEF Watched
  <2>3. CASE m # l
    BY <1>4, <1>5, <1>7, <2>1, <2>3 DEF Watches
  <2>4. QED
    BY <2>2, <2>3
<1>9. QED
  BY <1>2, <1>5, <1>6, <1>7, <1>8, SeenToKeeps

\* accept gives descriptors that nobody has.
LEMMA AcceptStep ==
  ASSUME IInv, NEW l \in Loops, NEW e \in events[l], accept_connections(l, e)
  PROVE  IInv'
<1> DEFINE free == {d \in Fds : conn[d] = Closed}
           n == Min({Cardinality(free), Cardinality(queue[l])})
           fds == Lowest(free, n)
           accepted == Lowest(queue[l], n)
           on(fd) == Max(Lowest(accepted, Cardinality({d \in fds : d <= fd})))
<1>1. /\ SeenTo(l, e)
      /\ conn' = [fd \in Fds |-> IF fd \in fds THEN on(fd) ELSE conn[fd]]
      /\ owner' = [fd \in Fds |-> IF fd \in fds THEN l ELSE owner[fd]]
      /\ state' = [fd \in Fds |-> IF fd \in fds THEN {"out"} ELSE state[fd]]
      /\ queue' = [queue EXCEPT ![l] = @ \ accepted]
      /\ Sets(l, [fd \in fds |-> {"in"}])
      /\ UNCHANGED conns
  BY DEF accept_connections
<1>2. TypeOK /\ conns \in Nat /\ queue[l] \in SUBSET (1 .. conns)
  BY ShimAssumption DEF IInv, TypeOK
<1>3. fds \subseteq free /\ accepted \subseteq queue[l]
  BY DEF Lowest
<1>4. \A fd \in fds : on(fd) \in 1 .. conns
  <2>1. TAKE fd \in fds
  <2>2. /\ IsFiniteSet(free) /\ IsFiniteSet(queue[l])
        /\ Cardinality(free) \in Nat /\ Cardinality(queue[l]) \in Nat
    <3>1. IsFiniteSet(1 .. conns)
      <4>1. conns \in Int /\ 1 \in Int
        BY <1>2
      <4>2. QED
        BY <4>1, FS_Interval
    <3>2. IsFiniteSet(queue[l])
      BY <1>2, <3>1, FS_Subset
    <3>3. free \in SUBSET Fds
      OBVIOUS
    <3>4. IsFiniteSet(free)
      BY <3>3, Listening, FS_Subset
    <3>5. QED
      BY <3>2, <3>4, FS_CardinalityType
  <2>3. n \in Nat /\ n <= Cardinality(queue[l])
    BY <2>2, MinIs
  <2>4. n # 0
    <3>1. Cardinality({y \in free : y < fd}) < n
      BY <1>3 DEF Lowest
    <3>2. {y \in free : y < fd} \in SUBSET free
      OBVIOUS
    <3>3. Cardinality({y \in free : y < fd}) \in Nat
      BY <2>2, <3>2, FS_Subset, FS_CardinalityType
    <3>4. QED
      BY <2>3, <3>1, <3>3
  <2>5. queue[l] # {}
    BY <2>2, <2>3, <2>4, FS_EmptySet
  <2>6. accepted # {}
    BY <1>2, <2>3, <2>4, <2>5, LowestSome
  <2> DEFINE upto == {d \in fds : d <= fd}
  <2>7. Cardinality(upto) \in Nat \ {0}
    <3>1. fd \in upto
      BY <1>3, Listening
    <3>2. upto \in SUBSET free
      BY <1>3
    <3>3. IsFiniteSet(upto) /\ Cardinality(upto) \in Nat
      BY <2>2, <3>2, FS_Subset, FS_CardinalityType
    <3>4. QED
      BY <3>1, <3>3, FS_EmptySet
  <2> DEFINE some == Lowest(accepted, Cardinality(upto))
  <2>8. some # {}
    <3>1. accepted \in SUBSET Nat
      BY <1>2, <1>3
    <3> HIDE DEF accepted, upto
    <3>2. QED
      BY <2>6, <2>7, <3>1, LowestSome
  <2>9. some \in SUBSET (1 .. conns) /\ some \in SUBSET (0 .. conns)
    BY <1>2, <1>3 DEF Lowest
  <2>10. Max(some) \in some
    BY <1>2, <2>8, <2>9, MaxIs
  <2>11. QED
    BY <2>9, <2>10
<1> HIDE DEF free, n, fds, accepted, on
<1>5. fds \subseteq Fds /\ \A fd \in fds : conn[fd] = Closed
  BY <1>3 DEF free
<1>6. /\ Started(l) /\ epfd[l] \in DOMAIN instances
      /\ \A m \in Loops : m # l => epfd[m] # epfd[l]
  BY Serving
<1>7. /\ DOMAIN instances' = DOMAIN instances
      /\ DOMAIN (instances'[epfd[l]]) = fds \cup DOMAIN Watches(l)
      /\ \A k \in DOMAIN instances : k # epfd[l] => instances'[k] = instances[k]
  BY <1>1, <1>6, SetsIs
<1>8. TypeOK'
  <2>1. \A m \in Loops : events'[m] \subseteq events[m]
    BY <1>1 DEF SeenTo, IInv, EventsFit
  <2>2. /\ conn' \in [Fds -> 0 .. conns] /\ owner' \in [Fds -> Loops]
        /\ state' \in [Fds -> SUBSET {"in", "out", "hup"}]
    <3>1. \A fd \in fds : on(fd) \in 0 .. conns
      BY <1>4
    <3>2. QED
      BY <1>1, <1>2, <3>1 DEF TypeOK
  <2>3. queue' \in [Loops -> SUBSET (1 .. conns)]
    BY <1>1, <1>2 DEF TypeOK
  <2>4. QED
    BY <1>1, <1>2, <1>7, <2>1, <2>2, <2>3 DEF TypeOK, SeenTo
<1>9. /\ \A m \in Loops : Mine(m) \subseteq Mine(m)' /\ Watched(m) \subseteq Watched(m)'
      /\ fds \subseteq Mine(l)'
      /\ \A m \in Loops : \A fd \in Mine(m) : conn'[fd] = conn[fd]
  <2>1. \A m \in Loops : \A fd \in Mine(m) : /\ fd \in Fds /\ fd \notin fds
                                             /\ conn'[fd] = conn[fd]
                                             /\ owner'[fd] = owner[fd]
    BY <1>1, <1>5 DEF Mine
  <2>2. \A fd \in fds : fd \in Fds /\ conn'[fd] # Closed /\ owner'[fd] = l
    BY <1>1, <1>4, <1>5 DEF Closed
  <2>3. QED
    BY <2>1, <2>2 DEF Mine, Watched
<1>10. ASSUME NEW m \in Loops, Started(m)
       PROVE  DOMAIN (instances'[epfd[m]]) \subseteq Watched(m)'
  <2>1. DOMAIN Watches(m) \subseteq Watched(m) /\ epfd[m] \in DOMAIN instances
    BY <1>10 DEF IInv, WatchesOwn, Numbers
  <2>2. CASE m = l
    BY <1>7, <1>9, <2>1, <2>2 DEF Watched
  <2>3. CASE m # l
    BY <1>6, <1>7, <1>9, <2>1, <2>3 DEF Watches
  <2>4. QED
    BY <2>2, <2>3
<1>11. QED
  BY <1>1, <1>7, <1>8, <1>9, <1>10, SeenToKeeps

\* The loop goes on to the next call of epoll_wait.
LEMMA CallStep ==
  ASSUME IInv, NEW l \in Loops, CallsAgain(l)
  PROVE  IInv'
<1>1. /\ at[l] = "serving" /\ events[l] = {} /\ at' = [at EXCEPT ![l] = "calling"]
      /\ UNCHANGED <<next_fd, instances, epfd, pfds, events, conn, owner, state, queue,
                     conns>>
  BY DEF CallsAgain, Goes, kernel
<1>2. /\ TypeOK /\ Numbers
      /\ at' \in [Loops -> {"none", "numbered", "calling", "polling", "serving"}]
      /\ \A m \in Loops : at'[m] = IF m = l THEN "calling" ELSE at[m]
  BY <1>1 DEF IInv, TypeOK
<1>3. TypeOK'
  BY <1>1, <1>2 DEF TypeOK
<1>4. Numbers'
  <2>1. {m \in Loops : at'[m] # "none"} = {m \in Loops : at[m] # "none"}
    BY <1>1, <1>2
  <2>2. QED
    BY <1>1, <1>2, <2>1 DEF Numbers, Started
<1>5. WatchesOwn'
  BY <1>1, <1>2 DEF IInv, WatchesOwn, Watches, Watched, Mine, Started
<1>6. PollsOwn' /\ EventsFit'
  BY <1>1, <1>2 DEF IInv, PollsOwn, EventsFit, Watched, Mine
<1>7. QED
  BY <1>3, <1>4, <1>5, <1>6 DEF IInv

\* A client connects, sends, reads or goes away.
LEMMA ClientStep ==
  ASSUME IInv, \/ \E l \in Loops : Connect(l)
               \/ \E fd \in Fds, to \in {"in", "out", "hup"} : Turns(fd, to)
  PROVE  IInv'
<1>1. UNCHANGED <<next_fd, instances, epfd, at, pfds, events, conn, owner>>
  BY DEF Connect, Turns, shim
<1>2. TypeOK'
  <2>1. TypeOK /\ conns \in Nat /\ MaxConns \in Nat
    BY ShimAssumption DEF IInv, TypeOK
  <2>2. CASE \E l \in Loops : Connect(l)
    <3>1. PICK l \in Loops : Connect(l)
      BY <2>2
    <3>2. /\ conns' = conns + 1 /\ conns' \in 0 .. MaxConns
          /\ queue' = [queue EXCEPT ![l] = @ \cup {conns'}] /\ state' = state
      BY <2>1, <3>1 DEF Connect
    <3>3. conn' \in [Fds -> 0 .. conns'] /\ queue' \in [Loops -> SUBSET (1 .. conns')]
      <4>1. 0 .. conns \subseteq 0 .. conns' /\ 1 .. conns \subseteq 1 .. conns'
            /\ conns' \in 1 .. conns'
        BY <2>1, <3>2
      <4>2. QED
        BY <1>1, <2>1, <3>2, <4>1 DEF TypeOK
    <3>4. QED
      BY <1>1, <2>1, <3>2, <3>3 DEF TypeOK
  <2>3. CASE \E fd \in Fds, to \in {"in", "out", "hup"} : Turns(fd, to)
    <3>1. PICK fd \in Fds, to \in {"in", "out", "hup"} : Turns(fd, to)
      BY <2>3
    <3>2. /\ state' = [state EXCEPT ![fd] = @ \cup {to}]
          /\ queue' = queue /\ conns' = conns
      BY <3>1 DEF Turns
    <3>3. state' \in [Fds -> SUBSET {"in", "out", "hup"}]
      BY <2>1, <3>2 DEF TypeOK
    <3>4. QED
      BY <1>1, <2>1, <3>2, <3>3 DEF TypeOK
  <2>4. QED
    BY <2>2, <2>3
<1>3. Numbers' /\ WatchesOwn' /\ PollsOwn' /\ EventsFit'
  BY <1>1 DEF IInv, Numbers, WatchesOwn, PollsOwn, EventsFit, Watches, Watched, Mine,
              Started
<1>4. QED
  BY <1>2, <1>3 DEF IInv

\* Every step keeps the invariant.
LEMMA NextIInv == IInv /\ [Next]_vars => IInv'
<1> SUFFICES ASSUME IInv, [Next]_vars PROVE IInv'
  OBVIOUS
<1>1. CASE UNCHANGED vars
  BY <1>1, ZenonT(30) DEF vars, shim, kernel, IInv, TypeOK, Numbers, WatchesOwn, PollsOwn, EventsFit,
              Watches, Watched, Mine, Started
<1>2. ASSUME NEW l \in Loops, Loop(l) PROVE IInv'
  BY <1>2, CreateStep, RegisterStep, CopyStep, WaitStep, AcceptStep, ServeStep, CloseStep,
     CallStep DEF Loop
<1>3. QED
  BY <1>1, <1>2, ClientStep DEF Next
-----------------------------------------------------------------------------
\* So it always holds.
LEMMA AlwaysIInv == Spec => []IInv
<1>1. QED
  BY InitIInv, NextIInv, PTL DEF Spec

\* The shim's tables and the kernel's stay in range: accept finds a connection
\* for every descriptor it gives, and no third instance is ever numbered.
THEOREM ShimTypeCorrect == Spec => []TypeOK
<1>1. IInv => TypeOK
  BY DEF IInv
<1>2. QED
  BY <1>1, AlwaysIInv, PTL

\* No event is for another's connection: an event that epoll_wait gave a loop
\* is of a connection that is the loop's own, still open under its descriptor,
\* and no more events are given than the array holds.
THEOREM EventsAreOwn == Spec => []NoStrayEvents
<1>1. IInv => NoStrayEvents
  <2>1. ASSUME IInv, NEW l \in Loops, NEW e \in events[l], e.on \in Fds
        PROVE  conn[e.on] = e.conn /\ e.conn # Closed /\ owner[e.on] = l
    <3>1. e.on \in Mine(l)
      BY <2>1, Serving
    <3>2. QED
      BY <2>1, <3>1 DEF IInv, EventsFit, Mine
  <2>2. QED
    BY <2>1 DEF NoStrayEvents, IInv, EventsFit
<1>2. QED
  BY <1>1, AlwaysIInv, PTL
-----------------------------------------------------------------------------
(***************************************************************************)
(* The admin loop.  A client is owed an answer from when its request is    *)
(* taken for complete until send_all is done with it, and is sent nothing  *)
(* before.                                                                 *)
(***************************************************************************)
\* What a client has been sent and not lost,
Out(c) == got[c] \o wire[c]

\* what send_all still has for it,
Owed(c) == IF c = serving THEN response ELSE <<>>

\* and whether it has not been answered at all.
Unanswered(c) == admin_conn[c] # "closed" /\ Owed(c) = <<>>

\* The answers there are.
Statuses == {"400", "404", "405", "metrics", "health"}

\* What some beginning of its request deserves.
Deserved(c) == {IF n > kMaxRequest THEN "400"
                ELSE A!handle_request(SubSeq(asks[c], 1, n)) : n \in 0 .. Len(asks[c])}

\* A sequence of at most k times s.
AtMost(seq, k, s) == Len(seq) <= k /\ \A i \in 1 .. Len(seq) : seq[i] = s

AdminTypes ==
  /\ asks \in Asks
  /\ sent \in [Clients -> Nat] /\ taken \in [Clients -> Nat]
  /\ \A c \in Clients : taken[c] <= sent[c] /\ sent[c] <= Len(asks[c])
  /\ reset \subseteq ended /\ ended \subseteq Clients /\ atOnce \subseteq Clients
  /\ admin_conn \in [Clients -> {"none", "queued", "watched", "closed"}]
  /\ wire \in [Clients -> Seq(Statuses)] /\ got \in [Clients -> Seq(Statuses)]
  /\ \A c \in Clients : Len(wire[c]) <= SocketRoom
  /\ serving \in Clients \cup {Nobody}
  /\ serving = Nobody => response = <<>>
  /\ serving # Nobody => admin_conn[serving] = "watched"
  /\ response \in Seq(Statuses) /\ Len(response) <= 2

\* handle_connection's request is what was received from the client it serves,
\* and nothing is received for a client but while it is served.
RequestIsOwn ==
  \A c \in Clients :
     Unanswered(c) =>
       /\ Out(c) = <<>>
       /\ c # serving => taken[c] = 0
       /\ c = serving => /\ request = SubSeq(asks[c], 1, taken[c])
                         /\ taken[c] <= kMaxRequest

\* What a client has got and what it is owed are parts of one answer to it.
AnswerIsOwn ==
  \A c \in Clients :
     \E s \in Deserved(c) : /\ AtMost(Owed(c), 2, s)
                            /\ AtMost(Out(c), 2 - Len(Owed(c)), s)

AdminInv == AdminTypes /\ RequestIsOwn /\ AnswerIsOwn

\* What a sequence is, as a function.
LEMMA SeqIsFunction ==
  ASSUME NEW S, NEW s \in Seq(S)
  PROVE  /\ Len(s) \in Nat
         /\ DOMAIN s = 1 .. Len(s)
         /\ \A i \in 1 .. Len(s) : s[i] \in S
         /\ s = <<>> <=> Len(s) = 0
OBVIOUS

\* Two sequences, one after the other.
LEMMA Joined ==
  ASSUME NEW S, NEW g \in Seq(S), NEW w \in Seq(S)
  PROVE  /\ g \o w \in Seq(S) /\ Len(g \o w) = Len(g) + Len(w)
         /\ \A i \in 1 .. Len(g) : (g \o w)[i] = g[i]
         /\ \A i \in 1 .. Len(w) : (g \o w)[Len(g) + i] = w[i]
         /\ w = <<>> => g \o w = g
OBVIOUS

\* The client reads what is at the front of the socket.
LEMMA ReadsFront ==
  ASSUME NEW S, NEW g \in Seq(S), NEW w \in Seq(S), w # <<>>
  PROVE  /\ Append(g, Head(w)) \in Seq(S) /\ Tail(w) \in Seq(S)
         /\ Len(Tail(w)) <= Len(w)
         /\ Append(g, Head(w)) \o Tail(w) = g \o w
<1>1. /\ Append(g, Head(w)) \in Seq(S) /\ Tail(w) \in Seq(S)
      /\ Len(Append(g, Head(w))) = Len(g) + 1 /\ Len(Tail(w)) = Len(w) - 1
      /\ Len(g) \in Nat /\ Len(w) \in Nat \ {0}
  BY SeqIsFunction
<1> DEFINE u == Append(g, Head(w)) \o Tail(w)
           v == g \o w
<1>2. u \in Seq(S) /\ v \in Seq(S) /\ Len(u) = Len(v)
  BY <1>1, Joined
<1>3. ASSUME NEW i \in 1 .. Len(v) PROVE u[i] = v[i]
  <2>1. i \in 1 .. Len(g) + Len(w)
    BY Joined
  <2>2. CASE i <= Len(g)
    BY <1>1, <2>1, <2>2
  <2>3. CASE i = Len(g) + 1
    BY <1>1, <2>1, <2>3
  <2>4. CASE i > Len(g) + 1
    BY <1>1, <2>1, <2>4
  <2>5. QED
    BY <1>1, <2>1, <2>2, <2>3, <2>4
<1> HIDE DEF u, v
<1>4. u = v
  BY <1>2, <1>3, SeqEqual
<1>5. QED
  BY <1>1, <1>4, SMTT(30) DEF u, v

\* What is received is put together again.
LEMMA TextGrows ==
  ASSUME NEW S, NEW text \in Seq(S), NEW m \in Nat, NEW n \in Nat,
         m <= n, n <= Len(text)
  PROVE  /\ SubSeq(text, 1, m) \o SubSeq(text, m + 1, n) = SubSeq(text, 1, n)
         /\ Len(SubSeq(text, 1, n)) = n /\ SubSeq(text, 1, n) \in Seq(S)
<1>1. Len(text) \in Nat
  BY SeqIsFunction
<1> DEFINE b == SubSeq(text, 1, m)
           r == SubSeq(text, m + 1, n)
           u == b \o r
           v == SubSeq(text, 1, n)
<1>2. /\ b \in Seq(S) /\ Len(b) = m /\ \A i \in 1 .. m : b[i] = text[i]
      /\ r \in Seq(S) /\ Len(r) = n - m
      /\ \A i \in 1 .. n - m : r[i] = text[m + i]
      /\ v \in Seq(S) /\ Len(v) = n /\ \A i \in 1 .. n : v[i] = text[i]
  BY <1>1
<1>3. u \in Seq(S) /\ Len(u) = n
  BY <1>2, Joined
<1> HIDE DEF b, r, v
<1>4. ASSUME NEW i \in 1 .. n PROVE u[i] = v[i]
  <2>1. CASE i <= m
    <3>1. i \in 1 .. m
      BY <2>1
    <3>2. u[i] = b[i]
      BY <1>2, <3>1, Joined
    <3>3. QED
      BY <1>2, <3>1, <3>2
  <2>2. CASE i > m
    <3> DEFINE j == i - m
    <3>1. j \in 1 .. n - m /\ i = m + j
      BY <2>2
    <3> HIDE DEF j
    <3>2. u[i] = r[j]
      BY <1>2, <3>1, Joined
    <3>3. r[j] = text[i] /\ v[i] = text[i]
      BY <1>2, <3>1
    <3>4. QED
      BY <3>2, <3>3
  <2>3. i <= m \/ i > m
    OBVIOUS
  <2>4. QED
    BY <2>1, <2>2, <2>3, Zenon
<1> HIDE DEF u
<1>5. u = v
  BY <1>2, <1>3, <1>4, SeqEqual
<1>6. QED
  BY <1>2, <1>5 DEF b, r, u, v

\* If there are at most k times s, there are so in the front; and once more
\* with another behind them.
LEMMA AtMostFront ==
  ASSUME NEW S, NEW g \in Seq(S), NEW w \in Seq(S), NEW k, NEW s,
         AtMost(g \o w, k, s), k \in Nat
  PROVE  AtMost(g, k, s)
<1>1. Len(g) \in Nat /\ Len(w) \in Nat
  BY SeqIsFunction
<1>2. Len(g) <= k
  BY <1>1, Joined DEF AtMost
<1>3. \A i \in 1 .. Len(g) : g[i] = s
  BY <1>1, Joined DEF AtMost
<1>4. QED
  BY <1>2, <1>3 DEF AtMost

LEMMA AtMostMore ==
  ASSUME NEW S, NEW g \in Seq(S), NEW w \in Seq(S), NEW k \in Nat, NEW s \in S,
         AtMost(g \o w, k, s)
  PROVE  /\ AtMost(g \o Append(w, s), k + 1, s)
         /\ Append(w, s) \in Seq(S) /\ Len(Append(w, s)) = Len(w) + 1
<1> DEFINE v == Append(w, s)
           n == Len(g) + Len(w)
<1>1. /\ v \in Seq(S) /\ Len(v) = Len(w) + 1 /\ v[Len(w) + 1] = s
      /\ \A i \in 1 .. Len(w) : v[i] = w[i]
      /\ Len(g) \in Nat /\ Len(w) \in Nat /\ n \in Nat
  BY SeqIsFunction
<1> HIDE DEF v
<1>2. Len(g \o v) = n + 1 /\ n <= k
  <2>1. Len(g \o v) = Len(g) + (Len(w) + 1)
    <3>1. v \in Seq(S) /\ Len(v) = Len(w) + 1
      BY <1>1
    <3>2. Len(g \o v) = Len(g) + Len(v)
      BY <3>1, Joined
    <3>3. QED
      BY <3>1, <3>2
  <2>2. Len(g \o w) = n /\ Len(g \o w) <= k
    BY Joined DEF AtMost
  <2>3. Len(g) + (Len(w) + 1) = n + 1
    BY <1>1
  <2>4. QED
    BY <2>1, <2>2, <2>3, Zenon
<1>3. ASSUME NEW i \in 1 .. n + 1 PROVE (g \o v)[i] = s
  <2>1. CASE i <= Len(g)
    <3>1. i \in 1 .. Len(g) /\ i \in 1 .. n
      BY <1>1, <2>1
    <3>2. g[i] = s
      BY <3>1, Joined DEF AtMost
    <3>3. QED
      BY <1>1, <3>1, <3>2, Joined
  <2>2. CASE i > Len(g)
    <3> DEFINE j == i - Len(g)
    <3>1. j \in 1 .. Len(v) /\ i = Len(g) + j
      BY <1>1, <2>2
    <3> HIDE DEF j
    <3>2. (g \o v)[i] = v[j]
      BY <1>1, <3>1, Joined
    <3>3. CASE j = Len(w) + 1
      BY <1>1, <3>2, <3>3
    <3>4. CASE j \in 1 .. Len(w)
      <4>1. Len(g) + j \in 1 .. n /\ (g \o w)[Len(g) + j] = w[j]
        BY <1>1, <3>4, Joined, SMTT(30)
      <4>2. w[j] = s
        BY <4>1, Joined DEF AtMost
      <4>3. QED
        BY <1>1, <3>2, <3>4, <4>2
    <3>5. QED
      BY <1>1, <3>1, <3>3, <3>4
  <2>3. QED
    BY <1>1, <2>1, <2>2
<1>4. AtMost(g \o v, k + 1, s)
  BY <1>1, <1>2, <1>3 DEF AtMost
<1>5. QED
  BY <1>1, <1>4 DEF v

\* What handle_request answers.
LEMMA AnswerIsStatus ==
  ASSUME NEW text
  PROVE  A!handle_request(text) \in Statuses
<1> DEFINE line == A!FirstLine(text)
           spaces == {i \in DOMAIN line : line[i] = A!Sp}
           p1 == A!Min(spaces)
           p2 == A!Min(spaces \ {p1})
           path == SubSeq(line, p1 + 1, p2 - 1)
           verb == SubSeq(line, 1, p1 - 1)
           n == A!Cardinality(spaces)
<1>1. A!handle_request(text) =
        CASE n < 2 -> "400"
          [] n >= 2 /\ verb # <<"GET">> -> "405"
          [] OTHER -> CASE path = <<"/metrics">> -> "metrics"
                        [] path = <<"/health">>  -> "health"
                        [] OTHER -> "404"
  BY Zenon DEF A!handle_request
<1> HIDE DEF line, spaces, p1, p2, path, verb, n
<1>2. QED
  BY <1>1 DEF Statuses

\* There is an answer to what a client asks, though it asked nothing yet.
LEMMA DeservedIs ==
  ASSUME A!AdminAssumption, asks \in Asks, NEW c \in Clients
  PROVE  /\ asks[c] \in Seq(STRING) /\ Len(asks[c]) \in Nat
         /\ Deserved(c) # {} /\ Deserved(c) \subseteq Statuses
<1>1. asks[c] \in Seq(STRING) /\ Len(asks[c]) \in Nat
  BY DEF A!AdminAssumption
<1>2. 0 \in 0 .. Len(asks[c])
  BY <1>1
<1>3. \A s \in Deserved(c) : s \in Statuses
  <2>1. SUFFICES ASSUME NEW n \in 0 .. Len(asks[c])
                 PROVE  (IF n > kMaxRequest THEN "400"
                         ELSE A!handle_request(SubSeq(asks[c], 1, n))) \in Statuses
    BY Zenon DEF Deserved
  <2>2. A!handle_request(SubSeq(asks[c], 1, n)) \in Statuses
    BY AnswerIsStatus
  <2>3. QED
    BY <2>2 DEF Statuses
<1>4. \E s : s \in Deserved(c)
  BY <1>2 DEF Deserved
<1>5. QED
  BY <1>1, <1>3, <1>4

\* The constants.
LEMMA AdminLimits ==
  ASSUME A!AdminAssumption
  PROVE  /\ Nobody \notin Clients /\ kMaxRequest \in Nat
         /\ Chunk \in Nat \ {0} /\ SocketRoom \in Nat \ {0}
BY DEF A!AdminAssumption

LEMMA InitAdminInv ==
  ASSUME A!AdminAssumption, A!Init
  PROVE  AdminInv
<1> USE DEF A!Init
<1>1. AdminTypes
  <2>1. \A c \in Clients : Len(asks[c]) \in Nat
    BY DeservedIs
  <2>2. <<>> \in Seq(Statuses) /\ Len(<<>>) = 0 /\ SocketRoom \in Nat
    BY AdminLimits
  <2>3. QED
    BY <2>1, <2>2 DEF AdminTypes
<1>2. \A c \in Clients : Out(c) = <<>> /\ Owed(c) = <<>> /\ c # serving /\ taken[c] = 0
  BY AdminLimits DEF Out, Owed
<1>3. RequestIsOwn
  BY <1>2 DEF RequestIsOwn
<1>4. AnswerIsOwn
  BY <1>2, DeservedIs DEF AnswerIsOwn, AtMost
<1>5. QED
  BY <1>1, <1>3, <1>4 DEF AdminInv

\* A step that leaves a client what it has been sent and what it is owed leaves
\* it all it may deserve.
LEMMA SameAnswers ==
  ASSUME NEW c \in Clients, asks' = asks, Out(c)' = Out(c), Owed(c)' = Owed(c),
         \E s \in Deserved(c) : /\ AtMost(Owed(c), 2, s)
                                /\ AtMost(Out(c), 2 - Len(Owed(c)), s)
  PROVE  \E s \in Deserved(c)' : /\ AtMost(Owed(c)', 2, s)
                                 /\ AtMost(Out(c)', 2 - Len(Owed(c)'), s)
<1>1. Deserved(c)' = Deserved(c)
  BY DEF Deserved
<1>2. QED
  BY <1>1, Zenon

\* A step that sends nothing and answers nobody.
LEMMA QuietStep ==
  ASSUME AdminInv, AdminTypes',
         UNCHANGED <<asks, taken, got, wire, serving, request, response>>,
         \A c \in Clients : admin_conn'[c] = "closed" <=> admin_conn[c] = "closed"
  PROVE  AdminInv'
<1>1. \A c \in Clients : /\ Out(c)' = Out(c) /\ Owed(c)' = Owed(c)
                         /\ Unanswered(c)' <=> Unanswered(c)
  BY DEF Out, Owed, Unanswered
<1>2. RequestIsOwn'
  BY <1>1 DEF AdminInv, RequestIsOwn
<1>3. AnswerIsOwn'
  BY <1>1, SameAnswers DEF AdminInv, AnswerIsOwn
<1>4. QED
  BY <1>2, <1>3 DEF AdminInv

\* What the inductive invariant says of one client.
LEMMA OfClient ==
  ASSUME A!AdminAssumption, AdminInv, NEW c \in Clients
  PROVE  /\ got[c] \in Seq(Statuses) /\ wire[c] \in Seq(Statuses)
         /\ Out(c) \in Seq(Statuses)
         /\ Owed(c) \in Seq(Statuses) /\ Len(Owed(c)) \in 0 .. 2
         /\ Len(wire[c]) \in 0 .. SocketRoom /\ Len(got[c]) \in Nat
         /\ taken[c] \in Nat /\ sent[c] \in Nat /\ Len(asks[c]) \in Nat
         /\ taken[c] <= sent[c] /\ sent[c] <= Len(asks[c])
         /\ asks[c] \in Seq(STRING)
<1>1. got[c] \in Seq(Statuses) /\ wire[c] \in Seq(Statuses) /\ Len(wire[c]) <= SocketRoom
  BY DEF AdminInv, AdminTypes
<1>2. Owed(c) \in Seq(Statuses) /\ Len(Owed(c)) <= 2
  <2>1. response \in Seq(Statuses) /\ Len(response) <= 2
    BY DEF AdminInv, AdminTypes
  <2>2. <<>> \in Seq(Statuses) /\ Len(<<>>) <= 2
    OBVIOUS
  <2>3. QED
    BY <2>1, <2>2 DEF Owed
<1>3. Out(c) \in Seq(Statuses)
  BY <1>1, Joined DEF Out
<1>4. /\ taken[c] \in Nat /\ sent[c] \in Nat
      /\ taken[c] <= sent[c] /\ sent[c] <= Len(asks[c])
      /\ asks[c] \in Seq(STRING) /\ Len(asks[c]) \in Nat
  BY DeservedIs DEF AdminInv, AdminTypes
<1>5. Len(Owed(c)) \in Nat /\ Len(wire[c]) \in Nat /\ Len(got[c]) \in Nat
  BY <1>1, <1>2, SeqIsFunction
<1>6. SocketRoom \in Nat
  BY AdminLimits
<1> DEFINE m == Len(Owed(c))
           n == Len(wire[c])
<1>7. m \in Nat /\ m <= 2 /\ n \in Nat /\ n <= SocketRoom
  BY <1>1, <1>2, <1>5
<1>8. m \in 0 .. 2 /\ n \in 0 .. SocketRoom
  <2> HIDE DEF m, n
  <2>1. QED
    BY <1>6, <1>7
<1>9. QED
  BY <1>1, <1>2, <1>3, <1>4, <1>5, <1>8, Zenon

\* The connection that is served.
LEMMA ServedIs ==
  ASSUME A!AdminAssumption, AdminInv, serving # Nobody
  PROVE  /\ serving \in Clients /\ admin_conn[serving] = "watched"
         /\ Owed(serving) = response
         /\ Unanswered(serving) <=> response = <<>>
         /\ \A c \in Clients \ {serving} : Owed(c) = <<>>
<1>1. serving \in Clients /\ admin_conn[serving] = "watched"
  BY DEF AdminInv, AdminTypes
<1>2. Owed(serving) = response
  BY DEF Owed
<1>3. \A c \in Clients \ {serving} : Owed(c) = <<>>
  BY DEF Owed
<1>4. Unanswered(serving) <=> response = <<>>
  BY <1>1, <1>2 DEF Unanswered
<1>5. QED
  BY <1>1, <1>2, <1>3, <1>4, Zenon

\* The clients' steps but Resets and Reads.
LEMMA AsksStep ==
  ASSUME A!AdminAssumption, AdminInv, NEW c \in Clients,
         A!Connect(c) \/ A!Shuts(c) \/ \E n \in 1 .. Len(asks[c]) : A!Sends(c, n)
  PROVE  AdminInv'
<1> USE DEF A!client, A!server
<1>1. CASE A!Connect(c)
  <2> USE <1>1 DEF A!Connect
  <2>1. AdminTypes'
    BY DEF AdminInv, AdminTypes
  <2>2. \A d \in Clients : admin_conn'[d] = "closed" <=> admin_conn[d] = "closed"
    BY DEF AdminInv, AdminTypes
  <2>3. QED
    BY <2>1, <2>2, QuietStep
<1>2. CASE A!Shuts(c)
  <2> USE <1>2 DEF A!Shuts
  <2>1. AdminTypes'
    BY DEF AdminInv, AdminTypes
  <2>2. QED
    BY <2>1, QuietStep
<1>3. ASSUME NEW n \in 1 .. Len(asks[c]), A!Sends(c, n)
      PROVE  AdminInv'
  <2> USE <1>3 DEF A!Sends
  <2>1. taken[c] <= sent[c] + n /\ sent[c] + n \in Nat
    BY OfClient
  <2>2. sent' \in [Clients -> Nat] /\ sent' = [sent EXCEPT ![c] = sent[c] + n]
    BY <2>1 DEF AdminInv, AdminTypes
  <2>3. \A d \in Clients : taken'[d] <= sent'[d] /\ sent'[d] <= Len(asks'[d])
    BY <2>1, <2>2 DEF AdminInv, AdminTypes
  <2>4. AdminTypes'
    BY <2>2, <2>3 DEF AdminInv, AdminTypes
  <2>5. QED
    BY <2>4, QuietStep
<1>4. QED
  BY <1>1, <1>2, <1>3

\* accept_connections.
LEMMA AcceptConnections ==
  ASSUME A!AdminAssumption, AdminInv, A!accept_connections
  PROVE  AdminInv'
<1> USE DEF A!accept_connections, A!client, A!Idle
<1>1. AdminTypes'
  BY DEF AdminInv, AdminTypes
<1>2. \A d \in Clients : admin_conn'[d] = "closed" <=> admin_conn[d] = "closed"
  OBVIOUS
<1>3. QED
  BY <1>1, <1>2, QuietStep

\* Less is left of what a client was sent, or of what it is owed: a step after
\* which it still has parts of one answer.
LEMMA FewerAnswers ==
  ASSUME A!AdminAssumption, AdminInv, NEW c \in Clients, asks' = asks,
         got' = got, Owed(c)' = Owed(c), wire'[c] = wire[c] \/ wire'[c] = <<>>
  PROVE  /\ \E s \in Deserved(c)' : /\ AtMost(Owed(c)', 2, s)
                                    /\ AtMost(Out(c)', 2 - Len(Owed(c)'), s)
         /\ Out(c) = <<>> => Out(c)' = <<>>
<1>1. PICK s \in Deserved(c) : /\ AtMost(Owed(c), 2, s)
                               /\ AtMost(Out(c), 2 - Len(Owed(c)), s)
  BY DEF AdminInv, AnswerIsOwn
<1> DEFINE k == 2 - Len(Owed(c))
<1>2. k \in Nat /\ got[c] \in Seq(Statuses) /\ wire[c] \in Seq(Statuses)
  <2> DEFINE n == Len(Owed(c))
  <2>1. n \in 0 .. 2
    BY OfClient
  <2>2. 2 - n \in Nat
    <3> HIDE DEF n
    <3>1. QED
      BY <2>1
  <2>3. QED
    BY <2>2, OfClient
<1> HIDE DEF k
<1>3. CASE wire'[c] = wire[c]
  <2>1. Out(c)' = Out(c)
    BY <1>3 DEF Out
  <2>2. QED
    BY <1>1, <2>1, SameAnswers
<1>4. CASE wire'[c] = <<>>
  <2>1. <<>> \in Seq(Statuses)
    OBVIOUS
  <2>2. Out(c)' = got[c]
    BY <1>2, <1>4, <2>1, Joined DEF Out
  <2>3. AtMost(got[c], k, s)
    BY <1>1, <1>2, AtMostFront DEF Out, k
  <2>4. Out(c) = <<>> => Out(c)' = <<>>
    <3>1. Len(Out(c)) = Len(got[c]) + Len(wire[c]) /\ Len(wire[c]) \in Nat
          /\ Len(got[c]) \in Nat
      BY <1>2, Joined, SeqIsFunction DEF Out
    <3>2. Out(c) = <<>> => Len(got[c]) = 0
      <4> DEFINE m == Len(got[c])
                 n == Len(wire[c])
      <4>1. Out(c) = <<>> => m + n = 0
        BY <3>1
      <4>2. m \in Nat /\ n \in Nat
        BY <3>1
      <4> HIDE DEF m, n
      <4>3. m + n = 0 => m = 0
        BY <4>2
      <4>4. QED
        BY <4>1, <4>3 DEF m
    <3>3. QED
      BY <1>2, <2>2, <3>2, SeqIsFunction
  <2>5. Deserved(c)' = Deserved(c)
    BY DEF Deserved
  <2>6. QED
    BY <1>1, <2>2, <2>3, <2>4, <2>5 DEF k
<1>5. QED
  BY <1>3, <1>4

\* The client resets its connection.
LEMMA ResetsStep ==
  ASSUME A!AdminAssumption, AdminInv, NEW c \in Clients, A!Resets(c)
  PROVE  AdminInv'
<1>1. /\ ended' = ended \cup {c} /\ reset' = reset \cup {c}
      /\ wire' = [wire EXCEPT ![c] = <<>>]
      /\ UNCHANGED <<asks, sent, got, atOnce, taken, admin_conn, serving, request, response>>
  BY DEF A!Resets, A!server
<1>2. wire' \in [Clients -> Seq(Statuses)] /\ wire'[c] = <<>>
      /\ \A d \in Clients \ {c} : wire'[d] = wire[d]
  BY <1>1 DEF AdminInv, AdminTypes
<1>3. AdminTypes'
  <2>1. \A d \in Clients : Len(wire'[d]) <= SocketRoom
    BY <1>1, <1>2, AdminLimits DEF AdminInv, AdminTypes
  <2>2. QED
    BY <1>1, <1>2, <2>1 DEF AdminInv, AdminTypes
<1>4. \A d \in Clients : /\ Owed(d)' = Owed(d) /\ Unanswered(d)' = Unanswered(d)
                         /\ wire'[d] = wire[d] \/ wire'[d] = <<>>
  BY <1>1, <1>2 DEF Owed, Unanswered
<1>5. RequestIsOwn'
  BY <1>1, <1>4, FewerAnswers DEF AdminInv, RequestIsOwn
<1>6. AnswerIsOwn'
  BY <1>1, <1>4, FewerAnswers DEF AnswerIsOwn
<1>7. QED
  BY <1>3, <1>5, <1>6 DEF AdminInv

\* The client reads.
LEMMA ReadsStep ==
  ASSUME A!AdminAssumption, AdminInv, NEW c \in Clients, A!Reads(c)
  PROVE  AdminInv'
<1> DEFINE g == Append(got[c], Head(wire[c]))
           w == Tail(wire[c])
<1>1. /\ wire[c] # <<>>
      /\ got' = [got EXCEPT ![c] = g] /\ wire' = [wire EXCEPT ![c] = w]
      /\ UNCHANGED <<asks, sent, ended, reset, atOnce, taken, admin_conn, serving, request,
                     response>>
  BY DEF A!Reads, A!server
<1>2. /\ g \in Seq(Statuses) /\ w \in Seq(Statuses) /\ Len(w) <= Len(wire[c])
      /\ g \o w = got[c] \o wire[c]
  BY <1>1, OfClient, ReadsFront, ZenonT(30)
<1> HIDE DEF g, w
<1>3. /\ got' \in [Clients -> Seq(Statuses)] /\ wire' \in [Clients -> Seq(Statuses)]
      /\ got'[c] = g /\ wire'[c] = w
      /\ \A d \in Clients \ {c} : got'[d] = got[d] /\ wire'[d] = wire[d]
  BY <1>1, <1>2 DEF AdminInv, AdminTypes
<1>4. AdminTypes'
  <2>1. Len(w) <= SocketRoom
    <3>1. Len(w) \in Nat /\ Len(wire[c]) \in 0 .. SocketRoom /\ SocketRoom \in Nat
      BY <1>2, OfClient, AdminLimits, SeqIsFunction
    <3>2. QED
      BY <1>2, <3>1
  <2>2. \A d \in Clients : Len(wire'[d]) <= SocketRoom
    BY <1>3, <2>1 DEF AdminInv, AdminTypes
  <2>3. QED
    BY <1>1, <1>3, <2>2 DEF AdminInv, AdminTypes
<1>5. \A d \in Clients : /\ Out(d)' = Out(d) /\ Owed(d)' = Owed(d)
                         /\ Unanswered(d)' = Unanswered(d)
  BY <1>1, <1>2, <1>3 DEF Out, Owed, Unanswered
<1>6. RequestIsOwn'
  BY <1>1, <1>5 DEF AdminInv, RequestIsOwn
<1>7. AnswerIsOwn'
  BY <1>1, <1>5, SameAnswers DEF AdminInv, AnswerIsOwn
<1>8. QED
  BY <1>4, <1>6, <1>7 DEF AdminInv

\* A connection has something to read, and handle_connection begins.
LEMMA ReadableStep ==
  ASSUME A!AdminAssumption, AdminInv, NEW c \in Clients, A!Readable(c)
  PROVE  AdminInv'
<1>1. /\ serving = Nobody /\ admin_conn[c] = "watched"
      /\ serving' = c /\ request' = <<>>
      /\ UNCHANGED <<asks, sent, ended, reset, got, atOnce, taken, admin_conn, response, wire>>
  BY DEF A!Readable, A!Idle, A!Begins, A!client
<1>2. c # Nobody /\ response = <<>> /\ kMaxRequest \in Nat
  BY <1>1, AdminLimits DEF AdminInv, AdminTypes
<1>3. AdminTypes'
  BY <1>1, <1>2 DEF AdminInv, AdminTypes
<1>4. \A d \in Clients : /\ Out(d)' = Out(d) /\ Owed(d)' = Owed(d)
                         /\ Unanswered(d)' = Unanswered(d)
  BY <1>1, <1>2 DEF Out, Owed, Unanswered
<1>5. RequestIsOwn'
  <2>1. \A d \in Clients : d # serving
    BY <1>1, AdminLimits
  <2>2. taken[c] = 0 \/ ~Unanswered(c)
    BY <2>1 DEF AdminInv, RequestIsOwn
  <2>3. SubSeq(asks[c], 1, 0) = <<>>
    BY OfClient
  <2>4. QED
    BY <1>1, <1>2, <1>4, <2>1, <2>2, <2>3 DEF AdminInv, RequestIsOwn
<1>6. AnswerIsOwn'
  BY <1>1, <1>4, SameAnswers DEF AdminInv, AnswerIsOwn
<1>7. QED
  BY <1>3, <1>5, <1>6 DEF AdminInv

\* recv returns at least a token when there is one, and no more than there is.
LEMMA TakenIs ==
  ASSUME A!AdminAssumption, AdminInv, serving # Nobody, A!Taken > 0
  PROVE  /\ A!Taken \in Nat \ {0}
         /\ taken[serving] + A!Taken <= sent[serving]
<1> DEFINE n == sent[serving] - taken[serving]
<1>1. n \in Nat /\ Chunk \in Nat /\ taken[serving] \in Nat /\ sent[serving] \in Nat
  BY ServedIs, OfClient, AdminLimits
<1>2. A!Taken = A!Min({Chunk, n})
  BY DEF A!Taken, A!Unread
<1> HIDE DEF n
<1> DEFINE least == IF Chunk <= n THEN Chunk ELSE n
<1>3. /\ least \in {Chunk, n} /\ \A y \in {Chunk, n} : least <= y
      /\ \A x \in {Chunk, n} : (\A y \in {Chunk, n} : x <= y) => x <= n
  BY <1>1
<1>4. A!Taken \in {Chunk, n} /\ A!Taken <= n
  BY <1>2, <1>3 DEF A!Min
<1>5. A!Taken \in Nat \ {0}
  BY <1>1, <1>4
<1>6. QED
  BY <1>1, <1>4, <1>5 DEF n

\* An answer to the client that is served, which is owed nothing yet.
LEMMA AnswerStep ==
  ASSUME A!AdminAssumption, AdminInv, A!Receiving,
         NEW s \in Deserved(serving), A!Answer(s),
         taken' \in [Clients -> Nat], taken'[serving] <= sent[serving],
         \A c \in Clients \ {serving} : taken'[c] = taken[c],
         UNCHANGED <<asks, sent, ended, reset, got, atOnce, admin_conn, serving, wire>>
  PROVE  AdminInv'
<1>1. serving # Nobody /\ response = <<>> /\ response' = <<s, s>>
  BY DEF A!Receiving, A!Answer, A!http_response
<1>2. /\ serving \in Clients /\ Unanswered(serving) /\ s \in Statuses
      /\ \A c \in Clients \ {serving} : Owed(c) = <<>>
  BY <1>1, ServedIs, DeservedIs DEF AdminInv, AdminTypes
<1>3. AdminTypes'
  <2>1. <<s, s>> \in Seq(Statuses) /\ Len(<<s, s>>) = 2
    BY <1>2
  <2>2. \A c \in Clients : taken'[c] <= sent'[c]
    BY DEF AdminInv, AdminTypes
  <2>3. QED
    BY <1>1, <2>1, <2>2 DEF AdminInv, AdminTypes
<1>4. \A c \in Clients : Out(c)' = Out(c)
  BY DEF Out
<1>5. \A c \in Clients \ {serving} : /\ Owed(c)' = Owed(c)
                                     /\ Unanswered(c)' = Unanswered(c)
  BY DEF Owed, Unanswered
<1>6. Owed(serving)' = <<s, s>>
  BY <1>1 DEF Owed
<1>7. RequestIsOwn'
  <2>1. ~Unanswered(serving)'
    BY <1>6 DEF Unanswered
  <2>2. QED
    BY <1>4, <1>5, <2>1 DEF AdminInv, RequestIsOwn
<1>8. AnswerIsOwn'
  <2>1. ASSUME NEW c \in Clients
        PROVE  \E t \in Deserved(c)' : /\ AtMost(Owed(c)', 2, t)
                                       /\ AtMost(Out(c)', 2 - Len(Owed(c)'), t)
    <3>1. CASE c = serving
      <4>1. AtMost(<<s, s>>, 2, s) /\ AtMost(<<>>, 2 - Len(<<s, s>>), s)
        BY DEF AtMost
      <4>2. Out(serving)' = <<>>
        BY <1>2, <1>4 DEF AdminInv, RequestIsOwn
      <4>3. Deserved(c)' = Deserved(c)
        BY DEF Deserved
      <4>4. QED
        BY <1>6, <3>1, <4>1, <4>2, <4>3
    <3>2. CASE c # serving
      BY <1>4, <1>5, <3>2, SameAnswers DEF AdminInv, AnswerIsOwn
    <3>3. QED
      BY <3>1, <3>2
  <2>2. QED
    BY <2>1 DEF AnswerIsOwn
<1>9. QED
  BY <1>3, <1>7, <1>8 DEF AdminInv

\* recv returns some bytes.
LEMMA RecvStep ==
  ASSUME A!AdminAssumption, AdminInv, A!Recv
  PROVE  AdminInv'
<1> DEFINE c == serving
           m == taken[serving]
           n == taken[serving] + A!Taken
           text == SubSeq(asks[serving], 1, n)
<1>1. /\ serving # Nobody /\ response = <<>> /\ A!Receiving /\ A!Taken > 0
      /\ taken' = [taken EXCEPT ![c] = n]
      /\ request' = request \o SubSeq(asks[c], m + 1, taken'[c])
      /\ \/ Len(request') > kMaxRequest /\ A!Answer("400")
         \/ /\ Len(request') <= kMaxRequest /\ A!Complete(request')
            /\ A!Answer(A!handle_request(request'))
         \/ Len(request') <= kMaxRequest /\ UNCHANGED response
      /\ UNCHANGED <<asks, sent, ended, reset, got, atOnce, admin_conn, serving, wire>>
  BY DEF A!Recv, A!Receiving, A!client
<1>2. /\ c \in Clients /\ Unanswered(c) /\ m \in Nat /\ Len(asks[c]) \in Nat
      /\ asks[c] \in Seq(STRING) /\ sent[c] <= Len(asks[c]) /\ sent[c] \in Nat
  BY <1>1, ServedIs, OfClient
<1>3. request = SubSeq(asks[c], 1, m) /\ Out(c) = <<>>
  BY <1>2 DEF AdminInv, RequestIsOwn
<1>4. n \in Nat /\ m <= n /\ n <= sent[c] /\ n \in 0 .. Len(asks[c])
  <2>1. A!Taken \in Nat \ {0} /\ n <= sent[c]
    BY <1>1, TakenIs
  <2>2. QED
    BY <1>2, <2>1
<1>5. taken' \in [Clients -> Nat] /\ taken'[c] = n
      /\ \A d \in Clients \ {c} : taken'[d] = taken[d]
  BY <1>1, <1>2, <1>4 DEF AdminInv, AdminTypes
<1>6. request' = text /\ Len(text) = n
  <2>1. request' = SubSeq(asks[c], 1, m) \o SubSeq(asks[c], m + 1, n)
    BY <1>1, <1>3, <1>5
  <2>2. n \in Nat /\ m <= n /\ n <= Len(asks[c])
    BY <1>2, <1>4
  <2> HIDE DEF n, m
  <2>3. QED
    BY <1>2, <2>1, <2>2, TextGrows, ZenonT(30)
<1>7. (IF n > kMaxRequest THEN "400" ELSE A!handle_request(text)) \in Deserved(c)
  BY <1>4 DEF Deserved
<1> HIDE DEF n, text
<1>8. kMaxRequest \in Nat
  BY AdminLimits
<1>9. CASE n > kMaxRequest /\ A!Answer("400")
  <2>1. "400" \in Deserved(c)
    BY <1>7, <1>9
  <2>2. QED
    BY <1>1, <1>4, <1>5, <1>9, <2>1, AnswerStep
<1>10. CASE n <= kMaxRequest /\ A!Answer(A!handle_request(text))
  <2>1. A!handle_request(text) \in Deserved(c)
    BY <1>4, <1>7, <1>8, <1>10
  <2>2. QED
    BY <1>1, <1>4, <1>5, <1>10, <2>1, AnswerStep
<1>11. CASE n <= kMaxRequest /\ UNCHANGED response
  <2>1. response' = response
    BY <1>11
  <2>2. \A d \in Clients : /\ Out(d)' = Out(d) /\ Owed(d)' = Owed(d)
                           /\ Unanswered(d)' = Unanswered(d)
    BY <1>1, <2>1 DEF Out, Owed, Unanswered
  <2>3. AdminTypes'
    BY <1>1, <1>4, <1>5, <2>1 DEF AdminInv, AdminTypes
  <2>4. request' = SubSeq(asks[c], 1, taken'[c]) /\ taken'[c] <= kMaxRequest
    BY <1>5, <1>6, <1>11 DEF text
  <2>5. RequestIsOwn'
    BY <1>1, <1>5, <2>2, <2>4 DEF AdminInv, RequestIsOwn
  <2>6. AnswerIsOwn'
    BY <1>1, <2>2, SameAnswers DEF AdminInv, AnswerIsOwn
  <2>7. QED
    BY <2>3, <2>5, <2>6 DEF AdminInv
<1>12. QED
  BY <1>1, <1>6, <1>9, <1>10, <1>11

\* recv returns no more, and what has come is taken for the request.
LEMMA RecvStopsStep ==
  ASSUME A!AdminAssumption, AdminInv, A!RecvStops
  PROVE  AdminInv'
<1> DEFINE m == taken[serving]
<1>1. /\ serving # Nobody /\ response = <<>> /\ A!Receiving
      /\ A!Answer(A!handle_request(request))
      /\ UNCHANGED <<asks, sent, ended, reset, got, atOnce, taken, admin_conn, serving, wire>>
  BY DEF A!RecvStops, A!Receiving, A!client
<1>2. /\ serving \in Clients /\ Unanswered(serving) /\ m \in Nat
      /\ m <= sent[serving] /\ m \in 0 .. Len(asks[serving])
  BY <1>1, ServedIs, OfClient
<1>3. request = SubSeq(asks[serving], 1, m) /\ m <= kMaxRequest
  BY <1>2 DEF AdminInv, RequestIsOwn
<1>4. (IF m > kMaxRequest THEN "400" ELSE A!handle_request(request))
        \in Deserved(serving)
  BY <1>2, <1>3 DEF Deserved
<1>5. A!handle_request(request) \in Deserved(serving)
  BY <1>2, <1>3, <1>4, AdminLimits
<1>6. taken' \in [Clients -> Nat]
  BY <1>1 DEF AdminInv, AdminTypes
<1>7. QED
  BY <1>1, <1>2, <1>5, <1>6, AnswerStep

\* A client that has been sent the beginning of one answer, and is owed the rest.
LEMMA PartsOfAnswer ==
  ASSUME NEW c \in Clients, asks' = asks, NEW s \in Deserved(c), NEW o, NEW u,
         Owed(c)' = o, Out(c)' = u, AtMost(o, 2, s), AtMost(u, 2 - Len(o), s)
  PROVE  \E t \in Deserved(c)' : /\ AtMost(Owed(c)', 2, t)
                                 /\ AtMost(Out(c)', 2 - Len(Owed(c)'), t)
<1>1. Deserved(c)' = Deserved(c)
  BY DEF Deserved
<1>2. QED
  BY <1>1, Zenon

\* The connection that is served is closed, with what its client may have been
\* sent of one answer.
LEMMA CloseConn ==
  ASSUME A!AdminAssumption, AdminInv, serving # Nobody,
         NEW w \in [Clients -> Seq(Statuses)], A!close_conn(w),
         Len(w[serving]) <= SocketRoom,
         \A c \in Clients \ {serving} : w[c] = wire[c],
         \E s \in Deserved(serving) : AtMost(got[serving] \o w[serving], 2, s),
         response' = <<>>,
         UNCHANGED <<asks, sent, ended, reset, got, atOnce, taken, request>>
  PROVE  AdminInv'
<1>1. /\ admin_conn' = [admin_conn EXCEPT ![serving] = "closed"]
      /\ serving' = Nobody
      /\ wire' = w \/ wire' = [w EXCEPT ![serving] = <<>>]
  BY DEF A!close_conn
<1>2. /\ serving \in Clients /\ got[serving] \in Seq(Statuses)
      /\ \A c \in Clients \ {serving} : Owed(c) = <<>>
      /\ \A c \in Clients : c # Nobody
  BY ServedIs, OfClient, AdminLimits
<1>3. /\ wire' \in [Clients -> Seq(Statuses)]
      /\ wire'[serving] = w[serving] \/ wire'[serving] = <<>>
      /\ \A c \in Clients \ {serving} : wire'[c] = wire[c]
      /\ \A c \in Clients : Len(wire'[c]) <= SocketRoom
  <2>1. CASE wire' = w
    BY <1>2, <2>1 DEF AdminInv, AdminTypes
  <2>2. CASE wire' = [w EXCEPT ![serving] = <<>>]
    <3>1. <<>> \in Seq(Statuses) /\ Len(<<>>) <= SocketRoom
      BY AdminLimits
    <3>2. /\ wire' \in [Clients -> Seq(Statuses)] /\ wire'[serving] = <<>>
          /\ \A c \in Clients \ {serving} : wire'[c] = wire[c]
      BY <1>2, <2>2, <3>1
    <3>3. \A c \in Clients : Len(wire'[c]) <= SocketRoom
      BY <1>2, <3>1, <3>2 DEF AdminInv, AdminTypes
    <3>4. QED
      BY <3>2, <3>3
  <2>3. QED
    BY <1>1, <2>1, <2>2
<1>4. AdminTypes'
  <2>1. /\ admin_conn' \in [Clients -> {"none", "queued", "watched", "closed"}]
        /\ <<>> \in Seq(Statuses) /\ Len(<<>>) <= 2
    BY <1>1 DEF AdminInv, AdminTypes
  <2>2. QED
    BY <1>1, <1>3, <2>1 DEF AdminInv, AdminTypes
<1>5. \A c \in Clients : Owed(c)' = <<>>
  BY <1>1, <1>2 DEF Owed
<1>6. \A c \in Clients \ {serving} : /\ Out(c)' = Out(c)
                                     /\ Owed(c)' = Owed(c)
                                     /\ Unanswered(c)' => Unanswered(c)
  <2>1. SUFFICES ASSUME NEW c \in Clients \ {serving}
                 PROVE  /\ Out(c)' = Out(c)
                        /\ Owed(c)' = Owed(c)
                        /\ Unanswered(c)' => Unanswered(c)
    BY Zenon
  <2>2. Owed(c) = <<>> /\ Owed(c)' = <<>>
    BY <1>2, <1>5
  <2>3. Out(c)' = Out(c)
    BY <1>3 DEF Out
  <2>4. admin_conn'[c] = admin_conn[c]
    BY <1>1 DEF AdminInv, AdminTypes
  <2>5. Unanswered(c)' => Unanswered(c)
    BY <2>2, <2>4 DEF Unanswered
  <2>6. QED
    BY <2>2, <2>3, <2>5
<1> PICK d \in Clients : d = serving
  BY <1>2
<1>7. ~Unanswered(d)'
  <2>1. admin_conn'[d] = "closed"
    BY <1>1, <1>2 DEF AdminInv, AdminTypes
  <2>2. QED
    BY <2>1 DEF Unanswered
<1>8. RequestIsOwn'
  <2>1. SUFFICES ASSUME NEW c \in Clients, Unanswered(c)'
                 PROVE  Out(c)' = <<>> /\ taken'[c] = 0 /\ c # serving'
    BY Zenon DEF RequestIsOwn
  <2>2. c # serving
    BY <1>7, <2>1, Zenon
  <2>3. Out(c) = <<>> /\ taken[c] = 0
    BY <1>6, <2>1, <2>2 DEF AdminInv, RequestIsOwn
  <2>4. QED
    BY <1>1, <1>2, <1>6, <2>2, <2>3
<1>9. AnswerIsOwn'
  <2>1. ASSUME NEW c \in Clients
        PROVE  \E s \in Deserved(c)' : /\ AtMost(Owed(c)', 2, s)
                                       /\ AtMost(Out(c)', 2 - Len(Owed(c)'), s)
    <3>1. CASE c = serving
      <4>1. PICK s \in Deserved(serving) : AtMost(got[serving] \o w[serving], 2, s)
        OBVIOUS
      <4>2. AtMost(got[serving], 2, s)
        BY <1>2, <4>1, AtMostFront
      <4>3. Out(d)' = got[serving] \o w[serving] \/ Out(d)' = got[serving]
        <5>1. <<>> \in Seq(Statuses)
          OBVIOUS
        <5>2. got[serving] \o <<>> = got[serving]
          BY <1>2, <5>1, Joined
        <5>3. Out(d)' = got[serving] \o wire'[serving]
          BY <1>1 DEF Out
        <5>4. QED
          BY <1>3, <5>2, <5>3
      <4>4. AtMost(Out(d)', 2, s)
        BY <4>1, <4>2, <4>3
      <4>5. AtMost(<<>>, 2, s) /\ 2 - Len(<<>>) = 2
        BY DEF AtMost
      <4>6. AtMost(Out(d)', 2 - Len(<<>>), s)
        BY <4>4, <4>5
      <4>7. Owed(d)' = <<>>
        BY <1>2, <1>5
      <4>8. QED
        BY <1>2, <3>1, <4>1, <4>5, <4>6, <4>7, PartsOfAnswer
    <3>2. CASE c # serving
      BY <1>6, <3>2, SameAnswers DEF AdminInv, AnswerIsOwn
    <3>3. QED
      BY <3>1, <3>2
  <2>2. QED
    BY <2>1 DEF AnswerIsOwn
<1>10. QED
  BY <1>4, <1>8, <1>9 DEF AdminInv

\* What the client that is served has been sent is a part of one answer.
LEMMA ServedPart ==
  ASSUME A!AdminAssumption, AdminInv, serving # Nobody
  PROVE  /\ wire \in [Clients -> Seq(Statuses)]
         /\ Len(wire[serving]) <= SocketRoom
         /\ \E s \in Deserved(serving) :
               /\ AtMost(response, 2, s)
               /\ AtMost(got[serving] \o wire[serving], 2 - Len(response), s)
               /\ AtMost(got[serving] \o wire[serving], 2, s)
<1>1. serving \in Clients /\ Owed(serving) = response
  BY ServedIs
<1>2. PICK s \in Deserved(serving) :
         /\ AtMost(response, 2, s)
         /\ AtMost(got[serving] \o wire[serving], 2 - Len(response), s)
  BY <1>1 DEF AdminInv, AnswerIsOwn, Out
<1> DEFINE n == Len(response)
           m == Len(got[serving] \o wire[serving])
<1>3. n \in 0 .. 2 /\ m \in Nat /\ m <= 2 - n
  <2>1. n \in 0 .. 2 /\ Out(serving) \in Seq(Statuses)
    BY <1>1, OfClient
  <2>2. m \in Nat
    BY <2>1, SeqIsFunction DEF Out
  <2>3. QED
    BY <1>2, <2>1, <2>2 DEF AtMost
<1>4. m <= 2
  <2> HIDE DEF n, m
  <2>1. QED
    BY <1>3
<1>5. AtMost(got[serving] \o wire[serving], 2, s)
  BY <1>2, <1>4 DEF AtMost
<1>6. QED
  BY <1>1, <1>2, <1>5 DEF AdminInv, AdminTypes

\* recv fails, or ends before anything came, or send_all gives up.
LEMMA FailSteps ==
  ASSUME A!AdminAssumption, AdminInv, A!RecvEndsEmpty \/ A!RecvFails \/ A!SendFails
  PROVE  AdminInv'
<1>1. /\ A!close_conn(wire) /\ response' = <<>>
      /\ UNCHANGED <<asks, sent, ended, reset, got, atOnce, taken, request>>
  BY DEF A!RecvEndsEmpty, A!RecvFails, A!SendFails, A!Receiving, A!client
<1>2. serving # Nobody
  BY DEF A!RecvEndsEmpty, A!RecvFails, A!SendFails, A!Receiving, AdminInv, AdminTypes
<1>3. QED
  BY <1>1, <1>2, ServedPart, CloseConn

\* send takes a part of the answer.
LEMMA SendPart ==
  ASSUME A!AdminAssumption, AdminInv, A!Send
  PROVE  AdminInv'
<1> DEFINE h == Head(response)
           v == Append(wire[serving], h)
           w == [wire EXCEPT ![serving] = v]
<1>1. /\ response # <<>> /\ Len(wire[serving]) < SocketRoom
      /\ response' = Tail(response)
      /\ IF response' = <<>> THEN A!close_conn(w)
         ELSE wire' = w /\ UNCHANGED <<admin_conn, serving>>
      /\ UNCHANGED <<asks, sent, ended, reset, got, atOnce, taken, request>>
  BY DEF A!Send, A!client
<1>2. serving # Nobody
  BY <1>1 DEF AdminInv, AdminTypes
<1>3. /\ serving \in Clients /\ Owed(serving) = response
      /\ \A c \in Clients \ {serving} : Owed(c) = <<>>
  BY <1>2, ServedIs
<1>4. /\ got[serving] \in Seq(Statuses) /\ wire[serving] \in Seq(Statuses)
      /\ Len(wire[serving]) \in Nat /\ SocketRoom \in Nat
      /\ response \in Seq(Statuses) /\ Len(response) \in 0 .. 2
  BY <1>3, OfClient, AdminLimits, SeqIsFunction
<1>5. PICK s \in Deserved(serving) :
         /\ AtMost(response, 2, s)
         /\ AtMost(got[serving] \o wire[serving], 2 - Len(response), s)
  BY <1>2, ServedPart
<1> DEFINE rest == Tail(response)
           k == 2 - Len(response)
<1>6. /\ h = s /\ s \in Statuses /\ rest \in Seq(Statuses) /\ AtMost(rest, 2, s)
      /\ k \in Nat /\ k + 1 = 2 - Len(rest) /\ k + 1 <= 2 /\ Len(rest) <= 2
  <2> DEFINE n == Len(response)
  <2>1. n \in 1 .. 2
    BY <1>1, <1>4, SeqIsFunction
  <2>2. /\ h = response[1] /\ h \in Statuses /\ rest \in Seq(Statuses) /\ Len(rest) = n - 1
        /\ \A i \in 1 .. n - 1 : rest[i] = response[i + 1]
    BY <1>1, <1>4
  <2>3. \A i \in 1 .. n : response[i] = s
    BY <1>5 DEF AtMost
  <2> HIDE DEF h, rest, n
  <2>4. h = s /\ \A i \in 1 .. n - 1 : rest[i] = s
    BY <2>1, <2>2, <2>3
  <2>5. n - 1 <= 2 /\ 2 - n \in Nat /\ 2 - n + 1 = 2 - (n - 1) /\ 2 - n + 1 <= 2
    BY <2>1
  <2>6. QED
    BY <2>2, <2>4, <2>5 DEF AtMost, n
<1>7. /\ AtMost(got[serving] \o v, k + 1, s)
      /\ v \in Seq(Statuses) /\ Len(v) = Len(wire[serving]) + 1
  <2> HIDE DEF h, rest
  <2>1. k \in Nat /\ AtMost(got[serving] \o wire[serving], k, s)
    BY <1>5, <1>6
  <2> HIDE DEF k
  <2>2. QED
    BY <1>4, <1>6, <2>1, AtMostMore
<1> HIDE DEF h, v, rest
<1>8. Len(v) <= SocketRoom
  BY <1>1, <1>4, <1>7
<1>9. /\ w \in [Clients -> Seq(Statuses)] /\ w[serving] = v
      /\ \A c \in Clients \ {serving} : w[c] = wire[c]
  BY <1>3, <1>7 DEF AdminInv, AdminTypes
<1> HIDE DEF w
<1>10. CASE response' = <<>>
  <2>1. A!close_conn(w)
    BY <1>1, <1>10
  <2>2. AtMost(got[serving] \o v, 2, s)
    <3>1. got[serving] \o v \in Seq(Statuses)
      BY <1>4, <1>7, Joined
    <3> DEFINE m == Len(got[serving] \o v)
    <3>2. m \in Nat /\ m <= k + 1
      BY <1>7, <3>1, SeqIsFunction DEF AtMost
    <3>3. m <= 2
      <4> HIDE DEF m, k
      <4>1. QED
        BY <1>6, <3>2
    <3>4. QED
      BY <1>7, <3>3 DEF AtMost
  <2>3. QED
    BY <1>1, <1>2, <1>8, <1>9, <1>10, <2>1, <2>2, CloseConn
<1>11. CASE response' # <<>>
  <2>1. wire' = w /\ UNCHANGED <<admin_conn, serving>> /\ response' = rest
    BY <1>1, <1>11 DEF rest
  <2>2. AdminTypes'
    <3>1. \A c \in Clients : Len(wire'[c]) <= SocketRoom
      BY <1>8, <1>9, <2>1 DEF AdminInv, AdminTypes
    <3>2. QED
      BY <1>1, <1>2, <1>6, <1>9, <2>1, <3>1 DEF AdminInv, AdminTypes
  <2> PICK d \in Clients : d = serving
    BY <1>3
  <2>3. Owed(d)' = rest /\ ~Unanswered(d)'
    BY <1>11, <2>1 DEF Owed, Unanswered
  <2>4. \A c \in Clients \ {serving} : /\ Out(c)' = Out(c) /\ Owed(c)' = Owed(c)
                                       /\ Unanswered(c)' = Unanswered(c)
    BY <1>1, <1>9, <2>1 DEF Out, Owed, Unanswered
  <2>5. RequestIsOwn'
    BY <1>1, <2>1, <2>3, <2>4 DEF AdminInv, RequestIsOwn
  <2>6. ASSUME NEW c \in Clients
        PROVE  \E t \in Deserved(c)' : /\ AtMost(Owed(c)', 2, t)
                                       /\ AtMost(Out(c)', 2 - Len(Owed(c)'), t)
    <3>1. CASE c = serving
      <4>1. Out(d)' = got[serving] \o v
        BY <1>1, <1>9, <2>1 DEF Out
      <4>2. AtMost(got[serving] \o v, 2 - Len(rest), s)
        BY <1>6, <1>7
      <4>3. asks' = asks
        BY <1>1
      <4>4. QED
        BY <1>3, <1>5, <1>6, <2>3, <3>1, <4>1, <4>2, <4>3, PartsOfAnswer
    <3>2. CASE c # serving
      BY <1>1, <2>4, <3>2, SameAnswers DEF AdminInv, AnswerIsOwn
    <3>3. QED
      BY <3>1, <3>2
  <2>7. AnswerIsOwn'
    BY <2>6 DEF AnswerIsOwn
  <2>8. QED
    BY <2>2, <2>5, <2>7 DEF AdminInv
<1>12. QED
  BY <1>10, <1>11

LEMMA NextAdminInv ==
  ASSUME A!AdminAssumption, AdminInv, [A!Next]_(A!vars)
  PROVE  AdminInv'
<1>1. CASE A!Next
  <2>1. CASE A!Loop
    <3>1. CASE A!accept_connections
      BY <3>1, AcceptConnections
    <3>2. ASSUME NEW c \in Clients, A!Readable(c)
          PROVE  AdminInv'
      BY <3>2, ReadableStep
    <3>3. CASE A!handle_connection
      BY <3>3, RecvStep, RecvStopsStep, FailSteps, SendPart DEF A!handle_connection
    <3>4. QED
      BY <2>1, <3>1, <3>2, <3>3 DEF A!Loop
  <2>2. ASSUME NEW c \in Clients,
               \/ A!Connect(c) \/ A!Shuts(c) \/ A!Resets(c) \/ A!Reads(c)
               \/ \E n \in 1 .. Len(asks[c]) : A!Sends(c, n)
        PROVE  AdminInv'
    BY <2>2, AsksStep, ResetsStep, ReadsStep
  <2>3. QED
    BY <1>1, <2>1, <2>2 DEF A!Next
<1>2. CASE UNCHANGED A!vars
  <2>1. UNCHANGED <<asks, sent, taken, ended, reset, admin_conn, wire, got, serving,
                    request, response, atOnce>>
    BY <1>2 DEF A!vars, A!client, A!server
  <2>2. AdminTypes'
    BY <2>1 DEF AdminInv, AdminTypes
  <2>3. QED
    BY <2>1, <2>2, QuietStep
<1>3. QED
  BY <1>1, <1>2

LEMMA AlwaysAdminInv == A!Spec => []AdminInv
<1>1. A!AdminAssumption
  BY TwoLoopsAssumption
<1>2. A!Init => AdminInv
  BY <1>1, InitAdminInv
<1>3. AdminInv /\ [A!Next]_(A!vars) => AdminInv'
  BY <1>1, NextAdminInv
<1>4. QED
  BY <1>2, <1>3, PTL DEF A!Spec

\* What a client has been sent is a part of one answer to it.
LEMMA SentIsOwn ==
  ASSUME A!AdminAssumption, AdminInv, NEW c \in Clients
  PROVE  /\ \E s \in Deserved(c) : AtMost(Out(c), 2, s)
         /\ Len(got[c]) <= 2
<1>1. PICK s \in Deserved(c) : AtMost(Out(c), 2 - Len(Owed(c)), s)
  BY DEF AdminInv, AnswerIsOwn
<1> DEFINE n == Len(Owed(c))
           m == Len(Out(c))
           g == Len(got[c])
           v == Len(wire[c])
<1>2. /\ n \in 0 .. 2 /\ m \in Nat /\ g \in Nat /\ v \in Nat
      /\ m <= 2 - n /\ m = g + v
  <2>1. n \in 0 .. 2 /\ Out(c) \in Seq(Statuses) /\ g \in Nat /\ v \in Nat
    BY OfClient
  <2>2. m \in Nat
    BY <2>1, SeqIsFunction
  <2>3. m = g + v
    BY OfClient, Joined DEF Out
  <2>4. QED
    BY <1>1, <2>1, <2>2, <2>3 DEF AtMost
<1>3. m <= 2 /\ g <= 2
  <2> HIDE DEF n, m, g, v
  <2>1. QED
    BY <1>2
<1>4. AtMost(Out(c), 2, s)
  BY <1>1, <1>3 DEF AtMost
<1>5. QED
  BY <1>3, <1>4

\* The first of a sequence.
LEMMA FirstOnes ==
  ASSUME NEW S, NEW seq \in Seq(S), NEW n \in Nat, n <= Len(seq)
  PROVE  /\ SubSeq(seq, 1, n) \in Seq(S) /\ Len(SubSeq(seq, 1, n)) = n
         /\ \A i \in 1 .. n : SubSeq(seq, 1, n)[i] = seq[i]
<1>1. Len(seq) \in Nat
  BY SeqIsFunction
<1>2. QED
  BY <1>1

\* The whole answer that AnswerIsOwn speaks of is http_response's.
LEMMA PartOfResponse ==
  ASSUME NEW seq \in Seq(Statuses), NEW s \in Statuses, AtMost(seq, 2, s)
  PROVE  A!IsPrefix(seq, A!http_response(s))
<1>1. Len(seq) \in Nat /\ Len(seq) <= 2 /\ \A i \in 1 .. Len(seq) : seq[i] = s
  BY SeqIsFunction DEF AtMost
<1> DEFINE whole == <<s, s>>
           n == Len(seq)
           u == SubSeq(whole, 1, n)
<1>2. Len(whole) = 2 /\ whole \in Seq(Statuses)
  OBVIOUS
<1>3. n \in Nat /\ n <= Len(whole) /\ 1 <= n + 1
  BY <1>1, <1>2
<1>4. /\ u \in Seq(Statuses) /\ Len(u) = n
      /\ \A i \in 1 .. n : u[i] = whole[i]
  <2> HIDE DEF whole, n
  <2>1. QED
    BY <1>2, <1>3, FirstOnes
<1>5. \A i \in 1 .. n : u[i] = seq[i]
  <2>1. \A i \in 1 .. 2 : whole[i] = s
    OBVIOUS
  <2> HIDE DEF whole, u
  <2>2. QED
    BY <1>1, <1>4, <2>1
<1>6. u = seq
  <2> HIDE DEF u, n
  <2>1. QED
    BY <1>4, <1>5, SeqEqual DEF n
<1>7. QED
  BY <1>1, <1>2, <1>6 DEF A!IsPrefix, A!http_response

\* The counts of what clients sent, of what was received and of the parts of an
\* answer stay within each other, and the connection that is served is watched:
\* handle_connection closes each connection once, and only the one it serves.
THEOREM AdminTypeCorrect == A!Spec => []A!TypeOK
<1>1. ASSUME AdminInv
      PROVE  A!TypeOK
  <2>1. A!AdminAssumption
    BY TwoLoopsAssumption
  <2>2. \A c \in Clients : /\ 0 <= taken[c] /\ taken[c] <= sent[c] /\ sent[c] <= Len(asks[c])
                           /\ Len(wire[c]) <= SocketRoom
    BY <1>1, <2>1, OfClient DEF AdminInv, AdminTypes
  <2>3. ASSUME NEW c \in Clients
        PROVE  Len(got[c]) <= 2
    BY <1>1, <2>1, SentIsOwn
  <2>4. QED
    BY <1>1, <2>2, <2>3, Zenon DEF AdminInv, AdminTypes, A!TypeOK
<1>2. QED
  BY <1>1, AlwaysAdminInv, PTL

\* Whatever the clients send, cut and reset, and in whatever order the loop
\* finds them, a client is sent one answer at most, to its own request.
THEOREM AnswerGoesToItsClient == A!Spec => []AnswersItsOwn
<1>1. ASSUME AdminInv
      PROVE  AnswersItsOwn
  <2>1. A!AdminAssumption
    BY TwoLoopsAssumption
  <2>2. SUFFICES ASSUME NEW c \in Clients
                 PROVE  \E n \in 0 .. Len(asks[c]) :
                           A!IsPrefix(got[c] \o wire[c],
                              A!http_response(IF n > kMaxRequest THEN "400"
                                              ELSE A!handle_request(SubSeq(asks[c], 1, n))))
    BY Zenon DEF AnswersItsOwn, A!AnswersItsOwn
  <2>3. PICK s \in Deserved(c) : AtMost(Out(c), 2, s)
    BY <1>1, <2>1, SentIsOwn
  <2>4. A!IsPrefix(got[c] \o wire[c], A!http_response(s))
    BY <1>1, <2>1, <2>3, OfClient, DeservedIs, PartOfResponse DEF Out, AdminInv, AdminTypes
  <2>5. QED
    BY <2>4, Zenon DEF Deserved
<1>2. QED
  BY <1>1, AlwaysAdminInv, PTL
=============================================================================
