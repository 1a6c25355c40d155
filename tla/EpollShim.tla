------------------------------ MODULE EpollShim ------------------------------
(***************************************************************************)
(* epoll_compat.h, the epoll of the builds that have only poll, under the  *)
(* two loops that use it at once: the server's and the admin's, each with  *)
(* an instance of its own, in a table and on descriptor numbers that they  *)
(* share.                                                                  *)
(*                                                                         *)
(* The shim knows a connection by its descriptor, whose number is given    *)
(* out again as soon as it is closed; unlike the kernel's epoll it is not  *)
(* told of that.  The loops are here what they ask of the shim; what they  *)
(* do with their connections is in modules Server and Admin.               *)
(***************************************************************************)
EXTENDS Integers, FiniteSetsExt, Functions

CONSTANTS
  MaxFd,       \* connections' descriptors are 1 .. MaxFd
  MaxConns,    \* bound on the connections made
  kMaxEvents   \* the size of the loops' array of events

ASSUME ShimAssumption == {MaxFd, MaxConns, kMaxEvents} \subseteq Nat \ {0}

Loops == {"server", "admin"}
Fds == 1 .. MaxFd
Closed == 0

\* The listening sockets, which stay open.
listen_fd_ == [server |-> MaxFd + 1, admin |-> MaxFd + 2]

VARIABLES
  next_fd,    \* the number of instances that epoll_create1 has numbered
  instances,  \* each instance's watches: what is watched for on a descriptor
  epfd,       \* each loop's instance, 0 before it has one
  at,         \* where each loop is
  pfds,       \* the copy of the watches that epoll_wait has made and polls
  events,     \* the events it has returned and the loop not seen to
  conn,       \* the connection that is open under each descriptor, or Closed
  owner,      \* the loop that accepted it, when there is one
  state,      \* what poll says of it: subsets of "in", "out" and "hup"
  queue,      \* the connections a loop has not accepted
  conns       \* the connections made so far

shim == <<next_fd, instances, epfd, at, pfds, events>>
kernel == <<conn, owner, state, queue, conns>>
vars == <<shim, kernel>>

Goes(l, here, there) == at[l] = here /\ at' = [at EXCEPT ![l] = there]
Watches(l) == instances[epfd[l]]

\* What poll says of a descriptor.
Says(d) ==
  IF d \in Fds THEN IF conn[d] = Closed THEN {"hup"} ELSE state[d]
  ELSE {x \in {"in"} : \E l \in Loops : d = listen_fd_[l] /\ queue[l] # {}}
-----------------------------------------------------------------------------
(***************************************************************************)
(* The shim.                                                               *)
(***************************************************************************)
\* A table after its operator[] has assigned these entries, and one of them.
Assigned(table, entries) ==
  [k \in DOMAIN table \cup DOMAIN entries |->
     IF k \in DOMAIN entries THEN entries[k] ELSE table[k]]
Entry(k, value) == [x \in {k} |-> value]

\* epoll_create1 takes a number,
epoll_create1(l) ==
  /\ Goes(l, "none", "numbered")
  /\ next_fd' = next_fd + 1
  /\ epfd' = [epfd EXCEPT ![l] = next_fd']
  /\ UNCHANGED <<instances, pfds, events, kernel>>

\* and then enters it in the table; the loop adds its listening socket.
Registers(l) ==
  /\ Goes(l, "numbered", "calling")
  /\ instances' = Assigned(instances, Entry(epfd[l], Entry(listen_fd_[l], {"in"})))
  /\ UNCHANGED <<next_fd, epfd, pfds, events, kernel>>

\* epoll_ctl on a loop's instance, for ADD and MOD and for DEL.
Sets(l, watches) == instances' = [instances EXCEPT ![epfd[l]] =
                                    Assigned(@, watches)]
Deletes(l, d) == instances' = [instances EXCEPT ![epfd[l]] =
                                 Restrict(@, DOMAIN @ \ {d})]

\* epoll_wait copies the watches,
Copies(l) ==
  /\ Goes(l, "calling", "polling")
  /\ pfds' = [pfds EXCEPT ![l] = Watches(l)]
  /\ UNCHANGED <<next_fd, instances, epfd, events, kernel>>

\* What poll returns for a descriptor: hang-ups are never masked.
Polled(l, d) == Says(d) \cap (pfds[l][d] \cup {"hup"})

\* What becomes of it: only what was asked for, or that and the hang-ups.
ReventsAsked(l, d) == Polled(l, d) \ {"hup"}
Revents(l, d) == Polled(l, d)

\* As many as there are, or as many as the caller has room for.
CountAll(n) == n
Count(n) == Min({n, kMaxEvents})

\* and returns when poll does, with the first of the events, in the arbitrary
\* order of the table.
epoll_wait(l) ==
  LET polled == {d \in DOMAIN pfds[l] : Polled(l, d) # {}}
      ready == {d \in polled : Revents(l, d) # {}}
  IN  /\ polled # {}
      /\ Goes(l, "polling", "serving")
      /\ \E first \in kSubset(Count(Cardinality(ready)), ready) :
            events' = [events EXCEPT ![l] =
              {[on |-> d, revents |-> Revents(l, d),
                conn |-> IF d \in Fds THEN conn[d] ELSE Closed] : d \in first}]
      /\ pfds' = [pfds EXCEPT ![l] = [d \in {} |-> {}]]
      /\ UNCHANGED <<next_fd, instances, epfd, kernel>>
-----------------------------------------------------------------------------
(***************************************************************************)
(* The loops.                                                              *)
(***************************************************************************)
SeenTo(l, e) ==
  /\ at[l] = "serving" /\ e \in events[l]
  /\ events' = [events EXCEPT ![l] = @ \ {e}]
  /\ UNCHANGED <<next_fd, epfd, at, pfds>>

Lowest(S, n) == {x \in S : Cardinality({y \in S : y < x}) < n}

\* accept gives the lowest free descriptors.  When there are none it fails, and
\* connections stay queued.
accept_connections(l, e) ==
  LET free == {d \in Fds : conn[d] = Closed}
      n == Min({Cardinality(free), Cardinality(queue[l])})
      fds == Lowest(free, n)
      accepted == Lowest(queue[l], n)
      on(fd) == Max(Lowest(accepted, Cardinality({d \in fds : d <= fd})))
  IN  /\ e.on = listen_fd_[l]
      /\ SeenTo(l, e)
      /\ conn' = [fd \in Fds |-> IF fd \in fds THEN on(fd) ELSE conn[fd]]
      /\ owner' = [fd \in Fds |-> IF fd \in fds THEN l ELSE owner[fd]]
      /\ state' = [fd \in Fds |-> IF fd \in fds THEN {"out"} ELSE state[fd]]
      /\ queue' = [queue EXCEPT ![l] = @ \ accepted]
      /\ Sets(l, [fd \in fds |-> {"in"}])
      /\ UNCHANGED conns

\* close
Gone(fd) ==
  /\ conn' = [conn EXCEPT ![fd] = Closed]
  /\ owner' = [owner EXCEPT ![fd] = "server"]
  /\ state' = [state EXCEPT ![fd] = {}]
  /\ UNCHANGED <<queue, conns>>

\* The descriptor is closed with its watch left behind.
close_fdOnly(l, fd) ==
  /\ Gone(fd)
  /\ UNCHANGED instances

\* close_client and close_conn: EPOLL_CTL_DEL, and close.
close_fd(l, fd) ==
  /\ Deletes(l, fd)
  /\ Gone(fd)

\* The connection has ended, or the loop ends it; the admin's always does.
Closes(l, e) ==
  /\ e.on \in Fds
  /\ SeenTo(l, e)
  /\ close_fd(l, e.on)

\* The server reads when there is input, and sends all of its output or what the
\* socket takes.
\* update_watch then watches for output while some of it is left.
Serves(l, e) ==
  /\ l = "server" /\ e.on \in Fds
  /\ "hup" \notin Says(e.on)
  /\ SeenTo(l, e)
  /\ \E blocked \in BOOLEAN :
        /\ Sets(l, Entry(e.on, IF blocked THEN {"in", "out"} ELSE {"in"}))
        /\ state' = [state EXCEPT ![e.on] =
             (@ \cap ({"in"} \ e.revents)) \cup (IF blocked THEN {} ELSE {"out"})]
  /\ UNCHANGED <<conn, owner, queue, conns>>

\* The events are all seen to.
CallsAgain(l) ==
  /\ events[l] = {}
  /\ Goes(l, "serving", "calling")
  /\ UNCHANGED <<next_fd, instances, epfd, pfds, events, kernel>>
-----------------------------------------------------------------------------
(***************************************************************************)
(* The clients.                                                            *)
(***************************************************************************)
Connect(l) ==
  /\ at[l] \notin {"none", "numbered"}
  /\ conns < MaxConns
  /\ conns' = conns + 1
  /\ queue' = [queue EXCEPT ![l] = @ \cup {conns'}]
  /\ UNCHANGED <<shim, conn, owner, state>>

\* A client sends, reads, or goes away.
Turns(fd, to) ==
  /\ conn[fd] # Closed
  /\ to \notin state[fd] /\ "hup" \notin state[fd]
  /\ state' = [state EXCEPT ![fd] = @ \cup {to}]
  /\ UNCHANGED <<shim, conn, owner, queue, conns>>

Init ==
  /\ next_fd = 0 /\ instances = [n \in {} |-> {}]
  /\ epfd = [l \in Loops |-> 0] /\ at = [l \in Loops |-> "none"]
  /\ pfds = [l \in Loops |-> [d \in {} |-> {}]]
  /\ events = [l \in Loops |-> {}]
  /\ conn = [fd \in Fds |-> Closed] /\ owner = [fd \in Fds |-> "server"]
  /\ state = [fd \in Fds |-> {}]
  /\ queue = [l \in Loops |-> {}] /\ conns = 0

Loop(l) ==
  \/ epoll_create1(l) \/ Registers(l)
  \/ Copies(l) \/ epoll_wait(l)
  \/ \E e \in events[l] : accept_connections(l, e) \/ Serves(l, e) \/ Closes(l, e)
  \/ CallsAgain(l)

Next ==
  \/ \E l \in Loops : Loop(l) \/ Connect(l)
  \/ \E fd \in Fds, to \in {"in", "out", "hup"} : Turns(fd, to)

\* Both threads run.  Clients need not do anything.
Spec == Init /\ [][Next]_vars /\ \A l \in Loops : WF_vars(Loop(l))
-----------------------------------------------------------------------------
TypeOK ==
  /\ next_fd \in 0 .. 2 /\ DOMAIN instances \subseteq 1 .. next_fd
  /\ epfd \in [Loops -> 0 .. next_fd]
  /\ at \in [Loops -> {"none", "numbered", "calling", "polling", "serving"}]
  /\ \A l \in Loops : /\ DOMAIN pfds[l] \subseteq Fds \cup {listen_fd_[l]}
                      /\ \A e \in events[l] : e.revents # {}
  /\ conn \in [Fds -> 0 .. conns] /\ owner \in [Fds -> Loops]
  /\ state \in [Fds -> SUBSET {"in", "out", "hup"}]
  /\ queue \in [Loops -> SUBSET (1 .. conns)] /\ conns \in 0 .. MaxConns

\* No event is for another's connection: when a loop comes to an event that
\* epoll_wait returned, its descriptor is still that of the same connection,
\* and one of the loop's own, however the two loops close and accept meanwhile.
\* Nor is any written past the end of the loop's array.
NoStrayEvents ==
  \A l \in Loops :
     /\ Cardinality(events[l]) <= kMaxEvents
     /\ \A e \in events[l] :
          e.on \in Fds => /\ conn[e.on] = e.conn /\ e.conn # Closed
                          /\ owner[e.on] = l

\* What a loop has to see to: what poll says of what it watches.
Due(l) ==
  IF epfd[l] \notin DOMAIN instances THEN {}
  ELSE {d \in DOMAIN Watches(l) : Says(d) \cap (Watches(l)[d] \cup {"hup"}) # {}}
Waits(c) == \E fd \in Fds : conn[fd] = c /\ fd \in Due(owner[fd])

\* epoll_wait reports what is ready: input, room for the output that is watched
\* for, and hang-ups nobody asked for, of every connection.  While more
\* descriptors are ready at once than a loop's array holds some are left out of
\* it; they are not lost, and come once no more are ready than fit.
ReadyIsServed ==
  <>[](\A l \in Loops : Cardinality(Due(l)) <= kMaxEvents)
    => \A c \in 1 .. MaxConns : Waits(c) ~> ~Waits(c)
=============================================================================
