------------------------------- MODULE Server -------------------------------
(***************************************************************************)
(* The client event loop of Server: accept, read, execute, queue, send.    *)
(*                                                                         *)
(* One thread runs the loop; clients and the kernel's socket buffers move  *)
(* between any two of its system calls.  epoll_wait reports a descriptor   *)
(* at most once, and handling its event closes no other, so a batch of     *)
(* events is handled here one by one, with flags that may be stale by the  *)
(* time they are acted on.  A descriptor is used again after it is closed. *)
(*                                                                         *)
(* A command is what the parser makes of the bytes received: one that is   *)
(* answered by a short reply or by a stored blob, a blank one that is not  *)
(* answered, or a protocol error.  The bytes of a reply are numbered.      *)
(* Calls that EINTR makes the code repeat are left out.                    *)
(***************************************************************************)
EXTENDS Integers, Sequences

CONSTANTS
  Fds,               \* the descriptors the kernel hands out
  kMaxQueuedChunks,
  SocketBuffer,      \* bytes the kernel holds for a client that does not read
  MaxCommands,       \* bound on the commands of a connection
  MaxConnections     \* bound on the connections made

ASSUME ServerAssumption ==
  /\ {kMaxQueuedChunks, SocketBuffer} \subseteq Nat \ {0}
  /\ {MaxCommands, MaxConnections} \subseteq Nat

Commands == {"short", "blob", "blank", "error"}

VARIABLES
  client,       \* what is at the other end of each descriptor
  input,        \* commands sent and not yet received
  unread,       \* bytes sent to the client and not yet read by it
  parsers,      \* the descriptors in parsers_
  outbox,       \* outbox_: the chunks queued, <<>> when there is no queue
  watch,        \* watch_flags_, and what epoll watches the descriptor for
  loop,         \* where the loop is
  connections,  \* the connections made so far
  sent,         \* the commands this connection's client has sent so far
  executed,     \* history: this connection's commands answered, in order
  wire          \* history: the bytes sent on this connection

clientVars == <<client, input, unread, connections, sent>>
serverVars == <<parsers, outbox, watch, loop, executed, wire>>
vars == <<clientVars, serverVars>>

\* The bytes of the head, the blob and the tail of a reply, and of all of it.
SizeOf(command) == IF command = "blob" THEN <<1, 2, 1>> ELSE <<1, 0, 0>>
Length(command) == LET s == SizeOf(command) IN s[1] + s[2] + s[3]

ErrorByte == <<0, 0>>

Waiting == [at |-> "waiting"]
Space(fd) == SocketBuffer - unread[fd]

\* The loop acts on the event of fd and is at `at'.
Handling(fd, at) == loop.at = at /\ loop.fd = fd
Goes(at) == loop' = [loop EXCEPT !.at = at]
-----------------------------------------------------------------------------
(***************************************************************************)
(* Clients.                                                                *)
(***************************************************************************)
\* The kernel gives the descriptor to a new connection.
Connect(fd) ==
  /\ client[fd] = "none"
  /\ connections < MaxConnections
  /\ connections' = connections + 1
  /\ client' = [client EXCEPT ![fd] = "connecting"]
  /\ input' = [input EXCEPT ![fd] = <<>>]
  /\ unread' = [unread EXCEPT ![fd] = 0]
  /\ sent' = [sent EXCEPT ![fd] = 0]
  /\ UNCHANGED serverVars

ClientSends(fd, command) ==
  /\ client[fd] \in {"connecting", "open"}
  /\ sent[fd] < MaxCommands
  /\ sent' = [sent EXCEPT ![fd] = @ + 1]
  /\ input' = [input EXCEPT ![fd] = Append(@, command)]
  /\ UNCHANGED <<client, unread, connections, serverVars>>

ClientReads(fd) ==
  /\ client[fd] \in {"open", "shut"}
  /\ \E n \in 1 .. unread[fd] : unread' = [unread EXCEPT ![fd] = @ - n]
  /\ UNCHANGED <<client, input, connections, sent, serverVars>>

\* The client sends no more, and still reads.
ClientShuts(fd) ==
  /\ client[fd] = "open"
  /\ client' = [client EXCEPT ![fd] = "shut"]
  /\ UNCHANGED <<input, unread, connections, sent, serverVars>>

ClientResets(fd) ==
  /\ client[fd] \in {"open", "shut"}
  /\ client' = [client EXCEPT ![fd] = "reset"]
  /\ input' = [input EXCEPT ![fd] = <<>>]
  /\ UNCHANGED <<unread, connections, sent, serverVars>>
-----------------------------------------------------------------------------
\* close_client without outbox_.erase.
close_clientKeepsOutbox(fd) ==
  /\ client' = [client EXCEPT ![fd] = "none"]
  /\ parsers' = parsers \ {fd}
  /\ watch' = [watch EXCEPT ![fd] = {}]
  /\ loop' = Waiting
  /\ UNCHANGED <<outbox, input, unread, connections, sent, executed>>

\* close_client(fd), and back to the event loop.
close_client(fd) ==
  /\ client' = [client EXCEPT ![fd] = "none"]
  /\ parsers' = parsers \ {fd}
  /\ outbox' = [outbox EXCEPT ![fd] = <<>>]
  /\ watch' = [watch EXCEPT ![fd] = {}]
  /\ loop' = Waiting
  /\ UNCHANGED <<input, unread, connections, sent, executed>>

\* accept_connections: everyone who has connected.
Accept ==
  LET new == {fd \in Fds : client[fd] = "connecting"}
  IN  /\ loop = Waiting
      /\ new # {}
      /\ client' = [fd \in Fds |-> IF fd \in new THEN "open" ELSE client[fd]]
      /\ parsers' = parsers \cup new
      /\ watch' = [fd \in Fds |-> IF fd \in new THEN {"IN"} ELSE watch[fd]]
      /\ executed' = [fd \in Fds |-> IF fd \in new THEN <<>> ELSE executed[fd]]
      /\ wire' = [fd \in Fds |-> IF fd \in new THEN <<>> ELSE wire[fd]]
      /\ UNCHANGED <<input, unread, connections, sent, outbox, loop>>

\* What epoll reports of a descriptor it watches: readable when there is input,
\* an end of file or an error; writable when there is space; a hangup is
\* reported whatever is watched for, with or without EPOLLIN.
Readiness(fd) ==
  LET in == IF input[fd] # <<>> \/ client[fd] = "shut" THEN {"IN"} ELSE {}
      out == IF Space(fd) > 0 THEN {"OUT"} ELSE {}
  IN  IF client[fd] = "reset" THEN {{"HUP"}, {"IN", "HUP"}}
                              ELSE {(in \cup out) \cap watch[fd]}

\* epoll_wait reports fd.
Event(fd) ==
  /\ loop = Waiting
  /\ fd \in parsers
  /\ \E flags \in Readiness(fd) \ {{}} :
        loop' = [at |-> IF "IN" \in flags THEN "reading"
                        ELSE IF "HUP" \in flags THEN "hangup" ELSE "writable",
                 fd |-> fd, flags |-> flags, buf |-> <<>>]
  /\ UNCHANGED <<clientVars, parsers, outbox, watch, executed, wire>>

\* EPOLLERR or EPOLLHUP alone, or left over when the rest is handled.
Hangup(fd) ==
  /\ Handling(fd, "hangup")
  /\ close_client(fd)
  /\ UNCHANGED wire
-----------------------------------------------------------------------------
(***************************************************************************)
(* handle_readable.                                                        *)
(***************************************************************************)
\* recv returns some of what the client has sent.
Recv(fd) ==
  /\ Handling(fd, "reading")
  /\ \E n \in 1 .. Len(input[fd]) :
        /\ loop' = [loop EXCEPT !.at = "parsing",
                                !.buf = SubSeq(input[fd], 1, n)]
        /\ input' = [input EXCEPT ![fd] = SubSeq(@, n + 1, Len(@))]
  /\ UNCHANGED <<client, unread, connections, sent, parsers, outbox, watch,
                 executed, wire>>

\* recv returns 0, or fails on a connection that was reset.
RecvEnds(fd) ==
  /\ Handling(fd, "reading")
  /\ input[fd] = <<>>
  /\ client[fd] \in {"shut", "reset"}
  /\ close_client(fd)
  /\ UNCHANGED wire

\* Where the event loop goes when fd has been read: on to EPOLLOUT, or to the
\* hangup it reported too.
AfterReading ==
  CASE "OUT" \in loop.flags -> "writable"
    [] "HUP" \in loop.flags -> "hangup"
    [] OTHER -> "done"

\* recv would block: everything has been read.
RecvBlocks(fd) ==
  /\ Handling(fd, "reading")
  /\ input[fd] = <<>>
  /\ client[fd] = "open"
  /\ Goes(AfterReading)
  /\ UNCHANGED <<clientVars, parsers, outbox, watch, executed, wire>>

\* The bytes received are used up: recv again.
ParseMore(fd) ==
  /\ Handling(fd, "parsing")
  /\ loop.buf = <<>>
  /\ Goes("reading")
  /\ UNCHANGED <<clientVars, parsers, outbox, watch, executed, wire>>

\* A protocol error is sent past the outbox, as far as there is space, and
\* the client is closed.
ParseError(fd) ==
  /\ Handling(fd, "parsing")
  /\ loop.buf # <<>> /\ Head(loop.buf) = "error"
  /\ wire' = IF Space(fd) > 0 /\ client[fd] # "reset"
             THEN [wire EXCEPT ![fd] = Append(@, ErrorByte)] ELSE wire
  /\ close_client(fd)

\* A command without a verb is passed over.
ParseBlank(fd) ==
  /\ Handling(fd, "parsing")
  /\ loop.buf # <<>> /\ Head(loop.buf) = "blank"
  /\ loop' = [loop EXCEPT !.buf = Tail(@)]
  /\ UNCHANGED <<clientVars, parsers, outbox, watch, executed, wire>>

\* queue_response of the answer to a command, where n is its number: the chunk
\* is queued and sending begins.
Queued(fd, n, command) ==
  Append(outbox[fd],
         [reply |-> n, size |-> SizeOf(command), sent |-> <<0, 0, 0>>])

\* A command is executed, and its reply would overfill the queue: the client is
\* closed.
ExecuteOverflows(fd) ==
  /\ Handling(fd, "parsing")
  /\ loop.buf # <<>> /\ Head(loop.buf) \in {"short", "blob"}
  /\ Len(outbox[fd]) >= kMaxQueuedChunks
  /\ close_client(fd)
  /\ UNCHANGED wire

\* An Execute whose limit is one too high.
ExecuteLate(fd) ==
  /\ Handling(fd, "parsing")
  /\ loop.buf # <<>> /\ Head(loop.buf) \in {"short", "blob"}
  /\ Len(outbox[fd]) <= kMaxQueuedChunks
  /\ outbox' = [outbox EXCEPT
                  ![fd] = Queued(fd, Len(executed[fd]) + 1, Head(loop.buf))]
  /\ executed' = [executed EXCEPT ![fd] = Append(@, Head(loop.buf))]
  /\ loop' = [loop EXCEPT !.at = "sending", !.buf = Tail(@)]
  /\ UNCHANGED <<clientVars, parsers, watch, wire>>

\* A command is executed, and its reply queued.
Execute(fd) ==
  /\ Handling(fd, "parsing")
  /\ loop.buf # <<>> /\ Head(loop.buf) \in {"short", "blob"}
  /\ Len(outbox[fd]) < kMaxQueuedChunks
  /\ outbox' = [outbox EXCEPT
                  ![fd] = Queued(fd, Len(executed[fd]) + 1, Head(loop.buf))]
  /\ executed' = [executed EXCEPT ![fd] = Append(@, Head(loop.buf))]
  /\ loop' = [loop EXCEPT !.at = "sending", !.buf = Tail(@)]
  /\ UNCHANGED <<clientVars, parsers, watch, wire>>
-----------------------------------------------------------------------------
(***************************************************************************)
(* try_send, from queue_response ("sending") or from the event loop        *)
(* ("writable").                                                           *)
(***************************************************************************)
Sending(fd) == Handling(fd, "sending") \/ Handling(fd, "writable")

\* The part of a chunk to send next, 4 when it is done.
Part(chunk) ==
  CHOOSE p \in 1 .. 4 :
     /\ p < 4 => chunk.sent[p] < chunk.size[p]
     /\ \A q \in 1 .. p - 1 : chunk.sent[q] = chunk.size[q]

\* The bytes of a chunk that come before a part.
Before(chunk, p) ==
  LET upTo[q \in 0 .. 3] == IF q = 0 THEN 0 ELSE upTo[q - 1] + chunk.size[q]
  IN  upTo[p - 1]

\* A chunk is done: it leaves the queue.
SendPops(fd) ==
  /\ Sending(fd)
  /\ outbox[fd] # <<>> /\ Part(Head(outbox[fd])) = 4
  /\ outbox' = [outbox EXCEPT ![fd] = Tail(@)]
  /\ UNCHANGED <<clientVars, parsers, watch, loop, executed, wire>>

\* send takes some bytes of the part: no more than there is space for.
Send(fd) ==
  LET chunk == Head(outbox[fd])
      p == Part(chunk)
      left == chunk.size[p] - chunk.sent[p]
      at == Before(chunk, p) + chunk.sent[p]
  IN  /\ Sending(fd)
      /\ outbox[fd] # <<>> /\ p < 4
      /\ client[fd] # "reset"
      /\ \E n \in 1 .. IF left < Space(fd) THEN left ELSE Space(fd) :
            /\ outbox' = [outbox EXCEPT ![fd][1].sent[p] = @ + n]
            /\ unread' = [unread EXCEPT ![fd] = @ + n]
            /\ wire' = [wire EXCEPT
                          ![fd] = @ \o [i \in 1 .. n |-> <<chunk.reply, at + i>>]]
      /\ UNCHANGED <<client, input, connections, sent, parsers, watch, loop,
                     executed>>

\* send fails on a connection that was reset.
SendFails(fd) ==
  /\ Sending(fd)
  /\ outbox[fd] # <<>> /\ Part(Head(outbox[fd])) < 4
  /\ client[fd] = "reset"
  /\ close_client(fd)
  /\ UNCHANGED wire

\* An update_watch that forgets EPOLLOUT.
update_watchInOnly(fd) == watch' = [watch EXCEPT ![fd] = {"IN"}]

\* An update_watch that asks for EPOLLOUT all the time.
update_watchBoth(fd) == watch' = [watch EXCEPT ![fd] = {"IN", "OUT"}]

\* update_watch(fd)
update_watch(fd) ==
  watch' = [watch EXCEPT ![fd] =
              IF outbox[fd] = <<>> THEN {"IN"} ELSE {"IN", "OUT"}]

\* The queue is empty, or send would block: try_send returns to its caller.
SendStops(fd) ==
  /\ Sending(fd)
  /\ \/ outbox[fd] = <<>>
     \/ /\ outbox[fd] # <<>> /\ Part(Head(outbox[fd])) < 4
        /\ client[fd] # "reset"
        /\ Space(fd) = 0
  /\ update_watch(fd)
  /\ Goes(CASE loop.at = "sending" -> "parsing"
            [] "HUP" \in loop.flags -> "hangup"
            [] OTHER -> "done")
  /\ UNCHANGED <<clientVars, parsers, outbox, executed, wire>>

\* The event is handled.
Done(fd) ==
  /\ Handling(fd, "done")
  /\ loop' = Waiting
  /\ UNCHANGED <<clientVars, parsers, outbox, watch, executed, wire>>
-----------------------------------------------------------------------------
Init ==
  /\ client = [fd \in Fds |-> "none"]
  /\ input = [fd \in Fds |-> <<>>]
  /\ unread = [fd \in Fds |-> 0]
  /\ parsers = {}
  /\ outbox = [fd \in Fds |-> <<>>]
  /\ watch = [fd \in Fds |-> {}]
  /\ loop = Waiting
  /\ connections = 0
  /\ sent = [fd \in Fds |-> 0]
  /\ executed = [fd \in Fds |-> <<>>]
  /\ wire = [fd \in Fds |-> <<>>]

Handle(fd) ==
  \/ Event(fd) \/ Hangup(fd)
  \/ Recv(fd) \/ RecvEnds(fd) \/ RecvBlocks(fd)
  \/ ParseMore(fd) \/ ParseError(fd) \/ ParseBlank(fd)
  \/ ExecuteOverflows(fd) \/ Execute(fd)
  \/ SendPops(fd) \/ Send(fd) \/ SendFails(fd) \/ SendStops(fd)
  \/ Done(fd)

Clients(fd) ==
  \/ Connect(fd)
  \/ \E command \in Commands : ClientSends(fd, command)
  \/ ClientReads(fd)
  \/ ClientShuts(fd)
  \/ ClientResets(fd)

\* The bound on connections is reached and everyone has left.
Over ==
  /\ connections = MaxConnections
  /\ \A fd \in Fds : client[fd] = "none"
  /\ UNCHANGED vars

Next == Accept \/ (\E fd \in Fds : Handle(fd) \/ Clients(fd)) \/ Over

\* The loop runs on, and a ready descriptor is not passed over for ever: a wait
\* reports up to 64 of them, in turn.  Clients read what they are sent.
Fairness ==
  /\ WF_vars(Accept)
  /\ \A fd \in Fds : SF_vars(Event(fd)) /\ WF_vars(Handle(fd))
  /\ \A fd \in Fds : WF_vars(ClientReads(fd))

Spec == Init /\ [][Next]_vars /\ Fairness
-----------------------------------------------------------------------------
Chunk == [reply : Nat, size : {SizeOf(c) : c \in Commands},
          sent : (0 .. 1) \X (0 .. 2) \X (0 .. 1)]

TypeOK ==
  /\ client \in [Fds -> {"none", "connecting", "open", "shut", "reset"}]
  /\ input \in [Fds -> Seq(Commands)]
  /\ unread \in [Fds -> 0 .. SocketBuffer]
  /\ parsers \subseteq Fds
  /\ outbox \in [Fds -> Seq(Chunk)]
  /\ watch \in [Fds -> SUBSET {"IN", "OUT"}]
  /\ loop = Waiting \/
       loop \in [at : {"reading", "parsing", "sending", "writable", "hangup",
                       "done"},
                 fd : Fds, flags : SUBSET {"IN", "OUT", "HUP"},
                 buf : Seq(Commands)]
  /\ connections \in 0 .. MaxConnections
  /\ sent \in [Fds -> 0 .. MaxCommands]
  /\ executed \in [Fds -> Seq({"short", "blob"})]
  /\ wire \in [Fds -> Seq(Nat \X Nat)]

\* The byte that must follow a byte of a reply.
Follows(fd, byte) ==
  IF byte[2] < Length(executed[fd][byte[1]]) THEN <<byte[1], byte[2] + 1>>
                                             ELSE <<byte[1] + 1, 1>>

\* What a client is sent is the replies to its own connection's commands, in
\* the order of the commands and without a gap or a repetition, however
\* send() cuts them up and whoever had the descriptor before; a protocol
\* error may cut them short, and nothing follows it.
RepliesInOrder ==
  \A fd \in Fds :
     LET w == wire[fd]
     IN  \A i \in 1 .. Len(w) :
            IF i = 1 THEN w[1] \in {<<1, 1>>, ErrorByte}
            ELSE w[i - 1] # ErrorByte
                 /\ w[i] \in {Follows(fd, w[i - 1]), ErrorByte}

\* epoll watches for space in a socket exactly while there is something to send
\* to it: else the loop would spin, or the reply would never go out.
WatchedForOutput ==
  loop = Waiting =>
    \A fd \in parsers : "OUT" \in watch[fd] <=> outbox[fd] # <<>>

\* A reader that stands still costs no more than kMaxQueuedChunks replies.
OutboxBounded == \A fd \in Fds : Len(outbox[fd]) <= kMaxQueuedChunks

\* The bytes of this connection's replies so far.
Owed(fd) ==
  LET upTo[n \in 0 .. Len(executed[fd])] ==
        IF n = 0 THEN 0 ELSE upTo[n - 1] + Length(executed[fd][n])
  IN  upTo[Len(executed[fd])]

\* A client that reads gets all of its replies, unless its connection ends.
RepliesDelivered ==
  \A fd \in Fds :
     (fd \in parsers /\ Len(wire[fd]) < Owed(fd))
       ~> (fd \notin parsers \/ Len(wire[fd]) = Owed(fd))
=============================================================================
