------------------------------- MODULE Admin -------------------------------
(***************************************************************************)
(* The event loop of AdminServer, which answers one HTTP request on each   *)
(* connection and closes it.                                               *)
(*                                                                         *)
(* A request is a sequence of tokens: words, the space between them, and   *)
(* the two ends of line.  The network may cut it in two.  The server keeps *)
(* nothing of a connection from one event to the next, so that a           *)
(* connection is known by its client.  Starting and stopping the loop is   *)
(* in module Lifecycle.                                                    *)
(***************************************************************************)
EXTENDS Integers, FiniteSetsExt, SequencesExt

CONSTANTS
  Clients,
  Asks,          \* what the clients may ask: a request for each
  Cuts,          \* where the network may cut a request in two
  Nobody,        \* no client
  kMaxRequest,   \* in tokens
  Chunk,         \* what one recv takes at most, in tokens
  SocketRoom     \* the parts of an answer a socket holds

\* What is assumed of the constants.
AdminAssumption ==
  /\ Nobody \notin Clients
  /\ Asks \subseteq [Clients -> Seq(STRING)]
  /\ kMaxRequest \in Nat /\ {Chunk, SocketRoom} \subseteq Nat \ {0}

VARIABLES
  asks,       \* each client's request
  sent,       \* how much of it the client has sent
  taken,      \* how much of that recv has returned
  ended,      \* the clients that send no more: shut down, or reset
  reset,      \* the ones whose connection is reset
  conn,       \* "none", "queued" for accept, "watched" by epoll, "closed"
  wire, got,  \* the answer in the socket, and what the client has read of it
  serving,    \* the client that handle_connection is busy with
  request,    \* handle_connection's request
  response,   \* what send_all has not sent
  atOnce      \* history: the clients whose request came in one piece

client == <<asks, sent, ended, reset, got, atOnce>>
server == <<taken, conn, serving, request, response>>
vars == <<client, server, wire>>
-----------------------------------------------------------------------------
Sp == "_"
Crlf == "n"
Lf == "l"

\* "\r\n\r\n" or "\n\n" is in the text.
Complete(text) ==
  \E i \in 1 .. Len(text) - 1 :
     <<text[i], text[i + 1]>> \in {<<Crlf, Crlf>>, <<Lf, Lf>>, <<Crlf, Lf>>}

\* handle_request: the answer's status, or its body.
FirstLine(text) ==
  LET ends == {i \in DOMAIN text : text[i] = Crlf}
  IN  IF ends = {} THEN text ELSE SubSeq(text, 1, Min(ends) - 1)
handle_request(text) ==
  LET line == FirstLine(text)
      spaces == {i \in DOMAIN line : line[i] = Sp}
      p1 == Min(spaces)
      p2 == Min(spaces \ {p1})
      path == SubSeq(line, p1 + 1, p2 - 1)
  IN  CASE Cardinality(spaces) < 2 -> "400"
        [] Cardinality(spaces) >= 2 /\ SubSeq(line, 1, p1 - 1) # <<"GET">> -> "405"
        [] OTHER -> CASE path = <<"/metrics">> -> "metrics"
                      [] path = <<"/health">>  -> "health"
                      [] OTHER -> "404"

\* An answer as send may take it, in two parts.
http_response(status) == <<status, status>>
-----------------------------------------------------------------------------
(***************************************************************************)
(* The clients.                                                            *)
(***************************************************************************)
Connect(c) ==
  /\ conn[c] = "none"
  /\ conn' = [conn EXCEPT ![c] = "queued"]
  /\ UNCHANGED <<client, taken, serving, request, response, wire>>

\* The bound on pieces: a request comes in one, or in two cut at one of Cuts.
Sends(c, n) ==
  /\ conn[c] # "none" /\ c \notin ended
  /\ sent[c] + n <= Len(asks[c])
  /\ \/ sent[c] + n = Len(asks[c])
     \/ sent[c] = 0 /\ n \in Cuts
  /\ sent' = [sent EXCEPT ![c] = @ + n]
  /\ atOnce' = IF n = Len(asks[c]) THEN atOnce \cup {c} ELSE atOnce
  /\ UNCHANGED <<server, asks, ended, reset, got, wire>>

Shuts(c) ==
  /\ conn[c] # "none" /\ c \notin ended
  /\ ended' = ended \cup {c}
  /\ UNCHANGED <<server, asks, sent, reset, got, atOnce, wire>>

Resets(c) ==
  /\ conn[c] # "none" /\ c \notin reset
  /\ ended' = ended \cup {c} /\ reset' = reset \cup {c}
  /\ wire' = [wire EXCEPT ![c] = <<>>]
  /\ UNCHANGED <<server, asks, sent, got, atOnce>>

Reads(c) ==
  /\ wire[c] # <<>>
  /\ got' = [got EXCEPT ![c] = Append(@, Head(wire[c]))]
  /\ wire' = [wire EXCEPT ![c] = Tail(@)]
  /\ UNCHANGED <<server, asks, sent, ended, reset, atOnce>>
-----------------------------------------------------------------------------
(***************************************************************************)
(* The loop of start().                                                    *)
(***************************************************************************)
Idle == serving = Nobody
Unread(c) == sent[c] - taken[c]

accept_connections ==
  /\ Idle
  /\ \E c \in Clients : conn[c] = "queued"
  /\ conn' = [c \in Clients |-> IF conn[c] = "queued" THEN "watched" ELSE conn[c]]
  /\ UNCHANGED <<client, taken, serving, request, response, wire>>

\* handle_connection begins with an empty request, or with the last one.
BeginsWithLast == UNCHANGED request
Begins == request' = <<>>

\* EPOLLIN: bytes, the end of them, or an error.
Readable(c) ==
  /\ Idle /\ conn[c] = "watched"
  /\ Unread(c) > 0 \/ c \in ended
  /\ serving' = c
  /\ Begins
  /\ UNCHANGED <<client, taken, conn, response, wire>>

\* close_conn, with w in the sockets.  A connection closed with bytes unread is
\* reset, and the client may lose what it has not read of the answer.
close_conn(w) ==
  /\ conn' = [conn EXCEPT ![serving] = "closed"]
  /\ serving' = Nobody
  /\ \/ wire' = w
     \/ Unread(serving) > 0 /\ wire' = [w EXCEPT ![serving] = <<>>]

\* send_all begins.
Answer(status) == response' = http_response(status)
-----------------------------------------------------------------------------
(***************************************************************************)
(* handle_connection.                                                      *)
(***************************************************************************)
Receiving == serving # Nobody /\ response = <<>>

\* What recv returns: no more than the buffer holds.
Taken == Min({Chunk, Unread(serving)})

Recv ==
  /\ Receiving /\ serving \notin reset
  /\ Taken > 0
  /\ taken' = [taken EXCEPT ![serving] = @ + Taken]
  /\ request' = request \o SubSeq(asks[serving], taken[serving] + 1, taken'[serving])
  /\ \/ Len(request') > kMaxRequest /\ Answer("400")
     \/ /\ Len(request') <= kMaxRequest /\ Complete(request')
        /\ Answer(handle_request(request'))
     \/ /\ Len(request') <= kMaxRequest /\ ~Complete(request')
        /\ UNCHANGED response
  /\ UNCHANGED <<client, conn, serving, wire>>

\* recv returns 0, and nothing was received before.
RecvEndsEmpty ==
  /\ Receiving /\ serving \notin reset
  /\ Unread(serving) = 0 /\ serving \in ended /\ request = <<>>
  /\ close_conn(wire)
  /\ UNCHANGED <<client, taken, request, response>>

\* recv returns 0 or EAGAIN: what has come is taken for the request.
RecvStops ==
  /\ Receiving /\ serving \notin reset
  /\ Unread(serving) = 0
  /\ serving \in ended => request # <<>>
  /\ Answer(handle_request(request))
  /\ UNCHANGED <<client, taken, conn, serving, request, wire>>

\* recv fails.
RecvFails ==
  /\ Receiving /\ serving \in reset
  /\ close_conn(wire)
  /\ UNCHANGED <<client, taken, request, response>>

\* Whether send_all goes on when send says EAGAIN: not, or as long as it takes.
GoesOnNever == FALSE
GoesOn == TRUE

\* send takes a part.  While the socket is full send_all polls it, and nobody
\* else is served.
Send ==
  LET w == [wire EXCEPT ![serving] = Append(@, Head(response))]
  IN  /\ response # <<>> /\ serving \notin reset
      /\ Len(wire[serving]) < SocketRoom
      /\ response' = Tail(response)
      /\ IF response' = <<>> THEN close_conn(w)
         ELSE wire' = w /\ UNCHANGED <<conn, serving>>
      /\ UNCHANGED <<client, taken, request>>

\* send fails, or send_all does not go on.
SendFails ==
  /\ response # <<>>
  /\ \/ serving \in reset
     \/ Len(wire[serving]) = SocketRoom /\ ~GoesOn
  /\ response' = <<>>
  /\ close_conn(wire)
  /\ UNCHANGED <<client, taken, request>>
-----------------------------------------------------------------------------
Init ==
  /\ asks \in Asks
  /\ sent = [c \in Clients |-> 0] /\ taken = [c \in Clients |-> 0]
  /\ ended = {} /\ reset = {} /\ atOnce = {}
  /\ conn = [c \in Clients |-> "none"]
  /\ wire = [c \in Clients |-> <<>>] /\ got = [c \in Clients |-> <<>>]
  /\ serving = Nobody /\ request = <<>> /\ response = <<>>

handle_connection ==
  \/ Recv \/ RecvEndsEmpty \/ RecvStops \/ RecvFails
  \/ Send \/ SendFails

Loop == accept_connections \/ (\E c \in Clients : Readable(c)) \/ handle_connection

Next ==
  \/ Loop
  \/ \E c \in Clients :
        \/ Connect(c) \/ Shuts(c) \/ Resets(c) \/ Reads(c)
        \/ \E n \in 1 .. Len(asks[c]) : Sends(c, n)

ClientsRead == \E c \in Clients : Reads(c)

\* The loop runs, and clients read what comes.  In what order epoll_wait reports
\* connections makes no difference, as each is served once.
Spec == Init /\ [][Next]_vars /\ WF_vars(Loop) /\ WF_vars(ClientsRead)
-----------------------------------------------------------------------------
TypeOK ==
  /\ asks \in Asks
  /\ \A c \in Clients : 0 <= taken[c] /\ taken[c] <= sent[c] /\ sent[c] <= Len(asks[c])
  /\ reset \subseteq ended /\ ended \subseteq Clients /\ atOnce \subseteq Clients
  /\ conn \in [Clients -> {"none", "queued", "watched", "closed"}]
  /\ \A c \in Clients : Len(wire[c]) <= SocketRoom /\ Len(got[c]) <= 2
  /\ serving = Nobody \/ conn[serving] = "watched"
  /\ Len(response) <= 2

\* What a client gets is one answer or the beginning of one, and it is the
\* answer to some beginning of its own request: handle_connection, which keeps
\* its request in a variable of its own, mixes no two connections.
AnswersItsOwn ==
  \A c \in Clients :
     \E n \in 0 .. Len(asks[c]) :
        LET text == SubSeq(asks[c], 1, n)
        IN  IsPrefix(got[c] \o wire[c],
                     http_response(IF n > kMaxRequest THEN "400"
                                   ELSE handle_request(text)))

\* A request that ends with its blank line.
Bare(text) == Complete(text) /\ ~Complete(Front(text))

\* A client that sends a whole request in one piece is answered as the request
\* deserves, in full, whatever the other clients do, resets and half requests
\* among it, unless it resets the connection itself.
WholeRequestAnswered ==
  <>[](\A c \in atOnce :
         (Bare(asks[c]) /\ Len(asks[c]) <= kMaxRequest)
           => (got[c] = http_response(handle_request(asks[c])) \/ c \in reset))

\* What README says of the admin port: GET /health is answered that all is well.
\* A known divergence (README.md): it is not when it comes in pieces.
HealthAnswered ==
  \A c \in Clients :
     (Complete(asks[c]) /\ handle_request(asks[c]) = "health")
       => \A i \in DOMAIN got[c] : got[c][i] = "health"
=============================================================================
