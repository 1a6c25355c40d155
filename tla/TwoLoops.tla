------------------------------ MODULE TwoLoops ------------------------------
(***************************************************************************)
(* The admin loop over its connections, and the two loops over the shim    *)
(* that they share: two views of the same process that do not act on each  *)
(* other.  Admin serves each connection once, whatever its descriptor, and *)
(* EpollShim says under which descriptor a loop finds it.                  *)
(***************************************************************************)
EXTENDS EpollShim

CONSTANTS Clients, Asks, Cuts, Nobody, kMaxRequest, Chunk, SocketRoom

VARIABLES
  asks, sent, taken, ended, reset, admin_conn, wire, got, serving, request,
  response, atOnce

A == INSTANCE Admin WITH conn <- admin_conn

ASSUME TwoLoopsAssumption == A!AdminAssumption

adminVars == <<asks, sent, taken, ended, reset, admin_conn, wire, got, serving,
               request, response, atOnce>>
-----------------------------------------------------------------------------
\* What clients of the admin port get is the answer to their own requests, and
\* in full when the request came in one piece.
AnswersItsOwn == A!AnswersItsOwn
WholeRequestAnswered == A!WholeRequestAnswered
=============================================================================
