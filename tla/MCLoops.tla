------------------------------ MODULE MCLoops ------------------------------
(***************************************************************************)
(* The two parts of TwoLoops, one of which is chosen at the start.         *)
(*                                                                         *)
(* Admin: two clients, one of whom asks for /health, while the other makes *)
(* a request of each kind: both ends of line, one that is too long, one    *)
(* without its end, one with more after it.  A socket holds one of the two *)
(* parts of an answer, so that send_all has to wait.                       *)
(*                                                                         *)
(* EpollShim: two descriptors for three connections, so that numbers are   *)
(* used again, by the same loop and by the other.  A loop may have three   *)
(* descriptors ready, its listening socket among them, and room for two.   *)
(***************************************************************************)
EXTENDS TwoLoops

CONSTANTS c1, c2

VARIABLE part

MCClients == {c1, c2}

MCHealth == <<"GET", "_", "/health", "_", "n", "n">>
Requests ==
  { MCHealth,
    <<"GET", "_", "/metrics", "_", "l", "l">>,
    <<"PUT", "_", "/health", "_", "n", "n", "body">>,
    <<"GET", "_", "/other", "_", "n">>,
    <<"GET", "_", "/health", "_", "n", "h", "h", "n", "n">> }
MCAsks == {r \in [MCClients -> Requests] : r[c2] = MCHealth}

LoopsInit ==
  /\ part \in {"admin", "shim"} /\ Init /\ A!Init
  /\ part = "shim" => asks[c1] = MCHealth

LoopsNext ==
  /\ \/ part = "admin" /\ A!Next /\ UNCHANGED vars
     \/ part = "shim"  /\ Next   /\ UNCHANGED adminVars
  /\ UNCHANGED part

\* The fairness of each part, as long as it is the part that runs.
LoopsSpec ==
  /\ LoopsInit /\ [][LoopsNext]_<<part, vars, adminVars>>
  /\ \A l \in Loops : WF_vars(part = "shim" /\ Loop(l))
  /\ WF_adminVars(part = "admin" /\ A!Loop)
  /\ WF_adminVars(part = "admin" /\ A!ClientsRead)
=============================================================================
