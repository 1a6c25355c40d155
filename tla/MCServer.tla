------------------------------ MODULE MCServer ------------------------------
(***************************************************************************)
(* The client loop, and the process around it that starts and stops it:    *)
(* one of the two is chosen at the start, and the other stands still.      *)
(*                                                                         *)
(* The loop: one descriptor used by two connections, with room for two     *)
(* bytes in the socket and two replies in the queue: sends are cut up,     *)
(* block and resume, and the third reply overflows.                        *)
(*                                                                         *)
(* The process: two signals.  The second may find the first one's shutdown *)
(* anywhere, interrupt its handler, or be handled beside it.               *)
(***************************************************************************)
EXTENDS Server, Lifecycle

VARIABLE part

ServerInit == part \in {"loop", "process"} /\ Init /\ LifecycleInit

ServerNext ==
  /\ \/ part = "loop"    /\ Next          /\ UNCHANGED lifecycleVars
     \/ part = "process" /\ LifecycleNext /\ UNCHANGED vars
  /\ UNCHANGED part

\* The fairness of each part, as long as it is the part that runs.
ServerSpec ==
  /\ ServerInit /\ [][ServerNext]_<<part, vars, lifecycleVars>>
  /\ WF_vars(part = "loop" /\ Accept)
  /\ \A fd \in Fds : /\ SF_vars(part = "loop" /\ Event(fd))
                     /\ WF_vars(part = "loop" /\ Handle(fd))
                     /\ WF_vars(part = "loop" /\ ClientReads(fd))
  /\ WF_lifecycleVars(part = "process" /\ Main)
  /\ \A l \in Loops : WF_lifecycleVars(part = "process" /\ Starts(l))
  /\ \A f \in Frames : WF_lifecycleVars(part = "process" /\ Handler(f))
=============================================================================
