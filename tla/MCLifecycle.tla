---------------------------- MODULE MCLifecycle ----------------------------
(***************************************************************************)
(* One signal is enough to show what a signal can do at the wrong time.    *)
(***************************************************************************)
EXTENDS Lifecycle
=============================================================================
