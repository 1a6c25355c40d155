------------------------------- MODULE MCAOF -------------------------------
(***************************************************************************)
(* Two keys and two values: a lost or repeated record shows.  Two crashes: *)
(* one tears the log, and the next shows what the tear did to what was     *)
(* appended after it.  One write or open that fails: the stream is bad     *)
(* until the process starts again.                                         *)
(***************************************************************************)
EXTENDS AOF
=============================================================================
