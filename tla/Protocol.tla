------------------------------ MODULE Protocol ------------------------------
(***************************************************************************)
(* A command's way from the wire to the log: the bytes in the parser, the  *)
(* command in execute_command, its record in the log.  The three parts do  *)
(* not act on each other here; Server and AOF have them act together, with *)
(* commands and records that are not looked into.                          *)
(***************************************************************************)
EXTENDS Parser

CONSTANTS
  Inputs, Args, Size, ExWords, PxWords, Spelled, LineEnds, kMaxKeySize,
  max_value_size, Room, MaxInt, MaxCommands,   \* execute_command's
  Commands, Characters, MaxDamage              \* the log's

VARIABLES
  store, log, latest, ran,
  written, line, damage

C == INSTANCE Commands WITH executed <- ran
K == INSTANCE Codec

ASSUME ProtocolAssumption == C!CommandsAssumption /\ K!CodecAssumption

commandVars == <<store, log, latest, ran>>
logVars == <<written, line, damage>>
-----------------------------------------------------------------------------
\* What execute_command makes of a SET, and of what it refuses.
SetAsDocumented == C!SetAsDocumented
RefusedWithoutTrace == C!RefusedWithoutTrace

\* What replay makes of a line of the log, sound or damaged.
ReadsBack == K!ReadsBack
NothingGlossedOver == K!NothingGlossedOver
=============================================================================
