----------------------------- MODULE MCProtocol -----------------------------
(***************************************************************************)
(* Module Protocol with the constants of the runs: one of its three parts  *)
(* is chosen at the start.                                                 *)
(***************************************************************************)
EXTENDS Protocol

VARIABLE part
-----------------------------------------------------------------------------
(***************************************************************************)
(* The parser: streams of one and two commands of up to two arguments,     *)
(* with either end of line; the streams of one command with one byte       *)
(* replaced, inserted or missing, anywhere; and some numbers of more       *)
(* digits than are allowed.  An argument may hold an end of line.  Every   *)
(* way of cutting is tried.                                                *)
(***************************************************************************)
x == 120   \* the verb known is X

StreamBytes == {LF, CR, Dollar, Star, 48, 50, x}
MCVerbs == {<<88>>}

\* What resp() of test_protocol.cpp writes, for an end of line.
Digits(n) == <<48 + n>>
Encoded(argv, eol) ==
  LET upTo[k \in 0 .. Len(argv)] ==
        IF k = 0 THEN <<Star>> \o Digits(Len(argv)) \o eol
        ELSE upTo[k - 1] \o <<Dollar>> \o Digits(Len(argv[k])) \o eol
               \o argv[k] \o eol
  IN  upTo[Len(argv)]

Arguments == {<<>>, <<x>>, <<CR, LF>>}
Argvs == UNION {[1 .. n -> Arguments] : n \in 0 .. 2}
Eols == {<<LF>>, <<CR, LF>>}

Damaged(s) ==
  {SubSeq(s, 1, i - 1) \o mid \o SubSeq(s, i + 1, Len(s)) :
     i \in DOMAIN s, mid \in {<<>>} \cup {<<b>> : b \in StreamBytes}}
  \cup {SubSeq(s, 1, i) \o <<b>> \o SubSeq(s, i + 1, Len(s)) :
     i \in DOMAIN s, b \in StreamBytes}

Some == {<<>>, <<<<x>>>>, <<<<>>, <<CR, LF>>>>}

MCStreams ==
  {<<>>}
  \cup {Encoded(a, <<LF>>) \o Encoded(b, eol) : a \in Argvs, b \in Some, eol \in Eols}
  \cup UNION {Damaged(Encoded(a, <<CR, LF>>)) : a \in Some}
  \cup {<<Star, 48, 48, 48, LF>>, <<Star, 48, 48, 50, LF>>}

\* The reference reads back what resp() writes.
ASSUME \A a, b \in Argvs, eol \in Eols :
  LET reading == Reading(Encoded(a, eol) \o Encoded(b, eol))
  IN  reading.frames = <<a, b>> /\ reading.end = More
-----------------------------------------------------------------------------
(***************************************************************************)
(* execute_command: SETs of up to four arguments after key and value, in   *)
(* every order, with numbers on either side of zero, of a second and of    *)
(* what an int holds (here 5000); keys and values too large for each       *)
(* limit; and a second command after the first.                            *)
(***************************************************************************)
MCSpelled == [minus |-> -1, zero |-> 0, one |-> 1, n1500 |-> 1500, n5001 |-> 5001]
Words == {"ex", "PX", "nx"} \cup DOMAIN MCSpelled
MCArgs == Words \cup {"k", "v", "large", "broad"}
MCSize == [a \in MCArgs |-> CASE a = "large" -> 9 [] a = "broad" -> 4 [] OTHER -> 1]
MCLineEnds == [a \in MCArgs |-> IF a = "nx" THEN 1 ELSE 0]

Set(given) == [type |-> "SET", args |-> given]
MCInputs ==
  {Set(<<"k", "v">> \o o) : o \in UNION {[1 .. n -> Words] : n \in 0 .. 2}}
  \cup {Set(<<"k", "v">> \o o) :
          o \in [1 .. 3 -> {"ex", "PX", "nx", "zero", "one", "n1500"}]
                \cup [1 .. 4 -> {"ex", "PX", "one", "n1500"}]}
  \cup {Set(<<>>), Set(<<"k">>), Set(<<"large", "v">>), Set(<<"k", "large">>),
        Set(<<"broad", "broad", "ex", "one">>)}
  \cup {[type |-> t, args |-> a] : t \in {"GET", "DEL", "PING"},
                                   a \in {<<>>, <<"k">>, <<"k", "v">>}}
  \cup {[type |-> t, args |-> <<>>] : t \in {"SELECT", "METRICS"}}
  \cup {[type |-> "UNKNOWN", verb |-> v, args |-> <<>>] : v \in {"k", "nx"}}

-----------------------------------------------------------------------------
(***************************************************************************)
(* The log: keys of up to four bytes, which fill one group and part of a   *)
(* second, with a zero, an end of line and bytes above 127 among them;     *)
(* values of none, two and six.  Characters of each class, the pad and a   *)
(* stranger damage them in two places.                                     *)
(***************************************************************************)
KeyBytes == {0, 10, 128, 255}
Keys == UNION {[1 .. n -> KeyBytes] : n \in 0 .. 3}
          \cup {<<255, 0, 128, b>> : b \in KeyBytes}
Values == {<<>>, <<0, 255>>, <<104, 105, 251, 240, 13, 10>>}

MCLogged ==
  [cmd : {"SET"}, key : {<<0>>, <<255, 128, 10>>}, value : Values, ttl : {0, 60}]
  \cup [cmd : {"DEL"}, key : Keys]

-----------------------------------------------------------------------------
\* In the parts that are not run nothing is sent, and one command is logged.
ProtocolInit ==
  /\ part \in {"parser", "commands", "log"}
  /\ Init /\ C!Init /\ K!Init
  /\ part # "parser" => stream = <<>>
  /\ part # "log" => written = [cmd |-> "DEL", key |-> <<>>] /\ line = written

ProtocolNext ==
  /\ \/ part = "parser"   /\ Next   /\ UNCHANGED <<commandVars, logVars>>
     \/ part = "commands" /\ C!Next /\ UNCHANGED <<vars, logVars>>
     \/ part = "log"      /\ K!Next /\ UNCHANGED <<vars, commandVars>>
  /\ UNCHANGED part

ProtocolSpec ==
  /\ ProtocolInit /\ [][ProtocolNext]_<<part, vars, commandVars, logVars>>
  /\ WF_vars(part = "parser" /\ Next)
=============================================================================
