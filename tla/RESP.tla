-------------------------------- MODULE RESP --------------------------------
(***************************************************************************)
(* The wire format the parser reads (protocol.h): bytes and their meaning, *)
(* and a reading of a whole stream at once, by slices, with which the      *)
(* incremental parser is compared.                                         *)
(***************************************************************************)
EXTENDS Integers, Sequences, FiniteSetsExt

CONSTANTS
  MaxHeader,     \* the longest header line (32)
  MaxDigits,     \* the longest number in one (18)
  kMaxArgs,
  max_bulk_len,
  Verbs          \* the verbs known, in upper case

ASSUME RESPAssumption ==
  {MaxHeader, MaxDigits, kMaxArgs, max_bulk_len} \subseteq Nat

LF == 10
CR == 13
Dollar == 36
Star == 42

\* parse_uint: which texts it takes, and what it makes of them.
IsUint(text) ==
  Len(text) \in 1 .. MaxDigits /\ \A i \in DOMAIN text : text[i] \in 48 .. 57
Uint(text) ==
  LET upTo[i \in 0 .. Len(text)] ==
        IF i = 0 THEN 0 ELSE upTo[i - 1] * 10 + (text[i] - 48)
  IN  upTo[Len(text)]

\* A header line without the CR that may end it.
Stripped(line) ==
  IF line # <<>> /\ line[Len(line)] = CR THEN SubSeq(line, 1, Len(line) - 1)
                                         ELSE line

\* A header: a mark and a number up to max.
IsHeader(text, mark, max) ==
  /\ text # <<>> /\ Head(text) = mark
  /\ IsUint(Tail(text)) /\ Uint(Tail(text)) <= max

Upper(c) == IF c \in 97 .. 122 THEN c - 32 ELSE c

\* classify: verb and arguments apart; UNKNOWN when the verb is not known.
classify(argv) ==
  LET verb == IF argv = <<>> THEN <<>> ELSE Head(argv)
      args == IF argv = <<>> THEN <<>> ELSE Tail(argv)
  IN  [verb |-> verb, args |-> args,
       known |-> [i \in 1 .. Len(verb) |-> Upper(verb[i])] \in Verbs]
-----------------------------------------------------------------------------
(***************************************************************************)
(* The reference.  Reading an item of stream s from position i gives the   *)
(* position after it, or More when the stream ends first, or Bad.          *)
(***************************************************************************)
More == -1
Bad == -2

\* The header line at i: where it ends, the number in it, what follows it.
LineEnd(s, i) == Min({j \in i .. Len(s) : s[j] = LF} \cup {Len(s) + 1})
LineText(s, i) == Stripped(SubSeq(s, i, LineEnd(s, i) - 1))
Number(s, i) == Uint(Tail(LineText(s, i)))
AfterLine(s, i, mark, max) ==
  LET end == LineEnd(s, i)
  IN  IF end - i > MaxHeader THEN Bad
      ELSE IF end > Len(s) THEN More
      ELSE IF IsHeader(LineText(s, i), mark, max) THEN end + 1
      ELSE Bad

\* The end of line, CRLF or LF, at i.
AfterEol(s, i) ==
  IF i > Len(s) THEN More
  ELSE IF s[i] = LF THEN i + 1
  ELSE IF s[i] # CR THEN Bad
  ELSE IF i = Len(s) THEN More
  ELSE IF s[i + 1] = LF THEN i + 2
  ELSE Bad

\* The bulk at i: a header, that many bytes, an end of line.
Bulk(s, i) == SubSeq(s, LineEnd(s, i) + 1, LineEnd(s, i) + Number(s, i))
AfterBulk(s, i) ==
  LET at == AfterLine(s, i, Dollar, max_bulk_len)
  IN  IF at < 0 THEN at ELSE AfterEol(s, at + Number(s, i))

\* The frame at i, a header and that many bulks: where its bulks start, and
\* last what follows it.
Starts(s, i) ==
  LET first == AfterLine(s, i, Star, kMaxArgs)
      after[k \in 0 .. kMaxArgs] ==
        IF k = 0 THEN first
        ELSE IF after[k - 1] < 0 THEN after[k - 1] ELSE AfterBulk(s, after[k - 1])
  IN  [k \in 1 .. (IF first < 0 THEN 0 ELSE Number(s, i)) + 1 |-> after[k - 1]]

\* What the frame at i holds, and what follows it.
Frame(s, i) ==
  LET at == Starts(s, i) IN [k \in 1 .. Len(at) - 1 |-> Bulk(s, at[k])]
Follows(s, i) == LET at == Starts(s, i) IN at[Len(at)]

\* The command in a frame: none when the verb is empty.
Given(argv) == LET command == classify(argv)
               IN  IF command.verb = <<>> THEN <<>> ELSE <<command>>

\* The frames of a stream from each position on, the commands in them, and
\* whether it goes on to More or to something Bad.
ReadingFrom(s) ==
  LET from[i \in 1 .. Len(s) + 1] ==
        LET next == Follows(s, i)
        IN  IF next < 0
            THEN [frames |-> <<>>, commands |-> <<>>, end |-> next]
            ELSE [frames   |-> <<Frame(s, i)>> \o from[next].frames,
                  commands |-> Given(Frame(s, i)) \o from[next].commands,
                  end      |-> from[next].end]
  IN  from

Reading(s) == ReadingFrom(s)[1]
=============================================================================
