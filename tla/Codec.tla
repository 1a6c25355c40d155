------------------------------- MODULE Codec -------------------------------
(***************************************************************************)
(* What a record of the log is made of: base64 of keys and values, and the *)
(* fields that log_set and log_del write and replay reads.                 *)
(*                                                                         *)
(* A text is a sequence of characters, each its code.  A line is the JSON  *)
(* object it parses to; parsing and printing JSON is the library's.  Some  *)
(* field of a line may be damaged after it was written.                    *)
(***************************************************************************)
EXTENDS Integers, SequencesExt

CONSTANTS
  Commands,     \* what is logged: a SET's key, value and ttl, or a DEL's key
  Characters,   \* what a damaged character may become
  MaxDamage     \* bound on the characters damaged

\* What is assumed of the constants.
CodecAssumption ==
  /\ Commands \subseteq [cmd : {"SET"}, key : Seq(0 .. 255), value : Seq(0 .. 255),
                         ttl : Int]
                        \cup [cmd : {"DEL"}, key : Seq(0 .. 255)]
  /\ Characters \subseteq 0 .. 255
  /\ MaxDamage \in Nat

VARIABLES
  written,   \* the command logged
  line,      \* the line in the log
  damage     \* how many of its characters are not the ones written

vars == <<written, line, damage>>
-----------------------------------------------------------------------------
(***************************************************************************)
(* Base64.                                                                 *)
(***************************************************************************)
Pad == 61   \* '='

\* kBase64Alphabet: A-Z, a-z, 0-9, +, /.
kBase64Alphabet ==
  [v \in 0 .. 63 |-> CASE v \in 0 .. 25  -> 65 + v
                       [] v \in 26 .. 51 -> 97 + v - 26
                       [] v \in 52 .. 61 -> 48 + v - 52
                       [] v = 62 -> 43
                       [] v = 63 -> 47]

\* A uint32_t of three bytes, a byte above 127 taken for a negative char.
ThreeSigned(a, b, c) ==
  LET char(x) == IF x > 127 THEN x - 256 ELSE x
  IN  (char(a) * 65536 + char(b) * 256 + char(c)) % 2 ^ 24
Three(a, b, c) == a * 65536 + b * 256 + c

\* Group g of the input, the missing bytes zero.
Word(input, g) ==
  LET byte(i) == IF i <= Len(input) THEN input[i] ELSE 0
  IN  Three(byte(3 * g + 1), byte(3 * g + 2), byte(3 * g + 3))

\* A word's sixes of bits and its bytes, by what a shift divides it.
Sixth == <<262144, 4096, 64, 1>>
Eighth == <<65536, 256, 1>>

\* Each group of three bytes is four characters; a character with no bits of
\* the input in it is a pad.
base64_encode(input) ==
  [k \in 1 .. ((Len(input) + 2) \div 3) * 4 |->
     LET g == (k - 1) \div 4
         j == (k - 1) % 4
     IN  IF 3 * g + j > Len(input) THEN Pad
         ELSE kBase64Alphabet[(Word(input, g) \div Sixth[j + 1]) % 64]]

base64_value(c) ==
  CASE c \in 65 .. 90  -> c - 65
    [] c \in 97 .. 122 -> c - 97 + 26
    [] c \in 48 .. 57  -> c - 48 + 52
    [] c = 43  -> 62
    [] c = 47  -> 63
    [] c = Pad -> -2
    [] OTHER   -> -1

\* Whether group g of a text, four characters, is sound: with pads in any group,
\* and as they must be, at the end of the text.
SoundAnywhere(input, g) ==
  LET v == [j \in 1 .. 4 |-> base64_value(input[4 * g + j])]
  IN  v[1] >= 0 /\ v[2] >= 0 /\ v[3] # -1 /\ v[4] # -1
      /\ (v[3] = -2 => v[4] = -2)
Sound(input, g) ==
  LET v == [j \in 1 .. 4 |-> base64_value(input[4 * g + j])]
      last == 4 * g + 4 = Len(input)
  IN  /\ v[1] >= 0 /\ v[2] >= 0 /\ v[3] # -1 /\ v[4] # -1
      /\ v[3] = -2 => last /\ v[4] = -2
      /\ v[4] = -2 => last

\* The bytes of a sound group: three, less one for every pad.
GroupBytes(input, g) ==
  LET v == [j \in 1 .. 4 |-> base64_value(input[4 * g + j])]
      bits(j) == IF v[j] < 0 THEN 0 ELSE v[j]
      word == bits(1) * 262144 + bits(2) * 4096 + bits(3) * 64 + bits(4)
      pads == (IF v[3] < 0 THEN 1 ELSE 0) + (IF v[4] < 0 THEN 1 ELSE 0)
  IN  [b \in 1 .. 3 - pads |-> (word \div Eighth[b]) % 256]

Groups(input) == 0 .. Len(input) \div 4 - 1

\* base64_decode, whether it takes the text and what it makes of it.
base64_decodes(input) ==
  Len(input) % 4 = 0 /\ \A g \in Groups(input) : Sound(input, g)
base64_decode(input) ==
  FlattenSeq([g \in 1 .. Len(input) \div 4 |-> GroupBytes(input, g - 1)])
-----------------------------------------------------------------------------
(***************************************************************************)
(* Lines.                                                                  *)
(***************************************************************************)
log_set(key, value, ttl) ==
  [cmd |-> "SET", key_b64 |-> base64_encode(key),
   value_b64 |-> base64_encode(value), ttl |-> ttl]
log_del(key) == [cmd |-> "DEL", key_b64 |-> base64_encode(key)]

Logged(command) ==
  IF command.cmd = "SET" THEN log_set(command.key, command.value, command.ttl)
                         ELSE log_del(command.key)

\* decode_field: the encoded field when there is one, else the plain one of an
\* old log; whether there is something to read, and what it says.
decode_fieldReads(j, encoded, legacy) ==
  IF encoded \in DOMAIN j THEN base64_decodes(j[encoded]) ELSE legacy \in DOMAIN j
decode_field(j, encoded, legacy) ==
  IF encoded \in DOMAIN j THEN base64_decode(j[encoded]) ELSE j[legacy]

\* What replay does with a line: a call of set or del, or nothing.
Skip == [cmd |-> "none"]
Replayed(j) ==
  IF \/ ~decode_fieldReads(j, "key_b64", "key")
     \/ j.cmd = "SET" /\ ~decode_fieldReads(j, "value_b64", "value")
  THEN Skip
  ELSE IF j.cmd = "SET"
       THEN [cmd   |-> "SET", key |-> decode_field(j, "key_b64", "key"),
             value |-> decode_field(j, "value_b64", "value"),
             ttl   |-> IF "ttl" \in DOMAIN j THEN j.ttl ELSE 0]
       ELSE [cmd |-> "DEL", key |-> decode_field(j, "key_b64", "key")]
-----------------------------------------------------------------------------
\* A command is logged, or is in a log of the time before base64.
Init ==
  /\ written \in Commands
  /\ line \in {Logged(written), written}
  /\ damage = 0

\* A character of an encoded field is lost or becomes another.
Damage(field) ==
  /\ damage < MaxDamage
  /\ damage' = damage + 1
  /\ field \in DOMAIN line
  /\ \E i \in DOMAIN line[field], with \in {<<>>} \cup {<<c>> : c \in Characters} :
        line' = [line EXCEPT ![field] =
                   SubSeq(@, 1, i - 1) \o with \o SubSeq(@, i + 1, Len(@))]
  /\ UNCHANGED written

Next == Damage("key_b64") \/ Damage("value_b64")

Spec == Init /\ [][Next]_vars
-----------------------------------------------------------------------------
\* replay reads from a line of log_set or log_del, and from a plain line of an
\* old log, the command that was logged, whatever bytes are in it.
ReadsBack == damage = 0 => Replayed(line) = written

\* replay glosses nothing over: a text that base64_decode takes says the same
\* when it is encoded again, up to the bits that its last character before the
\* pads does not use.  No character it takes is without effect on the value.
SaysTheSame(text) ==
  LET again == base64_encode(base64_decode(text))
  IN  /\ Len(again) = Len(text)
      /\ \A i \in DOMAIN text :
           \/ again[i] = text[i]
           \/ i < Len(text) /\ text[i + 1] = Pad /\ again[i + 1] = Pad
NothingGlossedOver ==
  \A field \in {"key_b64", "value_b64"} \cap DOMAIN line :
     base64_decodes(line[field]) => SaysTheSame(line[field])
=============================================================================
