--------------------------- MODULE ProtocolProofs ---------------------------
(***************************************************************************)
(* The safety theorems about a command's way from the wire to the log, for *)
(* any bytes, any options and any limits: what the parser holds and what   *)
(* it gives, whatever it is sent and however it is cut up; what replay     *)
(* makes of a line, sound or damaged; what execute_command makes of a SET. *)
(*                                                                         *)
(* The parser's states say how far a command has come, and so how many     *)
(* arguments it holds, and where in the stream it is: in the reading of    *)
(* whatever the bytes received may be the beginning of.  The log's part    *)
(* goes group by group through base64, and the commands' part option by    *)
(* option, each backwards from the least place at which it would fail.     *)
(***************************************************************************)
EXTENDS Protocol, TLAPS, SequenceTheorems, WellFoundedInduction
-----------------------------------------------------------------------------
(***************************************************************************)
(* Sequences, least elements, and the number that a text spells.           *)
(***************************************************************************)
LEMMA SeqIsFunction ==
  ASSUME NEW S, NEW s \in Seq(S)
  PROVE  /\ Len(s) \in Nat
         /\ DOMAIN s = 1 .. Len(s)
         /\ \A i \in 1 .. Len(s) : s[i] \in S
         /\ s = <<>> <=> Len(s) = 0
OBVIOUS

\* A part of a sequence, which may be empty.
LEMMA PartIs ==
  ASSUME NEW S, NEW s \in Seq(S), NEW m \in Nat \ {0}, NEW n \in Nat, n <= Len(s)
  PROVE  /\ SubSeq(s, m, n) \in Seq(S)
         /\ Len(SubSeq(s, m, n)) = IF m <= n THEN n - m + 1 ELSE 0
         /\ \A i \in 1 .. n - m + 1 : SubSeq(s, m, n)[i] = s[m + i - 1]
<1>1. Len(s) \in Nat
  BY SeqIsFunction
<1>2. QED
  BY <1>1

\* One of its elements replaced.
LEMMA ReplacedIs ==
  ASSUME NEW S, NEW s \in Seq(S), NEW k \in 1 .. Len(s), NEW e \in S
  PROVE  /\ [s EXCEPT ![k] = e] \in Seq(S)
         /\ Len([s EXCEPT ![k] = e]) = Len(s)
         /\ [s EXCEPT ![k] = e][k] = e
         /\ \A i \in 1 .. Len(s) : i # k => [s EXCEPT ![k] = e][i] = s[i]
<1>1. s \in [1 .. Len(s) -> S] /\ Len(s) \in Nat
  OBVIOUS
<1> DEFINE t == [s EXCEPT ![k] = e]
<1>2. t \in [1 .. Len(s) -> S]
  BY <1>1
<1>3. t[k] = e /\ \A i \in 1 .. Len(s) : i # k => t[i] = s[i]
  BY <1>1
<1> HIDE DEF t
<1>4. t \in Seq(S) /\ Len(t) = Len(s)
  BY <1>1, <1>2
<1>5. QED
  BY <1>3, <1>4 DEF t

\* A non-empty set of naturals has a least element, and Min is it.
LEMMA LeastNatural ==
  ASSUME NEW T \in SUBSET Nat, T # {}
  PROVE  \E n \in T : \A m \in T : n <= m
<1>1. IsWellFoundedOn(OpToRel(<, Nat), Nat)
  BY NatLessThanWellFounded
<1>2. PICK n \in T : \A m \in T : ~(<<m, n>> \in OpToRel(<, Nat))
  BY <1>1, WFMin
<1>3. \A m \in T : ~(m < n)
  BY <1>2 DEF OpToRel
<1>4. QED
  BY <1>3

LEMMA MinIs ==
  ASSUME NEW T \in SUBSET Nat, T # {}
  PROVE  Min(T) \in T /\ \A m \in T : Min(T) <= m
<1>1. \E n \in T : \A m \in T : n <= m
  BY LeastNatural
<1>2. QED
  BY <1>1 DEF Min

\* parse_uint's number is a natural one: upTo, read digit by digit, exists, as
\* the least place up to which it did not would follow one up to which it did.
LEMMA UintIsNat ==
  ASSUME NEW text, Len(text) \in Nat, \A i \in 1 .. Len(text) : text[i] \in 48 .. 57
  PROVE  Uint(text) \in Nat
<1> DEFINE n == Len(text)
           Reads(k, g) == /\ g[0] = 0
                          /\ \A i \in 1 .. k : g[i] = g[i - 1] * 10 + (text[i] - 48)
           Has(k) == \E g \in [0 .. k -> Nat] : Reads(k, g)
           T == {k \in 0 .. n : ~Has(k)}
           Eq(u) == u = [i \in 0 .. n |->
                           IF i = 0 THEN 0 ELSE u[i - 1] * 10 + (text[i] - 48)]
<1>1. Has(n)
  <2>0. n \in 0 .. n /\ T \in SUBSET Nat
    OBVIOUS
  <2>1. SUFFICES ASSUME T # {} PROVE FALSE
    <3> HIDE DEF Has
    <3>1. QED
      BY <2>0
  <2>2. PICK k \in T : \A m \in T : k <= m
    <3> HIDE DEF T
    <3>1. QED
      BY <2>0, <2>1, LeastNatural
  <2>3. Has(0)
    <3>1. [i \in 0 .. 0 |-> 0] \in [0 .. 0 -> Nat] /\ Reads(0, [i \in 0 .. 0 |-> 0])
      OBVIOUS
    <3>2. QED
      BY <3>1
  <2> HIDE DEF Has
  <2>4. k \in 1 .. n
    BY <2>2, <2>3
  <2>5. Has(k - 1)
    BY <2>2, <2>4
  <2>6. PICK g \in [0 .. k - 1 -> Nat] : Reads(k - 1, g)
    BY <2>5 DEF Has
  <2> DEFINE d == text[k] - 48
             h == [i \in 0 .. k |-> IF i = k THEN g[k - 1] * 10 + d ELSE g[i]]
  <2>7. d \in Nat /\ g[k - 1] \in Nat
    BY <2>4, SMTT(30)
  <2>8. h \in [0 .. k -> Nat]
    <3> HIDE DEF d
    <3>1. QED
      BY <2>4, <2>7, SMTT(30)
  <2>9. Reads(k, h)
    BY <2>4, <2>6, SMTT(30)
  <2>10. Has(k)
    BY <2>8, <2>9 DEF Has
  <2>11. QED
    BY <2>2, <2>10
<1>2. PICK g \in [0 .. n -> Nat] : Reads(n, g)
  BY <1>1
<1>3. Eq(g)
  BY <1>2
<1>4. Uint(text) = (CHOOSE u : Eq(u))[n]
  BY DEF Uint
<1>5. Eq(CHOOSE u : Eq(u))
  BY <1>3
<1> DEFINE v == CHOOSE u : Eq(u)
<1>6. /\ v[0] = 0
      /\ \A i \in 1 .. n : v[i] = v[i - 1] * 10 + (text[i] - 48)
  <2> HIDE DEF v
  <2>1. v = [i \in 0 .. n |-> IF i = 0 THEN 0 ELSE v[i - 1] * 10 + (text[i] - 48)]
    BY <1>5 DEF v
  <2>2. QED
    BY <2>1
<1> HIDE DEF v
<1>7. v[n] = g[n]
  <2> DEFINE U == {i \in 0 .. n : v[i] # g[i]}
  <2>0. n \in 0 .. n /\ U \in SUBSET Nat
    OBVIOUS
  <2>1. SUFFICES ASSUME U # {} PROVE FALSE
    BY <2>0
  <2>2. PICK k \in U : \A m \in U : k <= m
    <3> HIDE DEF U
    <3>1. QED
      BY <2>0, <2>1, LeastNatural
  <2>3. k \in 1 .. n
    BY <1>2, <1>6, <2>2
  <2>4. v[k - 1] = g[k - 1]
    BY <2>2, <2>3
  <2>5. QED
    BY <1>2, <1>6, <2>2, <2>3, <2>4
<1>8. QED
  BY <1>4, <1>7 DEF v
-----------------------------------------------------------------------------
(***************************************************************************)
(* The parser.                                                             *)
(***************************************************************************)
\* How many arguments are held in each state, and how long the last of them is
\* while it is filled.
HoldsAsFar ==
  /\ state # "Failed" => Len(args) <= argc
  /\ state = "BulkLen" => Len(args) = arg_index /\ arg_index < argc
  /\ state \in {"Payload", "Trailer", "TrailerLf"} =>
       Len(args) = arg_index + 1 /\ arg_index < argc
  /\ state = "Payload" => Len(args[Len(args)]) = bulk_len

Limited ==
  /\ Len(header) <= MaxHeader
  /\ \A i \in 1 .. Len(args) : Len(args[i]) <= max_bulk_len

ParserInv == TypeOK /\ stream \in Streams /\ HoldsAsFar /\ Limited

\* A header line without its CR is a text.
LEMMA StrippedIs ==
  ASSUME NEW text \in Seq(Byte)
  PROVE  Stripped(text) \in Seq(Byte)
<1>1. Len(text) \in Nat
  BY SeqIsFunction
<1>2. CASE text # <<>> /\ text[Len(text)] = CR
  <2>1. Stripped(text) = SubSeq(text, 1, Len(text) - 1)
    BY <1>2 DEF Stripped
  <2>2. Len(text) - 1 \in Nat /\ Len(text) - 1 <= Len(text)
    BY <1>1, <1>2, SeqIsFunction
  <2>3. SubSeq(text, 1, Len(text) - 1) \in Seq(Byte)
    BY <2>2, PartIs
  <2>4. QED
    BY <2>1, <2>3
<1>3. CASE ~(text # <<>> /\ text[Len(text)] = CR)
  BY <1>3 DEF Stripped
<1>4. QED
  BY <1>2, <1>3

\* The number in a header is within the limit that goes with its mark.
LEMMA HeaderNumber ==
  ASSUME NEW text \in Seq(Byte), NEW mark, NEW max, IsHeader(text, mark, max)
  PROVE  Uint(Tail(text)) \in Nat /\ Uint(Tail(text)) <= max
<1> DEFINE digits == Tail(text)
<1>1. text # <<>> /\ IsUint(digits) /\ Uint(digits) <= max
  BY DEF IsHeader
<1>2. digits \in Seq(Byte)
  BY <1>1
<1>3. Len(digits) \in Nat /\ DOMAIN digits = 1 .. Len(digits)
  BY <1>2, SeqIsFunction
<1>4. \A i \in 1 .. Len(digits) : digits[i] \in 48 .. 57
  BY <1>1, <1>3 DEF IsUint
<1> HIDE DEF digits
<1>5. Uint(digits) \in Nat
  BY <1>3, <1>4, UintIsNat
<1>6. QED
  BY <1>1, <1>5 DEF digits

\* What read_line makes of the bytes in the buffer.
LEMMA LineIs ==
  ASSUME buf \in Seq(Byte), header \in Seq(Byte)
  PROVE  /\ read_line.text \in Seq(Byte) /\ read_line.rest \in Seq(Byte)
         /\ ~read_line.bad => Len(read_line.text) <= MaxHeader
<1> DEFINE ends == {i \in DOMAIN buf : buf[i] = LF}
           T == ends \cup {Len(buf) + 1}
           n == Min(T) - 1
           all == header \o SubSeq(buf, 1, n)
           rest == SubSeq(buf, n + 2, Len(buf))
<1>1. read_line = [bad |-> Len(all) > MaxHeader, ended |-> n < Len(buf),
                   text |-> all, rest |-> rest]
  BY Zenon DEF read_line, LineAfter
<1>2. Len(buf) \in Nat /\ DOMAIN buf = 1 .. Len(buf)
  BY SeqIsFunction
<1>3. T \in SUBSET Nat /\ T # {} /\ \A i \in T : i \in 1 .. Len(buf) + 1
  BY <1>2
<1>4. Min(T) \in T
  <2> HIDE DEF T
  <2>1. QED
    BY <1>3, MinIs
<1>5. n \in Nat /\ n <= Len(buf) /\ n + 2 \in Nat \ {0}
  <2>1. Min(T) \in 1 .. Len(buf) + 1
    BY <1>3, <1>4, Zenon
  <2> DEFINE m == Min(T)
  <2> HIDE DEF T, m
  <2>2. m \in 1 .. Len(buf) + 1 /\ n = m - 1
    BY <2>1 DEF m
  <2> HIDE DEF n
  <2>3. QED
    BY <1>2, <2>2
<1> HIDE DEF n
<1>6. SubSeq(buf, 1, n) \in Seq(Byte) /\ rest \in Seq(Byte)
  BY <1>2, <1>5, PartIs
<1>7. all \in Seq(Byte)
  BY <1>6
<1> HIDE DEF all, rest
<1>8. read_line.text = all /\ read_line.rest = rest
  BY <1>1
<1>9. ~read_line.bad => ~(Len(all) > MaxHeader)
  BY <1>1, Zenon
<1>10. Len(all) \in Nat /\ MaxHeader \in Nat
  BY <1>7, SeqIsFunction, RESPAssumption
<1>11. ~read_line.bad => Len(all) <= MaxHeader
  <2> DEFINE n0 == Len(all)
  <2> HIDE DEF n0
  <2>1. ~(n0 > MaxHeader) => n0 <= MaxHeader
    BY <1>10 DEF n0
  <2>2. QED
    BY <1>9, <2>1 DEF n0
<1>12. QED
  BY <1>6, <1>7, <1>8, <1>11, Zenon

\* The number in the header that is accepted.
LEMMA AcceptedIs ==
  ASSUME buf \in Seq(Byte), header \in Seq(Byte), NEW mark, NEW max, Accepted(mark, max)
  PROVE  Length \in Nat /\ Length <= max
<1> DEFINE text == Stripped(read_line.text)
<1>1. text \in Seq(Byte)
  BY LineIs, StrippedIs
<1>2. IsHeader(text, mark, max)
  BY DEF Accepted
<1> HIDE DEF text
<1>3. Uint(Tail(text)) \in Nat /\ Uint(Tail(text)) <= max
  BY <1>1, <1>2, HeaderNumber
<1>4. QED
  BY <1>3 DEF Length, text

LEMMA ParserInit == Init => ParserInv
<1> SUFFICES ASSUME Init PROVE ParserInv
  OBVIOUS
<1> USE DEF Init
<1>1. <<>> \in Seq(Byte) /\ <<>> \in Seq(Seq(Byte)) /\ Len(<<>>) = 0
      /\ <<>> \in Seq([verb : Seq(Byte), args : Seq(Seq(Byte)), known : BOOLEAN])
  OBVIOUS
<1>2. stream \in Seq(Byte) /\ Len(stream) \in Nat
  BY ParserAssumption
<1>3. {MaxHeader, kMaxArgs, max_bulk_len} \subseteq Nat
  BY RESPAssumption
<1>4. TypeOK
  <2>1. 0 \in 0 .. kMaxArgs /\ 0 \in 0 .. max_bulk_len /\ 0 \in 0 .. Len(stream)
        /\ 0 \in 0 .. 0
    BY <1>2, <1>3
  <2>2. QED
    BY <1>1, <2>1, Zenon DEF TypeOK
<1>5. HoldsAsFar /\ Limited
  BY <1>1, <1>3 DEF HoldsAsFar, Limited
<1>6. QED
  BY <1>4, <1>5 DEF ParserInv

\* The invariant as it is used.
LEMMA ParserTypes ==
  ASSUME ParserInv
  PROVE  /\ header \in Seq(Byte) /\ args \in Seq(Seq(Byte)) /\ buf \in Seq(Byte)
         /\ stream \in Seq(Byte) /\ Len(stream) \in Nat
         /\ Len(args) \in Nat /\ DOMAIN args = 1 .. Len(args)
         /\ argc \in Nat /\ argc <= kMaxArgs /\ arg_index \in Nat /\ arg_index <= argc
         /\ bulk_len \in Nat /\ bulk_len <= max_bulk_len
         /\ bulk_read \in Nat /\ bulk_read <= bulk_len
         /\ received \in Nat /\ received <= Len(stream)
         /\ kMaxArgs \in Nat /\ max_bulk_len \in Nat /\ MaxHeader \in Nat
<1>1. {MaxHeader, kMaxArgs, max_bulk_len} \subseteq Nat
  BY RESPAssumption
<1>2. stream \in Seq(Byte) /\ Len(stream) \in Nat
  BY ParserAssumption DEF ParserInv
<1>3. header \in Seq(Byte) /\ args \in Seq(Seq(Byte)) /\ buf \in Seq(Byte)
  BY DEF ParserInv, TypeOK
<1>4. Len(args) \in Nat /\ DOMAIN args = 1 .. Len(args)
  BY <1>3, SeqIsFunction
<1>5. /\ argc \in 0 .. kMaxArgs /\ arg_index \in 0 .. argc
      /\ bulk_len \in 0 .. max_bulk_len /\ bulk_read \in 0 .. bulk_len
      /\ received \in 0 .. Len(stream)
  BY DEF ParserInv, TypeOK
<1>6. QED
  BY <1>1, <1>2, <1>3, <1>4, <1>5

LEMMA ParserRecv ==
  ASSUME ParserInv, NEW n \in 1 .. Len(stream), Recv(n)
  PROVE  ParserInv'
<1> USE DEF Recv, fields
<1>1. received + n \in Nat /\ received + n <= Len(stream) /\ received + 1 \in Nat \ {0}
  <2>1. received \in Nat /\ Len(stream) \in Nat
    BY ParserTypes
  <2>2. n \in Nat \ {0} /\ received + n <= Len(stream)
    BY <2>1
  <2>3. QED
    BY <2>1, <2>2
<1>2. buf' \in Seq(Byte)
  <2>1. SubSeq(stream, received + 1, received + n) \in Seq(Byte)
    BY <1>1, ParserTypes, PartIs
  <2>2. QED
    BY <2>1
<1>3. received' \in 0 .. Len(stream')
  <2>1. received + n \in 0 .. Len(stream)
    BY <1>1, ParserTypes
  <2>2. received' = received + n /\ stream' = stream
    OBVIOUS
  <2>3. QED
    BY <2>1, <2>2, Zenon
<1>4. TypeOK'
  BY <1>2, <1>3 DEF ParserInv, TypeOK
<1>5. HoldsAsFar' /\ Limited'
  BY DEF ParserInv, HoldsAsFar, Limited
<1>6. QED
  BY <1>4, <1>5 DEF ParserInv

LEMMA ParserFails ==
  ASSUME ParserInv, NEW message \in {"invalid", "bad_alloc"}, fail(message),
         UNCHANGED <<stream, received>>
  PROVE  ParserInv'
<1> USE DEF fail, fields
<1>1. <<>> \in Seq(Byte)
  OBVIOUS
<1>2. TypeOK'
  BY <1>1 DEF ParserInv, TypeOK
<1>3. HoldsAsFar' /\ Limited'
  BY DEF ParserInv, HoldsAsFar, Limited
<1>4. QED
  BY <1>2, <1>3 DEF ParserInv

LEMMA ParserHeaderNeedsMore ==
  ASSUME ParserInv, HeaderNeedsMore
  PROVE  ParserInv'
<1>1. /\ header' = read_line.text /\ ~read_line.bad
      /\ calling' = FALSE /\ buf' = <<>>
      /\ UNCHANGED <<state, error, argc, arg_index, args, bulk_len, bulk_read, stream,
                     received, executed>>
  BY DEF HeaderNeedsMore, In, NeedMore
<1>2. header' \in Seq(Byte) /\ Len(header') <= MaxHeader
  BY <1>1, LineIs, ParserTypes
<1>3. <<>> \in Seq(Byte)
  OBVIOUS
<1>4. TypeOK'
  BY <1>1, <1>2, <1>3 DEF ParserInv, TypeOK
<1>5. HoldsAsFar' /\ Limited'
  BY <1>1, <1>2 DEF ParserInv, HoldsAsFar, Limited
<1>6. QED
  BY <1>1, <1>4, <1>5 DEF ParserInv

LEMMA ParserArrayLen ==
  ASSUME ParserInv, ArrayLen
  PROVE  ParserInv'
<1>1. /\ argc' = Length /\ arg_index' = 0 /\ args' = <<>> /\ header' = <<>>
      /\ state' = (IF Length = 0 THEN "Ready" ELSE "BulkLen")
      /\ buf' = read_line.rest /\ calling' = TRUE
      /\ UNCHANGED <<error, bulk_len, bulk_read, stream, received, executed>>
  BY DEF ArrayLen, In, BeginCommand, Continue
<1>2. Length \in Nat /\ Length <= kMaxArgs /\ read_line.rest \in Seq(Byte)
  BY AcceptedIs, LineIs, ParserTypes DEF ArrayLen
<1>3. /\ <<>> \in Seq(Byte) /\ <<>> \in Seq(Seq(Byte)) /\ Len(<<>>) = 0
      /\ argc' \in 0 .. kMaxArgs /\ arg_index' \in 0 .. argc'
  BY <1>1, <1>2, ParserTypes
<1>4. TypeOK'
  BY <1>1, <1>2, <1>3 DEF ParserInv, TypeOK
<1>5. HoldsAsFar' /\ Limited'
  BY <1>1, <1>2, <1>3, ParserTypes DEF HoldsAsFar, Limited
<1>6. QED
  BY <1>1, <1>4, <1>5 DEF ParserInv

LEMMA ParserBulkLen ==
  ASSUME ParserInv, BulkLen
  PROVE  ParserInv'
<1> DEFINE room == [i \in 1 .. Length |-> 0]
           n == Len(args)
<1>1. /\ args' = Append(args, room) /\ state = "BulkLen"
      /\ bulk_len' = Length /\ bulk_read' = 0 /\ header' = <<>>
      /\ state' = (IF Length = 0 THEN "Trailer" ELSE "Payload")
      /\ buf' = read_line.rest /\ calling' = TRUE
      /\ UNCHANGED <<error, argc, arg_index, stream, received, executed>>
  BY DEF BulkLen, In, Continue
<1>2. Length \in Nat /\ Length <= max_bulk_len /\ read_line.rest \in Seq(Byte)
  BY AcceptedIs, LineIs, ParserTypes DEF BulkLen
<1>3. room \in Seq(Byte) /\ Len(room) = Length
  BY <1>2 DEF Byte
<1>4. /\ args' \in Seq(Seq(Byte)) /\ Len(args') = n + 1 /\ args'[n + 1] = room
      /\ \A i \in 1 .. n : args'[i] = args[i]
  <2> HIDE DEF room
  <2>1. QED
    BY <1>1, <1>3, ParserTypes
<1> HIDE DEF room
<1>5. n = arg_index /\ arg_index < argc
  BY <1>1 DEF ParserInv, HoldsAsFar
<1>6. /\ <<>> \in Seq(Byte) /\ Len(<<>>) = 0
      /\ bulk_len' \in 0 .. max_bulk_len /\ bulk_read' \in 0 .. bulk_len'
  BY <1>1, <1>2, ParserTypes
<1>7. TypeOK'
  BY <1>1, <1>2, <1>4, <1>6, SMTT(30) DEF ParserInv, TypeOK
<1>8. HoldsAsFar'
  BY <1>1, <1>3, <1>4, <1>5, ParserTypes, SMTT(30) DEF HoldsAsFar
<1>9. Limited'
  <2>1. \A i \in 1 .. n : Len(args[i]) <= max_bulk_len
    BY DEF ParserInv, Limited
  <2>2. \A i \in 1 .. n + 1 : i \in 1 .. n \/ i = n + 1
    BY ParserTypes, SMTT(30)
  <2>3. \A i \in 1 .. n + 1 : Len(args'[i]) <= max_bulk_len
    BY <1>2, <1>3, <1>4, <2>1, <2>2
  <2>4. Len(header') <= MaxHeader
    BY <1>1, <1>6, ParserTypes
  <2>5. QED
    BY <1>1, <1>4, <2>3, <2>4, Zenon DEF Limited
<1>10. QED
  BY <1>1, <1>7, <1>8, <1>9 DEF ParserInv

\* What memcpy takes of the buffer.
LEMMA TakeIs ==
  ASSUME ParserInv
  PROVE  LET take == Min({bulk_len - bulk_read, Len(buf)})
         IN  take \in Nat /\ take <= Len(buf) /\ take <= bulk_len - bulk_read
<1> DEFINE m == bulk_len - bulk_read
           n == Len(buf)
           T == {m, n}
<1>1. m \in Nat /\ n \in Nat
  BY ParserTypes, SeqIsFunction, SMTT(30)
<1> HIDE DEF m, n
<1>2. T \in SUBSET Nat /\ T # {}
  BY <1>1
<1>3. Min(T) \in T /\ \A i \in T : Min(T) <= i
  <2> HIDE DEF T
  <2>1. QED
    BY <1>2, MinIs
<1>4. Min(T) \in Nat /\ Min(T) <= n /\ Min(T) <= m
  BY <1>2, <1>3
<1>5. QED
  BY <1>4 DEF m, n

LEMMA ParserPayload ==
  ASSUME ParserInv, Payload
  PROVE  ParserInv'
<1> DEFINE take == Min({bulk_len - bulk_read, Len(buf)})
           n == Len(args)
           old == args[n]
           new == [i \in 1 .. bulk_len |->
                     IF i \in bulk_read + 1 .. bulk_read + take
                     THEN buf[i - bulk_read] ELSE old[i]]
<1>1. /\ args' = [args EXCEPT ![n] = new] /\ state = "Payload"
      /\ bulk_read' = bulk_read + take
      /\ \/ buf' = <<>> /\ state' = state /\ calling' = FALSE
         \/ buf' = SubSeq(buf, take + 1, Len(buf)) /\ state' = "Trailer" /\ calling' = TRUE
      /\ UNCHANGED <<error, header, argc, arg_index, bulk_len, stream, received, executed>>
  BY DEF Payload, In, NeedMore, Continue
<1>2. take \in Nat /\ take <= Len(buf) /\ take <= bulk_len - bulk_read
  BY TakeIs
<1> HIDE DEF take
<1>3. n = arg_index + 1 /\ arg_index < argc /\ Len(old) = bulk_len
  BY <1>1 DEF ParserInv, HoldsAsFar
<1>4. n \in 1 .. Len(args) /\ old \in Seq(Byte) /\ Len(buf) \in Nat
  BY <1>3, ParserTypes, SeqIsFunction, SMTT(30)
<1>5. new \in Seq(Byte) /\ Len(new) = bulk_len
  <2>1. ASSUME NEW i \in 1 .. bulk_len
        PROVE  (IF i \in bulk_read + 1 .. bulk_read + take
                THEN buf[i - bulk_read] ELSE old[i]) \in Byte
    <3>1. CASE i \in bulk_read + 1 .. bulk_read + take
      <4>1. bulk_read \in Nat
        BY ParserTypes
      <4>2. i - bulk_read \in 1 .. Len(buf)
        BY <1>2, <1>4, <3>1, <4>1
      <4>3. buf \in Seq(Byte)
        BY ParserTypes
      <4>4. buf[i - bulk_read] \in Byte
        BY <4>2, <4>3, SeqIsFunction
      <4>5. QED
        BY <3>1, <4>4
    <3>2. CASE i \notin bulk_read + 1 .. bulk_read + take
      <4>1. old[i] \in Byte
        BY <1>3, <1>4, SeqIsFunction
      <4>2. QED
        BY <3>2, <4>1
    <3>3. QED
      BY <3>1, <3>2
  <2>2. new \in [1 .. bulk_len -> Byte]
    BY <2>1, Zenon
  <2> HIDE DEF new
  <2>3. bulk_len \in Nat
    BY ParserTypes, ZenonT(30)
  <2>4. QED
    BY <2>2, <2>3
<1> HIDE DEF new, old
<1>6. /\ args' \in Seq(Seq(Byte)) /\ Len(args') = n /\ args'[n] = new
      /\ \A i \in 1 .. n : i # n => args'[i] = args[i]
  <2>1. /\ [args EXCEPT ![n] = new] \in Seq(Seq(Byte)) /\ Len([args EXCEPT ![n] = new]) = n
        /\ [args EXCEPT ![n] = new][n] = new
        /\ \A i \in 1 .. n : i # n => [args EXCEPT ![n] = new][i] = args[i]
    <3>1. args \in Seq(Seq(Byte)) /\ n \in 1 .. Len(args) /\ n = Len(args)
      BY <1>4, ParserTypes
    <3> HIDE DEF n
    <3>2. new \in Seq(Byte)
      BY <1>5
    <3> DEFINE Replaced(s, k, e) ==
                 /\ [s EXCEPT ![k] = e] \in Seq(Seq(Byte))
                 /\ Len([s EXCEPT ![k] = e]) = Len(s)
                 /\ [s EXCEPT ![k] = e][k] = e
                 /\ \A i \in 1 .. Len(s) : i # k => [s EXCEPT ![k] = e][i] = s[i]
    <3>3. ASSUME NEW s \in Seq(Seq(Byte)), NEW k \in 1 .. Len(s), NEW e \in Seq(Byte)
          PROVE  Replaced(s, k, e)
      BY ReplacedIs
    <3> HIDE DEF Replaced
    <3>4. Replaced(args, n, new)
      BY <3>1, <3>2, <3>3, Zenon
    <3>5. QED
      BY <3>1, <3>4 DEF Replaced
  <2>2. QED
    BY <1>1, <2>1, ZenonT(30)
<1>7. buf' \in Seq(Byte)
  <2>1. take + 1 \in Nat \ {0}
    BY <1>2
  <2>2. SubSeq(buf, take + 1, Len(buf)) \in Seq(Byte)
    <3>1. Len(buf) <= Len(buf) /\ buf \in Seq(Byte)
      BY <1>4, ParserTypes
    <3>2. QED
      BY <1>4, <2>1, <3>1, PartIs
  <2>3. QED
    <3>1. <<>> \in Seq(Byte)
      OBVIOUS
    <3>2. QED
      BY <1>1, <2>2, <3>1, Zenon
<1>8. bulk_read' \in 0 .. bulk_len'
  <2>1. bulk_read \in Nat /\ bulk_len \in Nat
    BY ParserTypes
  <2>2. bulk_read + take \in 0 .. bulk_len
    BY <1>2, <2>1, SMTT(30)
  <2>3. QED
    BY <1>1, <2>2
<1>9. TypeOK'
  BY <1>1, <1>6, <1>7, <1>8, ZenonT(30) DEF ParserInv, TypeOK
<1>10. HoldsAsFar'
  <2>1. arg_index \in Nat /\ argc \in Nat
    BY ParserTypes
  <2>2. Len(args') = arg_index' + 1 /\ arg_index' < argc' /\ Len(args'[n]) = bulk_len'
    BY <1>1, <1>3, <1>5, <1>6
  <2>3. Len(args') <= argc'
    BY <1>1, <2>1, <2>2
  <2>4. state' # "BulkLen"
    BY <1>1, SMTT(30)
  <2>5. QED
    BY <1>6, <2>2, <2>3, <2>4 DEF HoldsAsFar
<1>11. Limited'
  <2>1. \A i \in 1 .. n : Len(args'[i]) <= max_bulk_len
    BY <1>5, <1>6, ParserTypes DEF ParserInv, Limited
  <2>2. QED
    BY <1>1, <1>6, <2>1, ParserTypes, ZenonT(30) DEF ParserInv, Limited
<1>12. QED
  BY <1>1, <1>9, <1>10, <1>11 DEF ParserInv

LEMMA ParserTrailerNeedsMore ==
  ASSUME ParserInv, TrailerNeedsMore
  PROVE  ParserInv'
<1>1. /\ calling' = FALSE /\ buf' = <<>>
      /\ UNCHANGED <<state, error, header, argc, arg_index, args, bulk_len, bulk_read,
                     stream, received, executed>>
  BY DEF TrailerNeedsMore, In, NeedMore, fields
<1>2. <<>> \in Seq(Byte)
  OBVIOUS
<1>3. TypeOK'
  BY <1>1, <1>2 DEF ParserInv, TypeOK
<1>4. HoldsAsFar' /\ Limited'
  BY <1>1 DEF ParserInv, HoldsAsFar, Limited
<1>5. QED
  BY <1>1, <1>3, <1>4 DEF ParserInv

LEMMA ParserTrailerCr ==
  ASSUME ParserInv, TrailerCr
  PROVE  ParserInv'
<1>1. /\ buf # <<>> /\ calling' = TRUE /\ buf' = Tail(buf)
      /\ state = "Trailer" /\ state' = "TrailerLf"
      /\ UNCHANGED <<error, header, argc, arg_index, args, bulk_len, bulk_read,
                     stream, received, executed>>
  BY DEF TrailerCr, In, Continue, fields
<1>2. buf' \in Seq(Byte)
  BY <1>1, ParserTypes
<1>3. TypeOK'
  BY <1>1, <1>2 DEF ParserInv, TypeOK
<1>4. HoldsAsFar' /\ Limited'
  BY <1>1 DEF ParserInv, HoldsAsFar, Limited
<1>5. QED
  BY <1>1, <1>3, <1>4 DEF ParserInv

LEMMA ParserTrailerLf ==
  ASSUME ParserInv, TrailerLf
  PROVE  ParserInv'
<1>1. /\ buf # <<>> /\ calling' = TRUE /\ buf' = Tail(buf)
      /\ state \in {"Trailer", "TrailerLf"}
      /\ arg_index' = arg_index + 1
      /\ state' = (IF arg_index' < argc THEN "BulkLen" ELSE "Ready")
      /\ UNCHANGED <<error, header, argc, args, bulk_len, bulk_read,
                     stream, received, executed>>
  BY DEF TrailerLf, In, Continue
<1>2. buf' \in Seq(Byte)
  BY <1>1, ParserTypes
<1>3. Len(args) = arg_index + 1 /\ arg_index < argc
  BY <1>1 DEF ParserInv, HoldsAsFar
<1>4. arg_index' \in 0 .. argc'
  <2>1. arg_index \in Nat /\ argc \in Nat
    BY ParserTypes
  <2>2. arg_index + 1 \in 0 .. argc
    BY <1>3, <2>1
  <2>3. QED
    BY <1>1, <2>2
<1>5. TypeOK'
  BY <1>1, <1>2, <1>4 DEF ParserInv, TypeOK
<1>6. HoldsAsFar'
  <2>1. Len(args') = arg_index' /\ arg_index \in Nat /\ argc \in Nat /\ Len(args') <= argc'
    BY <1>1, <1>3, ParserTypes, SMTT(30)
  <2>2. QED
    BY <1>1, <2>1 DEF HoldsAsFar
<1>7. Limited'
  BY <1>1 DEF ParserInv, Limited
<1>8. QED
  BY <1>1, <1>5, <1>6, <1>7 DEF ParserInv

LEMMA ParserReady ==
  ASSUME ParserInv, Ready
  PROVE  ParserInv'
<1> DEFINE command == classify(args)
           Command == [verb : Seq(Byte), args : Seq(Seq(Byte)), known : BOOLEAN]
<1>1. /\ args' = <<>> /\ state' = "ArrayLen" /\ calling' = (buf # <<>>)
      /\ executed' = executed \/ executed' = Append(executed, command)
      /\ UNCHANGED <<buf, error, header, argc, arg_index, bulk_len, bulk_read,
                     stream, received>>
  BY DEF Ready, In
<1>2. command \in Command
  <2>1. /\ <<>> \in Seq(Byte) /\ <<>> \in Seq(Seq(Byte))
        /\ args # <<>> => Head(args) \in Seq(Byte) /\ Tail(args) \in Seq(Seq(Byte))
    BY ParserTypes
  <2>2. (IF args = <<>> THEN <<>> ELSE Head(args)) \in Seq(Byte)
        /\ (IF args = <<>> THEN <<>> ELSE Tail(args)) \in Seq(Seq(Byte))
    BY <2>1
  <2>3. QED
    <3> DEFINE verb == IF args = <<>> THEN <<>> ELSE Head(args)
               rest == IF args = <<>> THEN <<>> ELSE Tail(args)
               known == [i \in 1 .. Len(verb) |-> Upper(verb[i])] \in Verbs
    <3>1. command = [verb |-> verb, args |-> rest, known |-> known]
      BY DEF classify
    <3>2. known \in BOOLEAN
      OBVIOUS
    <3> HIDE DEF verb, rest, known, command
    <3>3. QED
      BY <2>2, <3>1, <3>2 DEF verb, rest
<1> HIDE DEF command
<1>3. executed' \in Seq(Command)
  <2>1. executed \in Seq(Command)
    BY DEF ParserInv, TypeOK
  <2> HIDE DEF Command
  <2>2. QED
    BY <1>1, <1>2, <2>1
<1>4. <<>> \in Seq(Seq(Byte)) /\ Len(<<>>) = 0
  OBVIOUS
<1>5. TypeOK'
  BY <1>1, <1>3, <1>4 DEF ParserInv, TypeOK
<1>6. HoldsAsFar' /\ Limited'
  BY <1>1, <1>4, ParserTypes DEF ParserInv, HoldsAsFar, Limited
<1>7. QED
  BY <1>1, <1>5, <1>6 DEF ParserInv

LEMMA ParserNext == ParserInv /\ [Next]_vars => ParserInv'
<1> SUFFICES ASSUME ParserInv, [Next]_vars PROVE ParserInv'
  OBVIOUS
<1>1. ASSUME NEW n \in 1 .. Len(stream), Recv(n) PROVE ParserInv'
  BY <1>1, ParserRecv
<1>2. CASE HeaderFails \/ BulkLenThrows \/ TrailerFails
  <2>1. /\ fail("invalid") \/ fail("bad_alloc")
        /\ UNCHANGED <<stream, received>>
    BY <1>2 DEF HeaderFails, BulkLenThrows, TrailerFails, In
  <2>2. QED
    BY <2>1, ParserFails
<1>3. CASE consume
  BY <1>2, <1>3, ParserHeaderNeedsMore, ParserArrayLen, ParserBulkLen, ParserPayload,
     ParserTrailerNeedsMore, ParserTrailerCr, ParserTrailerLf, ParserReady DEF consume
<1>4. CASE UNCHANGED vars
  BY <1>4 DEF vars, fields, ParserInv, TypeOK, HoldsAsFar, Limited
<1>5. QED
  BY <1>1, <1>3, <1>4 DEF Next, Over

LEMMA AlwaysParserInv == Spec => []ParserInv
BY ParserInit, ParserNext, PTL DEF Spec

\* Whatever consume is given and however it is cut up, the parser's fields keep
\* their types: in particular the lengths it allocates by are natural numbers
\* within their limits, and it never counts past argc.
THEOREM ParserTypeCorrect == Spec => []TypeOK
<1>1. ParserInv => TypeOK
  BY DEF ParserInv
<1>2. QED
  BY <1>1, AlwaysParserInv, PTL

\* What the parser holds of a command that is not complete is bounded by its
\* limits, whatever consume is given: a header of MaxHeader bytes and kMaxArgs
\* arguments of max_bulk_len bytes.
THEOREM ParserHoldsBounded == Spec => []HeldBounded
<1>1. ASSUME ParserInv
      PROVE  HeldBounded
  <2>1. DOMAIN args = 1 .. Len(args) /\ argc <= kMaxArgs
    BY <1>1, ParserTypes
  <2>2. QED
    BY <1>1, <2>1 DEF ParserInv, HoldsAsFar, Limited, HeldBounded
<1>2. QED
  BY <1>1, AlwaysParserInv, PTL
-----------------------------------------------------------------------------
(***************************************************************************)
(* The reading of a whole stream (RESP).                                   *)
(***************************************************************************)
Ended == {More, Bad}

\* Where the line at i ends.
LEMMA LineEndIs ==
  ASSUME NEW s \in Seq(Byte), NEW i \in 1 .. Len(s) + 1
  PROVE  /\ LineEnd(s, i) \in i .. Len(s) + 1
         /\ LineEnd(s, i) <= Len(s) => s[LineEnd(s, i)] = LF
         /\ \A j \in i .. Len(s) : s[j] = LF => LineEnd(s, i) <= j
<1> DEFINE T == {j \in i .. Len(s) : s[j] = LF} \cup {Len(s) + 1}
<1>1. Len(s) \in Nat
  BY SeqIsFunction
<1>2. T \in SUBSET Nat /\ T # {}
  BY <1>1
<1>3. /\ \A j \in T : j \in i .. Len(s) + 1
      /\ \A j \in T : j <= Len(s) => s[j] = LF
      /\ \A j \in i .. Len(s) : s[j] = LF => j \in T
  BY <1>1
<1> HIDE DEF T
<1>4. Min(T) \in T /\ \A j \in T : Min(T) <= j
  BY <1>2, MinIs
<1>5. LineEnd(s, i) = Min(T)
  BY Zenon DEF LineEnd, T
<1>6. QED
  BY <1>3, <1>4, <1>5, Zenon

LEMMA LineEndAt ==
  ASSUME NEW s \in Seq(Byte), NEW i \in 1 .. Len(s) + 1, NEW e \in i .. Len(s) + 1,
         e <= Len(s) => s[e] = LF, \A j \in i .. e - 1 : s[j] # LF
  PROVE  LineEnd(s, i) = e
<1>1. Len(s) \in Nat
  BY SeqIsFunction
<1>2. PICK d : d = LineEnd(s, i)
  OBVIOUS
<1>3. /\ d \in i .. Len(s) + 1 /\ (d <= Len(s) => s[d] = LF)
      /\ \A j \in i .. Len(s) : s[j] = LF => d <= j
  BY <1>2, LineEndIs
<1>4. d >= e
  BY <1>1, <1>3
<1>5. d <= e
  BY <1>1, <1>3
<1>6. QED
  BY <1>1, <1>2, <1>3, <1>4, <1>5

\* A header line, and what comes after it.
LEMMA AfterLineIs ==
  ASSUME NEW s \in Seq(Byte), NEW i \in 1 .. Len(s) + 1, NEW mark, NEW max \in Nat
  PROVE  LET at == AfterLine(s, i, mark, max)
         IN  \/ at \in Ended
             \/ /\ at \in i + 1 .. Len(s) + 1 /\ at = LineEnd(s, i) + 1
                /\ Number(s, i) \in Nat /\ Number(s, i) <= max
<1>1. Len(s) \in Nat
  BY SeqIsFunction
<1>2. PICK d : d = LineEnd(s, i)
  OBVIOUS
<1>3. d \in i .. Len(s) + 1
  BY <1>2, LineEndIs
<1>4. PICK text : text = LineText(s, i)
  OBVIOUS
<1>5. text \in Seq(Byte)
  <2>1. d - 1 \in Nat /\ d - 1 <= Len(s) /\ i \in Nat \ {0}
    BY <1>1, <1>3
  <2>2. SubSeq(s, i, d - 1) \in Seq(Byte)
    BY <2>1, PartIs
  <2>3. QED
    BY <1>2, <1>4, <2>2, StrippedIs DEF LineText
<1>6. PICK at : at = AfterLine(s, i, mark, max)
  OBVIOUS
<1>7. \/ at = Bad
      \/ at = More
      \/ ~(d > Len(s)) /\ IsHeader(text, mark, max) /\ at = d + 1
  <2>1. \/ at = Bad \/ at = More
        \/ ~(d > Len(s)) /\ at = IF IsHeader(text, mark, max) THEN d + 1 ELSE Bad
    BY <1>2, <1>4, <1>6, Zenon DEF AfterLine
  <2>2. QED
    BY <2>1, Zenon
<1>8. CASE ~(d > Len(s)) /\ IsHeader(text, mark, max) /\ at = d + 1
  <2>1. Number(s, i) \in Nat /\ Number(s, i) <= max
    BY <1>4, <1>5, <1>8, HeaderNumber, Zenon DEF Number
  <2>2. at \in i + 1 .. Len(s) + 1
    BY <1>1, <1>3, <1>8
  <2>3. QED
    BY <1>2, <1>6, <1>8, <2>1, <2>2, Zenon
<1>9. QED
  BY <1>6, <1>7, <1>8, Zenon DEF Ended

LEMMA AfterEolIs ==
  ASSUME NEW s \in Seq(Byte), NEW i \in Nat \ {0}
  PROVE  AfterEol(s, i) \in Ended \cup (i + 1 .. Len(s) + 1)
<1>1. Len(s) \in Nat
  BY SeqIsFunction
<1>2. \/ AfterEol(s, i) \in Ended
      \/ ~(i > Len(s)) /\ AfterEol(s, i) = i + 1
      \/ ~(i > Len(s)) /\ i # Len(s) /\ AfterEol(s, i) = i + 2
  BY Zenon DEF AfterEol, Ended
<1>3. QED
  BY <1>1, <1>2

LEMMA AfterBulkIs ==
  ASSUME NEW s \in Seq(Byte), NEW j \in 1 .. Len(s) + 1
  PROVE  AfterBulk(s, j) \in Ended \cup (j + 1 .. Len(s) + 1)
<1>1. Len(s) \in Nat /\ max_bulk_len \in Nat
  BY SeqIsFunction, RESPAssumption
<1>2. PICK h : h = AfterLine(s, j, Dollar, max_bulk_len)
  OBVIOUS
<1>3. \/ h \in Ended
      \/ h \in j + 1 .. Len(s) + 1 /\ Number(s, j) \in Nat
  BY <1>1, <1>2, AfterLineIs, Zenon
<1>4. CASE h \in Ended
  <2>1. h < 0
    BY <1>4 DEF Ended, More, Bad
  <2>2. QED
    BY <1>2, <1>4, <2>1, Zenon DEF AfterBulk
<1>5. CASE h \in j + 1 .. Len(s) + 1 /\ Number(s, j) \in Nat
  <2>1. PICK q : q = h + Number(s, j)
    OBVIOUS
  <2>2. ~(h < 0) /\ q \in Nat \ {0} /\ q >= j
    BY <1>1, <1>5, <2>1
  <2>3. AfterBulk(s, j) = AfterEol(s, q)
    BY <1>2, <2>1, <2>2, Zenon DEF AfterBulk
  <2>4. AfterEol(s, q) \in Ended \cup (q + 1 .. Len(s) + 1)
    BY <2>2, AfterEolIs
  <2>5. QED
    BY <1>1, <2>2, <2>3, <2>4
<1>6. QED
  BY <1>3, <1>4, <1>5

\* The places where the n bulks of the frame at i start, and what follows them.
StartsAre(s, i, at, n) ==
  /\ n \in 0 .. kMaxArgs /\ Len(at) = n + 1 /\ DOMAIN at = 1 .. n + 1
  /\ at[1] = AfterLine(s, i, Star, kMaxArgs)
  /\ n = IF at[1] < 0 THEN 0 ELSE Number(s, i)
  /\ \A k \in 1 .. n : at[k + 1] = IF at[k] < 0 THEN at[k] ELSE AfterBulk(s, at[k])

\* The places follow from one another, as far as there may be arguments: the
\* least place up to which they did not would follow one up to which they do.
Following(s, first, k, g) ==
  /\ g[0] = first
  /\ \A m \in 1 .. k : g[m] = IF g[m - 1] < 0 THEN g[m - 1] ELSE AfterBulk(s, g[m - 1])

LEMMA PlacesFollow ==
  ASSUME NEW s, NEW first, NEW n \in Nat
  PROVE  \E g : DOMAIN g = 0 .. n /\ Following(s, first, n, g)
<1> DEFINE Has(k) == \E g : DOMAIN g = 0 .. k /\ Following(s, first, k, g)
           T == {k \in 0 .. n : ~Has(k)}
<1>1. n \in 0 .. n /\ T \in SUBSET Nat
  <2> HIDE DEF Has
  <2>1. QED
    OBVIOUS
<1>2. SUFFICES ASSUME T # {} PROVE FALSE
  <2> HIDE DEF Has
  <2>1. n \in T \/ Has(n)
    BY <1>1
  <2>2. QED
    BY <2>1 DEF Has
<1>3. PICK k \in T : \A m \in T : k <= m
  <2> HIDE DEF T
  <2>1. QED
    BY <1>1, <1>2, LeastNatural
<1>4. Has(0)
  <2>1. DOMAIN [m \in 0 .. 0 |-> first] = 0 .. 0
        /\ Following(s, first, 0, [m \in 0 .. 0 |-> first])
    BY DEF Following
  <2>2. QED
    BY <2>1
<1> HIDE DEF Has
<1>5. k \in 1 .. n
  BY <1>3, <1>4
<1>6. Has(k - 1)
  BY <1>3, <1>5
<1>7. PICK g : DOMAIN g = 0 .. k - 1 /\ Following(s, first, k - 1, g)
  BY <1>6, Zenon DEF Has
<1> DEFINE new == IF g[k - 1] < 0 THEN g[k - 1] ELSE AfterBulk(s, g[k - 1])
           h == [m \in 0 .. k |-> IF m = k THEN new ELSE g[m]]
<1>8. Following(s, first, k, h)
  <2>1. \A m \in 0 .. k - 1 : h[m] = g[m]
    <3> HIDE DEF new
    <3>1. QED
      BY <1>5
  <2>2. h[k] = new
    <3> HIDE DEF new
    <3>1. QED
      BY <1>5
  <2> HIDE DEF h
  <2>3. h[0] = first
    BY <1>5, <1>7, <2>1 DEF Following
  <2>4. ASSUME NEW m \in 1 .. k
        PROVE  h[m] = IF h[m - 1] < 0 THEN h[m - 1] ELSE AfterBulk(s, h[m - 1])
    <3>1. m - 1 \in 0 .. k - 1 /\ h[m - 1] = g[m - 1]
      BY <1>5, <2>1
    <3>2. CASE m = k
      BY <2>2, <3>1, <3>2, Zenon
    <3>3. CASE m # k
      <4>1. m \in 1 .. k - 1 /\ m \in 0 .. k - 1
        BY <1>5, <3>3
      <4>2. g[m] = IF g[m - 1] < 0 THEN g[m - 1] ELSE AfterBulk(s, g[m - 1])
        BY <1>7, <4>1, Zenon DEF Following
      <4>3. h[m] = g[m]
        BY <2>1, <4>1, Zenon
      <4>4. QED
        BY <3>1, <4>2, <4>3, Zenon
    <3>4. QED
      BY <3>2, <3>3
  <2>5. QED
    BY <2>3, <2>4, Zenon DEF Following
<1>9. DOMAIN h = 0 .. k
  BY Zenon
<1>10. Has(k)
  BY <1>8, <1>9, Zenon DEF Has
<1>11. QED
  BY <1>3, <1>10

LEMMA StartsIs ==
  ASSUME NEW s \in Seq(Byte), NEW i \in 1 .. Len(s) + 1
  PROVE  \E n : StartsAre(s, i, Starts(s, i), n)
<1> DEFINE first == AfterLine(s, i, Star, kMaxArgs)
           Eq(u) == u = [k \in 0 .. kMaxArgs |->
                           IF k = 0 THEN first
                           ELSE IF u[k - 1] < 0 THEN u[k - 1] ELSE AfterBulk(s, u[k - 1])]
           u == CHOOSE v : Eq(v)
           n == IF first < 0 THEN 0 ELSE Number(s, i)
<1>1. kMaxArgs \in Nat
  BY RESPAssumption
<1>2. PICK g : DOMAIN g = 0 .. kMaxArgs /\ Following(s, first, kMaxArgs, g)
  BY <1>1, PlacesFollow, Zenon
<1> DEFINE Turn(v, k) == IF k = 0 THEN first
                         ELSE IF v[k - 1] < 0 THEN v[k - 1] ELSE AfterBulk(s, v[k - 1])
           h == [k \in 0 .. kMaxArgs |-> g[k]]
<1>3. Eq(h)
  <2>1. ASSUME NEW k \in 0 .. kMaxArgs
        PROVE  h[k] = Turn(h, k)
    <3>1. h[k] = g[k]
      OBVIOUS
    <3>2. CASE k = 0
      BY <1>2, <3>1, <3>2, Zenon DEF Following
    <3>3. CASE k # 0
      <4>1. k \in 1 .. kMaxArgs /\ k - 1 \in 0 .. kMaxArgs
        BY <1>1, <3>3
      <4>2. h[k - 1] = g[k - 1]
        BY <4>1
      <4> HIDE DEF h
      <4>3. QED
        BY <1>2, <3>1, <3>3, <4>1, <4>2, Zenon DEF Following
    <3>4. QED
      BY <3>2, <3>3
  <2>2. h = [k \in 0 .. kMaxArgs |-> Turn(h, k)]
    BY <2>1, Zenon
  <2>3. QED
    BY <2>2, Zenon
<1>4. Eq(u)
  <2> HIDE DEF Eq
  <2>1. QED
    BY <1>3, Zenon
<1>5. \A k \in 0 .. kMaxArgs : u[k] = Turn(u, k)
  <2> HIDE DEF u
  <2>1. QED
    BY <1>4, Zenon
<1>6. Starts(s, i) = [k \in 1 .. n + 1 |-> u[k - 1]]
  BY Zenon DEF Starts
<1>7. first \in Ended \/ (first > 0 /\ n = Number(s, i))
  <2>1. \/ first \in Ended
        \/ first \in i + 1 .. Len(s) + 1
    BY <1>1, AfterLineIs, Zenon
  <2>2. first \in i + 1 .. Len(s) + 1 => first > 0 /\ ~(first < 0)
    <3> HIDE DEF first
    <3>1. QED
      BY SeqIsFunction
  <2>3. ~(first < 0) => n = Number(s, i)
    <3> HIDE DEF first
    <3>1. QED
      BY Zenon
  <2> HIDE DEF first, n
  <2>4. QED
    BY <2>1, <2>2, <2>3, Zenon
<1>8. n \in 0 .. kMaxArgs
  <2>1. CASE first \in Ended
    <3>1. first < 0
      BY <2>1 DEF Ended, More, Bad
    <3>2. n = 0
      BY <3>1, Zenon
    <3>3. QED
      BY <1>1, <3>2
  <2>2. CASE first \notin Ended
    <3>1. Number(s, i) \in Nat /\ Number(s, i) <= kMaxArgs
      BY <1>1, <2>2, AfterLineIs, Zenon
    <3>2. n = Number(s, i)
      BY <1>7, <2>2, Zenon
    <3> HIDE DEF n
    <3>3. QED
      BY <1>1, <3>1, <3>2
  <2>3. QED
    BY <2>1, <2>2
<1> DEFINE at == [k \in 1 .. n + 1 |-> u[k - 1]]
<1> HIDE DEF u, n, Turn
<1>9. Len(at) = n + 1 /\ DOMAIN at = 1 .. n + 1 /\ \A k \in 1 .. n + 1 : at[k] = u[k - 1]
  BY <1>8
<1> HIDE DEF at
<1>10. at[1] = first
  <2>1. 1 \in 1 .. n + 1 /\ 1 - 1 = 0 /\ 0 \in 0 .. kMaxArgs
    BY <1>1, <1>8
  <2>2. at[1] = u[0]
    BY <1>9, <2>1, Zenon
  <2>3. QED
    BY <1>5, <2>1, <2>2, Zenon DEF Turn
<1>11. ASSUME NEW k \in 1 .. n
       PROVE  at[k + 1] = IF at[k] < 0 THEN at[k] ELSE AfterBulk(s, at[k])
  <2>1. /\ k \in 1 .. n + 1 /\ k + 1 \in 1 .. n + 1 /\ k + 1 - 1 = k /\ k # 0
        /\ k \in 0 .. kMaxArgs
    BY <1>1, <1>8
  <2>2. at[k + 1] = u[k] /\ at[k] = u[k - 1]
    BY <1>9, <2>1
  <2>3. QED
    BY <1>5, <2>1, <2>2, Zenon DEF Turn
<1>12. n = IF at[1] < 0 THEN 0 ELSE Number(s, i)
  BY <1>10, Zenon DEF n
<1>13. StartsAre(s, i, at, n)
  BY <1>8, <1>9, <1>10, <1>11, <1>12, Zenon DEF StartsAre
<1>14. QED
  BY <1>6, <1>13, Zenon DEF at

LEMMA StartsInPlace ==
  ASSUME NEW s \in Seq(Byte), NEW i \in 1 .. Len(s) + 1, NEW at, NEW n, StartsAre(s, i, at, n)
  PROVE  \A k \in 1 .. n + 1 : at[k] \in Ended \cup (i + 1 .. Len(s) + 1)
<1> DEFINE Fits(k) == at[k] \in Ended \cup (i + 1 .. Len(s) + 1)
           T == {k \in 1 .. n + 1 : ~Fits(k)}
<1>1. n \in Nat /\ kMaxArgs \in Nat /\ Len(s) \in Nat
  <2>1. kMaxArgs \in Nat
    BY RESPAssumption
  <2>2. n \in 0 .. kMaxArgs
    BY Zenon DEF StartsAre
  <2>3. QED
    BY <2>1, <2>2, SeqIsFunction
<1>2. SUFFICES ASSUME T # {} PROVE FALSE
  OBVIOUS
<1>3. T \in SUBSET Nat
  <2> HIDE DEF Fits
  <2>1. QED
    BY <1>1
<1>4. PICK k \in T : \A m \in T : k <= m
  <2> HIDE DEF T
  <2>1. QED
    BY <1>2, <1>3, LeastNatural
<1>5. Fits(1)
  <2>1. at[1] = AfterLine(s, i, Star, kMaxArgs)
    BY Zenon DEF StartsAre
  <2>2. AfterLine(s, i, Star, kMaxArgs) \in Ended \cup (i + 1 .. Len(s) + 1)
    BY <1>1, AfterLineIs, Zenon
  <2>3. QED
    BY <2>1, <2>2, Zenon
<1> HIDE DEF Fits
<1>6. /\ k \in 1 .. n + 1 /\ k # 1 /\ k - 1 \in 1 .. n /\ k - 1 + 1 = k
      /\ k - 1 \in 1 .. n + 1 /\ ~(k <= k - 1)
  BY <1>1, <1>4, <1>5
<1>7. Fits(k - 1)
  BY <1>4, <1>6, Zenon
<1> DEFINE j == at[k - 1]
<1>8. at[k] = IF j < 0 THEN j ELSE AfterBulk(s, j)
  <2>1. \A m \in 1 .. n : at[m + 1] = IF at[m] < 0 THEN at[m] ELSE AfterBulk(s, at[m])
    BY Zenon DEF StartsAre
  <2>2. at[k - 1 + 1] = IF at[k - 1] < 0 THEN at[k - 1] ELSE AfterBulk(s, at[k - 1])
    BY <1>6, <2>1, Zenon
  <2>3. QED
    BY <1>6, <2>2, Zenon
<1>9. j \in Ended \cup (i + 1 .. Len(s) + 1)
  BY <1>7, Zenon DEF Fits
<1> HIDE DEF j
<1>10. Fits(k)
  <2>1. CASE j \in Ended
    <3>1. j < 0
      BY <2>1 DEF Ended, More, Bad
    <3>2. QED
      BY <1>8, <2>1, <3>1, Zenon DEF Fits
  <2>2. CASE j \in i + 1 .. Len(s) + 1
    <3>1. ~(j < 0) /\ j \in 1 .. Len(s) + 1
      BY <1>1, <2>2
    <3>2. at[k] = AfterBulk(s, j)
      BY <1>8, <3>1, Zenon
    <3>3. AfterBulk(s, j) \in Ended \cup (j + 1 .. Len(s) + 1)
      BY <3>1, AfterBulkIs
    <3>4. \A q \in j + 1 .. Len(s) + 1 : q \in i + 1 .. Len(s) + 1
      BY <1>1, <2>2
    <3>5. QED
      BY <3>2, <3>3, <3>4, Zenon DEF Fits
  <2>3. QED
    BY <1>9, <2>1, <2>2
<1>11. QED
  BY <1>4, <1>10

\* What ends one bulk ends the frame.
LEMMA EndStays ==
  ASSUME NEW s \in Seq(Byte), NEW i, NEW at, NEW n, StartsAre(s, i, at, n),
         NEW k \in 1 .. n + 1, at[k] \in Ended
  PROVE  at[n + 1] = at[k]
<1> DEFINE T == {m \in k .. n + 1 : at[m] # at[k]}
<1>1. n \in Nat /\ k \in Nat
  <2>1. kMaxArgs \in Nat
    BY RESPAssumption
  <2>2. n \in 0 .. kMaxArgs
    BY Zenon DEF StartsAre
  <2>3. QED
    BY <2>1, <2>2
<1>2. n + 1 \in k .. n + 1
  BY <1>1
<1>3. SUFFICES ASSUME T # {} PROVE FALSE
  BY <1>2
<1>4. T \in SUBSET Nat
  BY <1>1
<1>5. PICK m \in T : \A q \in T : m <= q
  <2> HIDE DEF T
  <2>1. QED
    BY <1>3, <1>4, LeastNatural
<1>6. m \in k .. n + 1 /\ m # k
  BY <1>5
<1>7. m - 1 \in k .. n + 1 /\ m - 1 \in 1 .. n /\ m - 1 + 1 = m /\ ~(m <= m - 1)
  BY <1>1, <1>6
<1>8. at[m - 1] = at[k]
  BY <1>5, <1>7, Zenon
<1>9. at[m - 1] < 0
  BY <1>8 DEF Ended, More, Bad
<1>10. \A q \in 1 .. n : at[q + 1] = IF at[q] < 0 THEN at[q] ELSE AfterBulk(s, at[q])
  BY Zenon DEF StartsAre
<1>11. at[m - 1 + 1] = at[m - 1]
  BY <1>7, <1>9, <1>10, Zenon
<1>12. QED
  BY <1>5, <1>7, <1>8, <1>11

LEMMA FollowsIs ==
  ASSUME NEW s \in Seq(Byte), NEW i \in 1 .. Len(s) + 1, NEW at, NEW n,
         at = Starts(s, i), StartsAre(s, i, at, n)
  PROVE  /\ Follows(s, i) = at[n + 1] /\ Frame(s, i) = [k \in 1 .. n |-> Bulk(s, at[k])]
         /\ n \in Nat
         /\ Follows(s, i) \in Ended \cup (i + 1 .. Len(s) + 1)
<1>1. n \in Nat
  <2>1. kMaxArgs \in Nat
    BY RESPAssumption
  <2>2. n \in 0 .. kMaxArgs
    BY Zenon DEF StartsAre
  <2>3. QED
    BY <2>1, <2>2
<1>2. Len(at) = n + 1
  BY Zenon DEF StartsAre
<1>3. Len(at) - 1 = n /\ n + 1 \in 1 .. n + 1
  BY <1>1, <1>2
<1>4. Follows(s, i) = at[n + 1]
  BY <1>2, Zenon DEF Follows
<1>5. Frame(s, i) = [k \in 1 .. n |-> Bulk(s, at[k])]
  BY <1>3, Zenon DEF Frame
<1>6. at[n + 1] \in Ended \cup (i + 1 .. Len(s) + 1)
  BY <1>3, StartsInPlace, Zenon
<1>7. QED
  BY <1>1, <1>4, <1>5, <1>6, Zenon

LEMMA FollowsInPlace ==
  ASSUME NEW s \in Seq(Byte), NEW i \in 1 .. Len(s) + 1
  PROVE  Follows(s, i) \in Ended \cup (i + 1 .. Len(s) + 1)
BY StartsIs, FollowsIs, Zenon

\* The reading from i on, when x is that from what follows the frame at i.
ReadAt(s, i, x) ==
  IF Follows(s, i) < 0
  THEN [frames |-> <<>>, commands |-> <<>>, end |-> Follows(s, i)]
  ELSE [frames |-> <<Frame(s, i)>> \o x.frames,
        commands |-> Given(Frame(s, i)) \o x.commands, end |-> x.end]

ReadsFrom(s, a, f) == f = [i \in a .. Len(s) + 1 |-> ReadAt(s, i, f[Follows(s, i)])]

\* The reading exists: of the last positions from which it did not, the first
\* would come before one from which it does, and a frame leads further on.
LEMMA ReadingIs ==
  ASSUME NEW s \in Seq(Byte), NEW i \in 1 .. Len(s) + 1
  PROVE  ReadingFrom(s)[i] = ReadAt(s, i, ReadingFrom(s)[Follows(s, i)])
<1> DEFINE L == Len(s)
           Has(a) == \E f : ReadsFrom(s, a, f)
           T == {m \in 0 .. L + 1 : ~Has(L + 2 - m)}
<1>1. L \in Nat
  BY SeqIsFunction
<1>2. Has(1)
  <2>1. SUFFICES ASSUME T # {} PROVE FALSE
    <3>1. L + 1 \in 0 .. L + 1 /\ L + 2 - (L + 1) = 1
      BY <1>1
    <3> HIDE DEF Has
    <3>2. Has(L + 2 - (L + 1))
      BY <3>1
    <3>3. QED
      BY <3>1, <3>2
  <2>2. T \in SUBSET Nat
    <3> HIDE DEF Has, L
    <3>1. QED
      BY <1>1
  <2>3. PICK m \in T : \A q \in T : m <= q
    <3> HIDE DEF T
    <3>1. QED
      BY <2>1, <2>2, LeastNatural
  <2>4. PICK a : a = L + 2 - m
    OBVIOUS
  <2>5. ~Has(a) /\ m \in 0 .. L + 1
    <3> HIDE DEF Has
    <3>1. QED
      BY <2>3, <2>4
  <2>6. CASE m = 0
    <3> DEFINE f == [k \in a .. L + 1 |-> 0]
    <3>1. \A k : k \notin a .. L + 1
      BY <1>1, <2>4, <2>6
    <3>2. f = [k \in a .. L + 1 |-> ReadAt(s, k, f[Follows(s, k)])]
      <4> HIDE DEF L
      <4>1. QED
        BY <3>1, Zenon
    <3>3. QED
      BY <2>5, <3>2, Zenon DEF ReadsFrom
  <2>7. CASE m # 0
    <3>1. m - 1 \in 0 .. L + 1 /\ ~(m <= m - 1) /\ L + 2 - (m - 1) = a + 1
          /\ a \in 1 .. L + 1
      BY <1>1, <2>4, <2>5, <2>7
    <3>2. Has(a + 1)
      <4> HIDE DEF Has
      <4>1. m - 1 \notin T
        BY <2>3, <3>1, Zenon
      <4>2. QED
        BY <3>1, <4>1
    <3>3. PICK f : ReadsFrom(s, a + 1, f)
      BY <3>2
    <3> DEFINE h == [k \in a .. L + 1 |-> IF k = a THEN ReadAt(s, a, f[Follows(s, a)])
                                          ELSE f[k]]
    <3>4. ASSUME NEW k \in a .. L + 1
          PROVE  h[k] = ReadAt(s, k, h[Follows(s, k)])
      <4>1. h[k] = ReadAt(s, k, f[Follows(s, k)])
        <5>1. CASE k = a
          BY <5>1, Zenon
        <5>2. CASE k # a
          <6>1. k \in a + 1 .. L + 1
            BY <1>1, <3>1, <5>2
          <6>2. h[k] = f[k]
            BY <5>2, Zenon
          <6>3. f[k] = ReadAt(s, k, f[Follows(s, k)])
            BY <3>3, <6>1, Zenon DEF ReadsFrom
          <6>4. QED
            BY <6>2, <6>3, Zenon
        <5>3. QED
          BY <5>1, <5>2
      <4>2. k \in 1 .. L + 1
        BY <1>1, <3>1
      <4>3. Follows(s, k) \in Ended \cup (k + 1 .. L + 1)
        BY <4>2, FollowsInPlace
      <4>4. CASE Follows(s, k) \in Ended
        <5>1. Follows(s, k) < 0
          BY <4>4 DEF Ended, More, Bad
        <5> HIDE DEF h
        <5>2. QED
          BY <4>1, <5>1, Zenon DEF ReadAt
      <4>5. CASE Follows(s, k) \in k + 1 .. L + 1
        <5>1. Follows(s, k) \in a .. L + 1 /\ Follows(s, k) # a
          BY <1>1, <3>1, <4>5
        <5>2. h[Follows(s, k)] = f[Follows(s, k)]
          BY <5>1, Zenon
        <5>3. QED
          BY <4>1, <5>2, Zenon
      <4>6. QED
        BY <4>3, <4>4, <4>5
    <3>5. h = [k \in a .. L + 1 |-> ReadAt(s, k, h[Follows(s, k)])]
      BY <3>4, Zenon
    <3>6. QED
      BY <2>5, <3>5, Zenon DEF ReadsFrom
  <2>8. QED
    BY <2>6, <2>7
<1>3. ReadingFrom(s) = CHOOSE f : ReadsFrom(s, 1, f)
  BY Zenon DEF ReadingFrom, ReadsFrom, ReadAt
<1>4. ReadsFrom(s, 1, ReadingFrom(s))
  BY <1>2, <1>3, Zenon
<1>5. QED
  BY <1>4, Zenon DEF ReadsFrom

\* The commands read are sequences.
Classified(s) == {classify(Frame(s, i)) : i \in 1 .. Len(s) + 1}

LEMMA OneIs ==
  ASSUME NEW S, NEW c \in S
  PROVE  <<>> \in Seq(S) /\ <<c>> \in Seq(S)
OBVIOUS

LEMMA ReadAtIs ==
  ASSUME NEW s, NEW i, NEW x
  PROVE  /\ Follows(s, i) < 0 =>
              ReadAt(s, i, x).commands = <<>> /\ ReadAt(s, i, x).end = Follows(s, i)
         /\ ~(Follows(s, i) < 0) =>
              /\ ReadAt(s, i, x).commands = Given(Frame(s, i)) \o x.commands
              /\ ReadAt(s, i, x).end = x.end
<1>1. ASSUME NEW e
      PROVE  LET r == [frames |-> <<>>, commands |-> <<>>, end |-> e]
             IN  r.commands = <<>> /\ r.end = e
  OBVIOUS
<1>2. Follows(s, i) < 0 =>
        ReadAt(s, i, x) = [frames |-> <<>>, commands |-> <<>>, end |-> Follows(s, i)]
  BY Zenon DEF ReadAt
<1>3. ~(Follows(s, i) < 0) =>
        ReadAt(s, i, x) = [frames |-> <<Frame(s, i)>> \o x.frames,
                           commands |-> Given(Frame(s, i)) \o x.commands, end |-> x.end]
  BY Zenon DEF ReadAt
<1>4. /\ Follows(s, i) < 0 =>
           ReadAt(s, i, x).commands = <<>> /\ ReadAt(s, i, x).end = Follows(s, i)
  BY <1>1, <1>2, Zenon
<1>5. ~(Follows(s, i) < 0) =>
        /\ ReadAt(s, i, x).commands = Given(Frame(s, i)) \o x.commands
        /\ ReadAt(s, i, x).end = x.end
  <2>1. PICK f, c, e : /\ f = <<Frame(s, i)>> \o x.frames
                       /\ c = Given(Frame(s, i)) \o x.commands /\ e = x.end
    OBVIOUS
  <2>2. ~(Follows(s, i) < 0) => ReadAt(s, i, x) = [frames |-> f, commands |-> c, end |-> e]
    BY <1>3, <2>1, Zenon
  <2>3. [frames |-> f, commands |-> c, end |-> e].commands = c
        /\ [frames |-> f, commands |-> c, end |-> e].end = e
    OBVIOUS
  <2>4. QED
    BY <2>1, <2>2, <2>3, Zenon
<1>6. QED
  BY <1>4, <1>5, Zenon

LEMMA CommandsAreSeq ==
  ASSUME NEW s \in Seq(Byte), NEW i \in 1 .. Len(s) + 1
  PROVE  ReadingFrom(s)[i].commands \in Seq(Classified(s))
<1> DEFINE L == Len(s)
           Fits(a) == ReadingFrom(s)[a].commands \in Seq(Classified(s))
           T == {m \in 0 .. L : ~Fits(L + 1 - m)}
<1>1. L \in Nat
  BY SeqIsFunction
<1>2. T = {}
  <2>1. SUFFICES ASSUME T # {} PROVE FALSE
    OBVIOUS
  <2>2. T \in SUBSET Nat
    <3> HIDE DEF Fits, L
    <3>1. QED
      BY <1>1
  <2>3. PICK m \in T : \A q \in T : m <= q
    <3> HIDE DEF T
    <3>1. QED
      BY <2>1, <2>2, LeastNatural
  <2>4. PICK a : a = L + 1 - m
    OBVIOUS
  <2>5. ~Fits(a) /\ a \in 1 .. L + 1
    <3> HIDE DEF Fits
    <3>1. QED
      BY <1>1, <2>3, <2>4
  <2>6. PICK b : b = Follows(s, a)
    OBVIOUS
  <2>7. b \in Ended \cup (a + 1 .. L + 1)
    BY <2>5, <2>6, FollowsInPlace
  <2>8. /\ b < 0 => ReadingFrom(s)[a].commands = <<>>
        /\ ~(b < 0) => ReadingFrom(s)[a].commands =
                          Given(Frame(s, a)) \o ReadingFrom(s)[b].commands
    <3>1. PICK x : x = ReadingFrom(s)[b]
      OBVIOUS
    <3>2. ReadingFrom(s)[a] = ReadAt(s, a, x)
      BY <2>5, <2>6, <3>1, ReadingIs, Zenon
    <3>3. /\ b < 0 => ReadAt(s, a, x).commands = <<>>
          /\ ~(b < 0) => ReadAt(s, a, x).commands = Given(Frame(s, a)) \o x.commands
      BY <2>6, ReadAtIs, ZenonT(30)
    <3>4. QED
      BY <3>1, <3>2, <3>3, Zenon
  <2>9. CASE b \in Ended
    <3>1. b < 0
      BY <2>9 DEF Ended, More, Bad
    <3>2. ReadingFrom(s)[a].commands = <<>>
      BY <2>8, <3>1, Zenon
    <3>3. QED
      BY <2>5, <3>2
  <2>10. CASE b \in a + 1 .. L + 1
    <3>1. ~(b < 0) /\ L + 1 - b \in 0 .. L /\ ~(m <= L + 1 - b) /\ L + 1 - (L + 1 - b) = b
      BY <1>1, <2>3, <2>4, <2>5, <2>10
    <3>2. Fits(b)
      <4> HIDE DEF Fits
      <4>1. L + 1 - b \notin T
        BY <2>3, <3>1, Zenon
      <4>2. QED
        BY <3>1, <4>1
    <3>3. ReadingFrom(s)[a].commands = Given(Frame(s, a)) \o ReadingFrom(s)[b].commands
      BY <2>8, <3>1, Zenon
    <3>4. Given(Frame(s, a)) \in Seq(Classified(s))
      <4>1. classify(Frame(s, a)) \in Classified(s)
        BY <2>5, Zenon DEF Classified
      <4>2. Given(Frame(s, a)) = <<>> \/ Given(Frame(s, a)) = <<classify(Frame(s, a))>>
        BY Zenon DEF Given
      <4>3. QED
        BY <4>1, <4>2, OneIs, Zenon
    <3> DEFINE x == Given(Frame(s, a))
               y == ReadingFrom(s)[b].commands
    <3> HIDE DEF x, y
    <3>5. x \in Seq(Classified(s)) /\ y \in Seq(Classified(s)) => x \o y \in Seq(Classified(s))
      OBVIOUS
    <3>6. QED
      BY <2>5, <3>2, <3>3, <3>4, <3>5 DEF x, y
  <2>11. QED
    BY <2>7, <2>9, <2>10
<1>3. L + 1 - i \in 0 .. L /\ L + 1 - (L + 1 - i) = i
  BY <1>1
<1> HIDE DEF L
<1>4. Fits(L + 1 - (L + 1 - i))
  <2> HIDE DEF Fits
  <2>1. QED
    BY <1>2, <1>3
<1>5. QED
  BY <1>3, <1>4
-----------------------------------------------------------------------------
(***************************************************************************)
(* The parser and the reading of the whole stream.  What is claimed of the *)
(* bytes received is claimed of everything they may be the beginning of.   *)
(***************************************************************************)
Later == {SubSeq(stream, 1, r) : r \in received .. Len(stream)}

\* The place in the stream of the next byte that consume will look at.
Place == received + 1 - Len(buf)

BufferFits ==
  /\ Len(buf) <= received /\ (~calling => buf = <<>>)
  /\ \A k \in 1 .. Len(buf) : buf[k] = stream[Place - 1 + k]

\* The header's part of a line that began at b.
HeaderFrom(b) ==
  /\ Len(header) = Place - b
  /\ \A k \in 1 .. Len(header) : header[k] = stream[b - 1 + k] /\ header[k] # LF

\* In s, the arguments held are the first bulks of the frame at i, and the one
\* at j comes next.
InFrame(s, i, j) ==
  LET at == Starts(s, i)
  IN  /\ Len(at) = argc + 1
      /\ at[1] > 0
      /\ \A k \in 1 .. arg_index : at[k] > 0 /\ Bulk(s, at[k]) = args[k]
      /\ at[arg_index + 1] = j

\* In s, the bulk at j has bulk_len bytes from h on; and those read.
InBulk(s, j, h) ==
  AfterLine(s, j, Dollar, max_bulk_len) = h /\ Number(s, j) = bulk_len
HasRead(h) ==
  LET held == args[arg_index + 1]
  IN  /\ Len(held) = bulk_len
      /\ Place = h + bulk_read + (IF state = "TrailerLf" THEN 1 ELSE 0)
      /\ \A k \in 1 .. bulk_read : held[k] = stream[h - 1 + k]
      /\ state # "Payload" => bulk_read = bulk_len
      /\ state = "TrailerLf" => stream[h + bulk_len] = CR

AtBulk(j) ==
  CASE state = "BulkLen" -> HeaderFrom(j)
    [] state = "Ready"   -> /\ arg_index = argc /\ Len(args) = argc
                            /\ j = Place /\ calling /\ header = <<>>
    [] OTHER -> /\ \E h \in 1 .. Place : HasRead(h) /\ \A s \in Later : InBulk(s, j, h)
                /\ header = <<>>

AtFrame(i) ==
  IF state = "ArrayLen" THEN HeaderFrom(i)
  ELSE \E j \in 1 .. Place : AtBulk(j) /\ \A s \in Later : InFrame(s, i, j)

\* The frames before i have given the commands executed.
ReadUpTo(s, i) ==
  /\ Reading(s).commands = executed \o ReadingFrom(s)[i].commands
  /\ Reading(s).end = ReadingFrom(s)[i].end

Refused(s) ==
  IF error = "bad_alloc" THEN IsPrefix(executed, Reading(s).commands)
  ELSE executed = Reading(s).commands /\ Reading(s).end = Bad

ReadsTheSame ==
  /\ BufferFits
  /\ IF state = "Failed" THEN \A s \in Later : Refused(s)
     ELSE \E i \in 1 .. Place : AtFrame(i) /\ \A s \in Later : ReadUpTo(s, i)

LEMMA LaterIs ==
  ASSUME ParserInv, NEW s \in Later
  PROVE  /\ s \in Seq(Byte) /\ Len(s) \in Nat /\ received <= Len(s)
         /\ \A k \in 1 .. received : s[k] = stream[k]
<1>1. received \in Nat /\ Len(stream) \in Nat /\ stream \in Seq(Byte)
  BY ParserTypes
<1>2. PICK r \in received .. Len(stream) : s = SubSeq(stream, 1, r)
  BY Zenon DEF Later
<1>3. r \in Nat /\ r <= Len(stream) /\ received <= r
  BY <1>1, <1>2
<1>4. s \in Seq(Byte) /\ Len(s) = r /\ \A k \in 1 .. r : s[k] = stream[k]
  BY <1>1, <1>2, <1>3
<1>5. QED
  BY <1>1, <1>3, <1>4

\* What has been received is one of them.
Now == SubSeq(stream, 1, received)

LEMMA NowIs ==
  ASSUME ParserInv
  PROVE  Now \in Later /\ Len(Now) = received
<1>1. received \in Nat /\ Len(stream) \in Nat /\ stream \in Seq(Byte) /\ received <= Len(stream)
  BY ParserTypes
<1>2. received \in received .. Len(stream)
  BY <1>1
<1>3. QED
  BY <1>1, <1>2 DEF Now, Later

LEMMA PlaceIs ==
  ASSUME ParserInv, BufferFits
  PROVE  /\ Place \in 1 .. received + 1 /\ Place \in Nat \ {0} /\ received \in Nat
         /\ Len(buf) \in Nat /\ Len(buf) = received + 1 - Place
         /\ \A s \in Later : Place \in 1 .. Len(s) + 1
         /\ buf = <<>> <=> Place = received + 1
<1>1. received \in Nat /\ Len(buf) \in Nat /\ (buf = <<>> <=> Len(buf) = 0)
  BY ParserTypes, SeqIsFunction
<1>2. Len(buf) <= received
  BY Zenon DEF BufferFits
<1>3. Place \in 1 .. received + 1 /\ Len(buf) = received + 1 - Place
  BY <1>1, <1>2 DEF Place
<1>4. ASSUME NEW s \in Later
      PROVE  Place \in 1 .. Len(s) + 1
  BY <1>1, <1>3, <1>4, LaterIs
<1>5. QED
  BY <1>1, <1>3, <1>4

\* The line that began at b ends at e, or has not ended in what was received.
LineFits(b, e) ==
  /\ e \in Place .. received + 1
  /\ read_line.bad <=> e - b > MaxHeader
  /\ read_line.ended <=> e <= received
  /\ e <= received => stream[e] = LF
  /\ read_line.text \in Seq(Byte) /\ Len(read_line.text) = e - b
  /\ \A k \in 1 .. e - b : read_line.text[k] = stream[b - 1 + k] /\ read_line.text[k] # LF
  /\ e <= received =>
       /\ Len(read_line.rest) = received - e
       /\ \A k \in 1 .. received - e : read_line.rest[k] = stream[e + k]

LEMMA JoinedIs ==
  ASSUME NEW S, NEW s \in Seq(S), NEW t \in Seq(S)
  PROVE  /\ s \o t \in Seq(S) /\ Len(s \o t) = Len(s) + Len(t)
         /\ \A k \in 1 .. Len(s) : (s \o t)[k] = s[k]
         /\ \A k \in Len(s) + 1 .. Len(s) + Len(t) : (s \o t)[k] = t[k - Len(s)]
OBVIOUS

LEMMA LineRead ==
  ASSUME ParserInv, BufferFits, NEW b \in 1 .. Place, HeaderFrom(b)
  PROVE  \E e : LineFits(b, e)
<1> DEFINE N == Len(buf)
           T == {i \in DOMAIN buf : buf[i] = LF} \cup {N + 1}
           m == Min(T)
           n == Min(T) - 1
           all == header \o SubSeq(buf, 1, n)
           rest == SubSeq(buf, n + 2, N)
           e == Place + n
<1>1. read_line = [bad |-> Len(all) > MaxHeader, ended |-> n < N,
                   text |-> all, rest |-> rest]
  BY Zenon DEF read_line, LineAfter
<1>2. /\ read_line.bad = (Len(all) > MaxHeader) /\ read_line.ended = (n < N)
      /\ read_line.text = all /\ read_line.rest = rest
  <2> HIDE DEF all, rest, n, N
  <2>1. QED
    BY <1>1
<1>3. /\ buf \in Seq(Byte) /\ header \in Seq(Byte) /\ N \in Nat /\ DOMAIN buf = 1 .. N
      /\ Place \in Nat \ {0} /\ received \in Nat /\ N = received + 1 - Place
  BY ParserTypes, PlaceIs, SeqIsFunction
<1>4. /\ T \in SUBSET Nat /\ T # {}
      /\ \A i \in T : i \in 1 .. N + 1 /\ (i <= N => buf[i] = LF)
      /\ \A i \in 1 .. N : buf[i] = LF => i \in T
  <2> HIDE DEF N
  <2>1. QED
    BY <1>3
<1>5. m \in T /\ \A i \in T : m <= i
  <2> HIDE DEF T
  <2>1. QED
    BY <1>4, MinIs
<1>6. /\ m \in 1 .. N + 1 /\ (m <= N => buf[m] = LF)
      /\ \A i \in 1 .. N : buf[i] = LF => m <= i
  <2> HIDE DEF T
  <2>1. QED
    BY <1>4, <1>5, Zenon
<1>7. n = m - 1
  OBVIOUS
<1> HIDE DEF m, n, N, T
<1>8. n \in 0 .. N /\ (n < N => buf[n + 1] = LF) /\ \A i \in 1 .. n : buf[i] # LF
  BY <1>3, <1>6, <1>7
<1>9. /\ SubSeq(buf, 1, n) \in Seq(Byte) /\ Len(SubSeq(buf, 1, n)) = n
      /\ \A i \in 1 .. n : SubSeq(buf, 1, n)[i] = buf[i]
  <2>1. n \in Nat /\ n <= N
    BY <1>3, <1>8
  <2>2. QED
    BY <1>3, <2>1 DEF N
<1>10. \A k \in 1 .. N : buf[k] = stream[Place - 1 + k]
  BY Zenon DEF BufferFits, N
<1>11. /\ Len(header) = Place - b /\ b \in Nat /\ b <= Place
       /\ \A k \in 1 .. Place - b : header[k] = stream[b - 1 + k] /\ header[k] # LF
  <2>1. Len(header) = Place - b
        /\ \A k \in 1 .. Len(header) : header[k] = stream[b - 1 + k] /\ header[k] # LF
    BY Zenon DEF HeaderFrom
  <2>2. b \in Nat /\ b <= Place
    BY <1>3
  <2>3. QED
    BY <2>1, <2>2, Zenon
<1> DEFINE part == SubSeq(buf, 1, n)
<1> HIDE DEF part
<1>12. /\ all \in Seq(Byte) /\ Len(all) = e - b
       /\ \A k \in 1 .. Place - b : all[k] = header[k]
       /\ \A k \in Place - b + 1 .. e - b : all[k] = part[k - (Place - b)]
  <2>1. part \in Seq(Byte) /\ Len(part) = n /\ all = header \o part
    BY <1>9 DEF part
  <2>2. PICK c : c = Place - b
    OBVIOUS
  <2>3. c \in Nat /\ n \in Nat /\ c + n = e - b
    BY <1>3, <1>8, <1>11, <2>2
  <2>4. /\ header \o part \in Seq(Byte) /\ Len(header \o part) = c + n
        /\ \A k \in 1 .. c : (header \o part)[k] = header[k]
        /\ \A k \in c + 1 .. c + n : (header \o part)[k] = part[k - c]
    <3>1. /\ header \in Seq(Byte) /\ Len(header) = c /\ c \in Nat
          /\ part \in Seq(Byte) /\ Len(part) = n /\ n \in Nat
      BY <1>3, <1>11, <2>1, <2>2, <2>3, Zenon
    <3>2. /\ header \o part \in Seq(Byte) /\ Len(header \o part) = Len(header) + Len(part)
          /\ \A k \in 1 .. Len(header) : (header \o part)[k] = header[k]
          /\ \A k \in Len(header) + 1 .. Len(header) + Len(part) :
               (header \o part)[k] = part[k - Len(header)]
      BY <3>1, JoinedIs, Zenon
    <3>3. QED
      BY <3>1, <3>2, Zenon
  <2> HIDE DEF all, e
  <2>5. QED
    BY <2>1, <2>2, <2>3, <2>4, Zenon
<1>13. ASSUME NEW k \in 1 .. e - b
       PROVE  all[k] = stream[b - 1 + k] /\ all[k] # LF
  <2>1. CASE k \in 1 .. Place - b
    BY <1>11, <1>12, <2>1, Zenon
  <2>2. CASE k \in Place - b + 1 .. e - b
    <3>1. PICK i : i = k - (Place - b)
      OBVIOUS
    <3>2. i \in 1 .. n /\ i \in 1 .. N /\ Place - 1 + i = b - 1 + k
      BY <1>3, <1>8, <1>11, <2>2, <3>1
    <3>3. all[k] = buf[i]
      BY <1>9, <1>12, <2>2, <3>1, <3>2, Zenon DEF part
    <3>4. QED
      BY <1>8, <1>10, <3>2, <3>3, Zenon
  <2>3. k \in 1 .. Place - b \/ k \in Place - b + 1 .. e - b
    BY <1>3, <1>8, <1>11
  <2>4. QED
    BY <2>1, <2>2, <2>3
<1>14. e \in Place .. received + 1 /\ (n < N <=> e <= received)
  BY <1>3, <1>8
<1>15. ASSUME e <= received
       PROVE  /\ stream[e] = LF
              /\ Len(rest) = received - e
              /\ \A k \in 1 .. received - e : rest[k] = stream[e + k]
  <2>1. n < N /\ n + 1 \in 1 .. N /\ Place - 1 + (n + 1) = e
    BY <1>3, <1>8, <1>14, <1>15
  <2>2. stream[e] = LF
    BY <1>8, <1>10, <2>1, Zenon
  <2>3. n + 2 \in Nat \ {0} /\ N - (n + 2) + 1 = received - e
    BY <1>3, <1>8, <2>1
  <2>4. /\ Len(rest) = received - e
        /\ \A k \in 1 .. received - e : rest[k] = buf[n + 1 + k]
    <3>1. /\ Len(rest) = IF n + 2 <= N THEN N - (n + 2) + 1 ELSE 0
          /\ \A k \in 1 .. N - (n + 2) + 1 : rest[k] = buf[n + 2 + k - 1]
      BY <1>3, <2>3, PartIs, SMTT(30) DEF N
    <3> HIDE DEF rest
    <3>2. \A k \in 1 .. N - (n + 2) + 1 : n + 2 + k - 1 = n + 1 + k
      BY <1>3, <1>8
    <3>3. (IF n + 2 <= N THEN N - (n + 2) + 1 ELSE 0) = received - e
      BY <1>3, <1>8, <2>1
    <3>4. QED
      BY <2>3, <3>1, <3>2, <3>3, Zenon
  <2>5. ASSUME NEW k \in 1 .. received - e
        PROVE  rest[k] = stream[e + k]
    <3>1. n + 1 + k \in 1 .. N /\ Place - 1 + (n + 1 + k) = e + k
      BY <1>3, <2>1, <2>3, SMTT(30)
    <3>2. QED
      BY <1>10, <2>4, <3>1, Zenon
  <2>6. QED
    BY <2>2, <2>4, <2>5, Zenon
<1>16. (read_line.bad <=> e - b > MaxHeader) /\ (read_line.ended <=> e <= received)
  BY <1>2, <1>12, <1>14, Zenon
<1> HIDE DEF e, all, rest
<1>17. LineFits(b, e)
  BY <1>2, <1>12, <1>13, <1>14, <1>15, <1>16, Zenon DEF LineFits
<1>18. QED
  BY <1>17, Zenon

\* What the reading makes of a line that has ended, and of one that is too long.
LEMMA LineMet ==
  ASSUME ParserInv, BufferFits, NEW b \in 1 .. Place, NEW e, LineFits(b, e), NEW s \in Later
  PROVE  /\ b \in 1 .. Len(s) + 1 /\ b \in Nat \ {0} /\ e \in Nat /\ b <= e
         /\ IF e <= received
            THEN LineEnd(s, b) = e /\ LineText(s, b) = Stripped(read_line.text)
            ELSE e = received + 1 /\ LineEnd(s, b) >= e
<1> DEFINE text == read_line.text
<1>1. /\ s \in Seq(Byte) /\ Len(s) \in Nat /\ received <= Len(s)
      /\ \A k \in 1 .. received : s[k] = stream[k]
  BY LaterIs, Zenon
<1>2. /\ Place \in 1 .. received + 1 /\ received \in Nat
  BY PlaceIs, Zenon
<1>3. /\ e \in Place .. received + 1 /\ (e <= received => stream[e] = LF)
      /\ text \in Seq(Byte) /\ Len(text) = e - b
      /\ \A k \in 1 .. e - b : text[k] = stream[b - 1 + k] /\ text[k] # LF
  BY Zenon DEF LineFits
<1> HIDE DEF text
<1>4. b \in 1 .. Len(s) + 1 /\ b \in Nat \ {0} /\ e \in Nat /\ b <= e /\ e <= received + 1
  BY <1>1, <1>2, <1>3
<1>5. ASSUME NEW j \in b .. e - 1
      PROVE  s[j] # LF
  <2>1. PICK k : k = j - b + 1
    OBVIOUS
  <2>2. k \in 1 .. e - b /\ b - 1 + k = j /\ j \in 1 .. received
    BY <1>2, <1>4, <2>1
  <2>3. text[k] = stream[j] /\ text[k] # LF
    BY <1>3, <2>2, Zenon
  <2>4. QED
    BY <1>1, <2>2, <2>3, Zenon
<1>6. CASE e <= received
  <2>1. e \in b .. Len(s) + 1 /\ e \in 1 .. received
    BY <1>1, <1>2, <1>4, <1>6
  <2>2. s[e] = LF
    BY <1>1, <1>3, <1>6, <2>1, Zenon
  <2>3. LineEnd(s, b) = e
    BY <1>1, <1>4, <1>5, <2>1, <2>2, LineEndAt, Zenon
  <2>4. SubSeq(s, b, e - 1) = text
    <3>1. e - 1 \in Nat /\ e - 1 <= Len(s) /\ (IF b <= e - 1 THEN e - 1 - b + 1 ELSE 0) = e - b
          /\ e - 1 - b + 1 = e - b
      BY <1>1, <1>2, <1>4, <1>6
    <3>2. /\ SubSeq(s, b, e - 1) \in Seq(Byte) /\ Len(SubSeq(s, b, e - 1)) = e - b
          /\ \A i \in 1 .. e - b : SubSeq(s, b, e - 1)[i] = s[b + i - 1]
      <4>1. s \in Seq(Byte) /\ b \in Nat \ {0} /\ e - 1 \in Nat /\ e - 1 <= Len(s)
        BY <1>1, <1>4, <3>1, Zenon
      <4>2. /\ SubSeq(s, b, e - 1) \in Seq(Byte)
            /\ Len(SubSeq(s, b, e - 1)) = IF b <= e - 1 THEN e - 1 - b + 1 ELSE 0
            /\ \A i \in 1 .. e - 1 - b + 1 : SubSeq(s, b, e - 1)[i] = s[b + i - 1]
        BY <4>1, PartIs
      <4>3. QED
        BY <3>1, <4>2, Zenon
    <3>3. ASSUME NEW k \in 1 .. e - b
          PROVE  SubSeq(s, b, e - 1)[k] = text[k]
      <4>1. b + k - 1 = b - 1 + k /\ b - 1 + k \in 1 .. received
        BY <1>2, <1>4, <1>6
      <4>2. QED
        BY <1>1, <1>3, <3>2, <4>1, ZenonT(30)
    <3>4. QED
      BY <1>3, <3>2, <3>3, SeqEqual
  <2>5. LineText(s, b) = Stripped(text)
    BY <2>3, <2>4, Zenon DEF LineText
  <2>6. QED
    BY <1>4, <1>6, <2>3, <2>5, Zenon DEF text
<1>7. CASE ~(e <= received)
  <2>1. e = received + 1
    BY <1>2, <1>4, <1>7
  <2>2. PICK d : d = LineEnd(s, b)
    OBVIOUS
  <2>3. d \in b .. Len(s) + 1 /\ (d <= Len(s) => s[d] = LF)
    BY <1>1, <1>4, <2>2, LineEndIs, Zenon
  <2>4. d >= e
    BY <1>1, <1>2, <1>4, <1>5, <2>1, <2>3
  <2>5. QED
    BY <1>4, <1>7, <2>1, <2>2, <2>4, Zenon
<1>8. QED
  BY <1>6, <1>7

LEMMA HeaderAccepted ==
  ASSUME ParserInv, BufferFits, NEW b \in 1 .. Place, NEW e, LineFits(b, e),
         NEW mark, NEW max, Accepted(mark, max)
  PROVE  /\ e \in Place .. received /\ Length \in Nat /\ Length <= max
         /\ \A s \in Later : AfterLine(s, b, mark, max) = e + 1 /\ Number(s, b) = Length
<1>1. /\ ~read_line.bad /\ read_line.ended
      /\ IsHeader(Stripped(read_line.text), mark, max)
  BY Zenon DEF Accepted
<1>2. Length \in Nat /\ Length <= max
  BY AcceptedIs, ParserTypes
<1>3. e \in Place .. received + 1 /\ e <= received /\ ~(e - b > MaxHeader)
  BY <1>1, Zenon DEF LineFits
<1>4. e \in Place .. received
  BY <1>3, PlaceIs
<1>5. ASSUME NEW s \in Later
      PROVE  AfterLine(s, b, mark, max) = e + 1 /\ Number(s, b) = Length
  <2>1. LineEnd(s, b) = e /\ LineText(s, b) = Stripped(read_line.text) /\ e \in Nat
    BY <1>3, LineMet, Zenon
  <2>2. ~(e > Len(s))
    BY <1>3, <2>1, LaterIs, PlaceIs
  <2>3. AfterLine(s, b, mark, max) = e + 1
    BY <1>1, <1>3, <2>1, <2>2, Zenon DEF AfterLine
  <2>4. Number(s, b) = Length
    BY <2>1, Zenon DEF Number, Length
  <2>5. QED
    BY <2>3, <2>4
<1>6. QED
  BY <1>2, <1>4, <1>5, Zenon

LEMMA HeaderRefused ==
  ASSUME ParserInv, BufferFits, NEW b \in 1 .. Place, NEW e, LineFits(b, e),
         NEW mark, NEW max, ~Accepted(mark, max), read_line.bad \/ read_line.ended,
         NEW s \in Later
  PROVE  AfterLine(s, b, mark, max) = Bad
<1>1. /\ b \in Nat /\ e \in Nat
      /\ IF e <= received
         THEN LineEnd(s, b) = e /\ LineText(s, b) = Stripped(read_line.text)
         ELSE LineEnd(s, b) >= e
  BY LineMet, Zenon
<1>2. LineEnd(s, b) \in Nat /\ MaxHeader \in Nat /\ Len(s) \in Nat /\ received <= Len(s)
  <2>1. s \in Seq(Byte) /\ Len(s) \in Nat /\ b \in 1 .. Len(s) + 1 /\ received <= Len(s)
    BY LaterIs, LineMet, Zenon
  <2>2. LineEnd(s, b) \in b .. Len(s) + 1
    BY <2>1, LineEndIs, Zenon
  <2>3. QED
    BY <1>1, <2>1, <2>2, ParserTypes, SMTT(30)
<1>3. CASE read_line.bad
  <2>1. e - b > MaxHeader
    BY <1>3, Zenon DEF LineFits
  <2>2. LineEnd(s, b) >= e
    <3>1. e >= e
      BY <1>1
    <3>2. QED
      BY <1>1, <3>1, Zenon
  <2>3. LineEnd(s, b) - b > MaxHeader
    BY <1>1, <1>2, <2>1, <2>2
  <2>4. QED
    BY <2>3, Zenon DEF AfterLine
<1>4. CASE ~read_line.bad /\ read_line.ended
  <2>1. ~IsHeader(Stripped(read_line.text), mark, max)
    BY <1>4, Zenon DEF Accepted
  <2>2. e <= received
    BY <1>4, Zenon DEF LineFits
  <2>3. LineEnd(s, b) = e /\ LineText(s, b) = Stripped(read_line.text)
    BY <1>1, <2>2, Zenon
  <2>4. ~(e > Len(s))
    BY <1>1, <1>2, <2>2, PlaceIs
  <2>5. QED
    BY <2>1, <2>3, <2>4, Zenon DEF AfterLine
<1>5. QED
  BY <1>3, <1>4

\* A place in what was received is one in all that may come of it.
LEMMA InReceived ==
  ASSUME ParserInv, BufferFits, NEW i \in 1 .. Place, NEW s \in Later
  PROVE  s \in Seq(Byte) /\ i \in 1 .. Len(s) + 1
<1>1. s \in Seq(Byte) /\ Len(s) \in Nat /\ received <= Len(s)
  BY LaterIs, Zenon
<1>2. Place \in 1 .. received + 1 /\ received \in Nat
  BY PlaceIs, Zenon
<1>3. QED
  BY <1>1, <1>2

LEMMA FrameIs ==
  ASSUME ParserInv, BufferFits, NEW i \in 1 .. Place, NEW j, NEW s \in Later, InFrame(s, i, j)
  PROVE  StartsAre(s, i, Starts(s, i), argc)
<1>1. PICK n : StartsAre(s, i, Starts(s, i), n)
  BY InReceived, StartsIs, Zenon
<1>2. Len(Starts(s, i)) = n + 1 /\ n \in 0 .. kMaxArgs
  BY <1>1, Zenon DEF StartsAre
<1>3. Len(Starts(s, i)) = argc + 1
  BY Zenon DEF InFrame
<1>4. n = argc
  BY <1>2, <1>3, ParserTypes, SMTT(30)
<1>5. QED
  BY <1>1, <1>4, Zenon

\* A frame that is the last.
LEMMA LastFrame ==
  ASSUME ParserInv, BufferFits, NEW i \in 1 .. Place, NEW s \in Later, ReadUpTo(s, i),
         Follows(s, i) \in Ended
  PROVE  Reading(s).commands = executed /\ Reading(s).end = Follows(s, i)
<1>1. PICK x : x = ReadingFrom(s)[Follows(s, i)]
  OBVIOUS
<1>2. ReadingFrom(s)[i] = ReadAt(s, i, x)
  BY <1>1, InReceived, ReadingIs, Zenon
<1>3. Follows(s, i) < 0
  BY DEF Ended, More, Bad
<1>4. ReadAt(s, i, x).commands = <<>> /\ ReadAt(s, i, x).end = Follows(s, i)
  BY <1>3, ReadAtIs, Zenon
<1>5. Reading(s).commands = executed \o <<>> /\ Reading(s).end = Follows(s, i)
  BY <1>2, <1>4, Zenon DEF ReadUpTo
<1>6. executed \o <<>> = executed
  <2>1. executed \in Seq([verb : Seq(Byte), args : Seq(Seq(Byte)), known : BOOLEAN])
    BY Zenon DEF ParserInv, TypeOK
  <2>2. \A S : \A q \in Seq(S) : q \o <<>> = q
    OBVIOUS
  <2>3. QED
    BY <2>1, <2>2, Zenon
<1>7. QED
  BY <1>5, <1>6, Zenon

LEMMA EndsInLine ==
  ASSUME ParserInv, BufferFits, NEW i \in 1 .. Place, NEW s \in Later, ReadUpTo(s, i),
         AfterLine(s, i, Star, kMaxArgs) \in Ended
  PROVE  /\ Reading(s).commands = executed
         /\ Reading(s).end = AfterLine(s, i, Star, kMaxArgs)
<1>1. PICK n, at : at = Starts(s, i) /\ StartsAre(s, i, at, n)
  BY InReceived, StartsIs, Zenon
<1>2. /\ at[1] = AfterLine(s, i, Star, kMaxArgs)
      /\ n = IF at[1] < 0 THEN 0 ELSE Number(s, i)
  BY <1>1, Zenon DEF StartsAre
<1>3. n = 0 /\ n + 1 = 1
  BY <1>2 DEF Ended, More, Bad
<1>4. Follows(s, i) = at[1]
  <2>1. s \in Seq(Byte) /\ i \in 1 .. Len(s) + 1
    BY InReceived, Zenon
  <2>2. Follows(s, i) = at[n + 1]
    BY <1>1, <2>1, FollowsIs
  <2>3. QED
    BY <1>3, <2>2, Zenon
<1>5. QED
  BY <1>2, <1>4, LastFrame, Zenon

LEMMA EndsInBulk ==
  ASSUME ParserInv, BufferFits, NEW i \in 1 .. Place, NEW j \in 1 .. Place, NEW s \in Later,
         ReadUpTo(s, i), InFrame(s, i, j), arg_index < argc, AfterBulk(s, j) \in Ended
  PROVE  Reading(s).commands = executed /\ Reading(s).end = AfterBulk(s, j)
<1>1. PICK at : at = Starts(s, i)
  OBVIOUS
<1>2. StartsAre(s, i, at, argc)
  BY <1>1, FrameIs, Zenon
<1>3. /\ arg_index + 1 \in 1 .. argc /\ arg_index + 1 + 1 \in 1 .. argc + 1
      /\ ~(j < 0) /\ s \in Seq(Byte) /\ i \in 1 .. Len(s) + 1
  <2>1. arg_index \in Nat /\ argc \in Nat
    BY ParserTypes, Zenon
  <2>2. Place \in Nat
    BY PlaceIs, Zenon
  <2>3. ~(j < 0)
    BY <2>2
  <2>4. QED
    BY <2>1, <2>3, InReceived
<1>4. at[arg_index + 1] = j
  BY <1>1, Zenon DEF InFrame
<1>5. PICK k : k = arg_index + 1 + 1
  OBVIOUS
<1>6. at[k] = AfterBulk(s, j) /\ k \in 1 .. argc + 1
  BY <1>2, <1>3, <1>4, <1>5, Zenon DEF StartsAre
<1>7. at[argc + 1] = AfterBulk(s, j)
  <2>1. at[k] \in Ended
    BY <1>6, Zenon
  <2>2. at[argc + 1] = at[k]
    BY <1>2, <1>3, <1>6, <2>1, EndStays
  <2>3. QED
    BY <1>6, <2>2, Zenon
<1>8. Follows(s, i) = AfterBulk(s, j)
  <2>1. Follows(s, i) = at[argc + 1]
    BY <1>1, <1>2, <1>3, FollowsIs
  <2>2. QED
    BY <1>7, <2>1, Zenon
<1>9. QED
  BY <1>8, LastFrame, Zenon

\* The bulk whose header has been read.
LEMMA BulkAt ==
  ASSUME ParserInv, BufferFits, NEW j \in 1 .. Place, NEW h \in 1 .. Place, NEW s \in Later,
         InBulk(s, j, h)
  PROVE  /\ AfterBulk(s, j) = AfterEol(s, h + bulk_len)
         /\ Bulk(s, j) = SubSeq(s, h, h + bulk_len - 1)
<1>1. AfterLine(s, j, Dollar, max_bulk_len) = h /\ Number(s, j) = bulk_len
  BY Zenon DEF InBulk
<1>2. Place \in Nat /\ max_bulk_len \in Nat /\ bulk_len \in Nat
  BY PlaceIs, ParserTypes
<1>3. ~(h < 0) /\ h \notin Ended
  BY <1>2 DEF Ended, More, Bad
<1>4. h = LineEnd(s, j) + 1 /\ LineEnd(s, j) \in j .. Len(s) + 1
  BY <1>1, <1>2, <1>3, AfterLineIs, LineEndIs, InReceived, Zenon
<1>5. LineEnd(s, j) + 1 = h /\ LineEnd(s, j) + Number(s, j) = h + bulk_len - 1
  <2>1. Len(s) \in Nat
    BY LaterIs, Zenon
  <2>2. PICK d : d = LineEnd(s, j)
    OBVIOUS
  <2>3. d \in j .. Len(s) + 1 /\ h = d + 1
    BY <1>4, <2>2, Zenon
  <2>4. d + 1 = h /\ d + bulk_len = h + bulk_len - 1
    BY <1>2, <2>1, <2>3
  <2>5. QED
    BY <1>1, <2>2, <2>4, Zenon
<1>6. AfterBulk(s, j) = AfterEol(s, h + bulk_len)
  BY <1>1, <1>3, Zenon DEF AfterBulk
<1>7. Bulk(s, j) = SubSeq(s, h, h + bulk_len - 1)
  BY <1>5, Zenon DEF Bulk
<1>8. QED
  BY <1>6, <1>7

LEMMA BulkHeld ==
  ASSUME ParserInv, BufferFits, state \in {"Trailer", "TrailerLf"},
         NEW j \in 1 .. Place, NEW h \in 1 .. Place, HasRead(h), NEW s \in Later,
         InBulk(s, j, h)
  PROVE  Bulk(s, j) = args[arg_index + 1]
<1> DEFINE held == args[arg_index + 1]
           n == bulk_len
<1>1. /\ Len(held) = n /\ bulk_read = n
      /\ \A k \in 1 .. bulk_read : held[k] = stream[h - 1 + k]
      /\ Place = h + bulk_read + (IF state = "TrailerLf" THEN 1 ELSE 0)
  BY DEF HasRead
<1>2. /\ n \in Nat /\ Place \in Nat /\ Place <= received + 1 /\ received \in Nat
  BY PlaceIs, ParserTypes
<1>3. h \in Nat \ {0} /\ h + n <= Place
  BY <1>1, <1>2
<1>4. /\ s \in Seq(Byte) /\ Len(s) \in Nat /\ received <= Len(s)
      /\ \A k \in 1 .. received : s[k] = stream[k]
  BY LaterIs, Zenon
<1>5. held \in Seq(Byte)
  <2>1. args \in Seq(Seq(Byte)) /\ arg_index + 1 \in 1 .. Len(args)
    BY ParserTypes, SMTT(30) DEF ParserInv, HoldsAsFar
  <2>2. QED
    BY <2>1
<1> HIDE DEF held, n
<1>6. /\ SubSeq(s, h, h + n - 1) \in Seq(Byte) /\ Len(SubSeq(s, h, h + n - 1)) = n
      /\ \A k \in 1 .. n : SubSeq(s, h, h + n - 1)[k] = s[h + k - 1]
  <2>1. PICK m : m = h + n - 1
    OBVIOUS
  <2>2. /\ m \in Nat /\ m <= Len(s) /\ m - h + 1 = n
        /\ (IF h <= m THEN m - h + 1 ELSE 0) = n
    BY <1>2, <1>3, <1>4, <2>1
  <2>3. /\ SubSeq(s, h, m) \in Seq(Byte)
        /\ Len(SubSeq(s, h, m)) = IF h <= m THEN m - h + 1 ELSE 0
        /\ \A k \in 1 .. m - h + 1 : SubSeq(s, h, m)[k] = s[h + k - 1]
    <3>1. s \in Seq(Byte) /\ h \in Nat \ {0} /\ m \in Nat /\ m <= Len(s)
      BY <1>3, <1>4, <2>2, Zenon
    <3>2. QED
      BY <3>1, PartIs
  <2>4. QED
    BY <2>1, <2>2, <2>3, Zenon
<1>7. ASSUME NEW k \in 1 .. n
      PROVE  SubSeq(s, h, h + n - 1)[k] = held[k]
  <2>1. h + k - 1 = h - 1 + k /\ h - 1 + k \in 1 .. received
    BY <1>2, <1>3
  <2>2. QED
    BY <1>1, <1>4, <1>6, <2>1, Zenon
<1>8. SubSeq(s, h, h + n - 1) = held
  BY <1>1, <1>5, <1>6, <1>7, SeqEqual
<1>9. QED
  BY <1>8, BulkAt, Zenon DEF held, n

\* The cases of the invariant.
LEMMA ReadsNow ==
  ASSUME ReadsTheSame, state # "Failed"
  PROVE  /\ BufferFits
         /\ \E i \in 1 .. Place : AtFrame(i) /\ \A s \in Later : ReadUpTo(s, i)
BY Zenon DEF ReadsTheSame

LEMMA FrameNow ==
  ASSUME NEW i, AtFrame(i)
  PROVE  /\ state = "ArrayLen" => HeaderFrom(i)
         /\ state # "ArrayLen" =>
              \E j \in 1 .. Place : AtBulk(j) /\ \A s \in Later : InFrame(s, i, j)
BY Zenon DEF AtFrame

LEMMA BulkNow ==
  ASSUME NEW j, AtBulk(j)
  PROVE  /\ state = "BulkLen" => HeaderFrom(j)
         /\ state = "Ready" =>
              arg_index = argc /\ Len(args) = argc /\ j = Place /\ calling /\ header = <<>>
         /\ state \notin {"BulkLen", "Ready"} =>
              /\ \E h \in 1 .. Place : HasRead(h) /\ \A s \in Later : InBulk(s, j, h)
              /\ header = <<>>
<1>1. "BulkLen" # "Ready"
  OBVIOUS
<1>2. QED
  BY <1>1 DEF AtBulk

LEMMA LaterStays ==
  ASSUME UNCHANGED <<stream, received>>
  PROVE  Later' = Later
BY DEF Later

\* A step that uses up the bytes before e + 1.
LEMMA BufferMoves ==
  ASSUME ParserInv, UNCHANGED <<stream, received>>, NEW e \in 0 .. received,
         Len(buf') = received - e, \A k \in 1 .. received - e : buf'[k] = stream[e + k],
         ~calling' => buf' = <<>>
  PROVE  BufferFits' /\ Place' = e + 1
<1>1. received \in Nat
  BY ParserTypes, Zenon
<1>2. Place' = e + 1
  BY <1>1 DEF Place
<1>3. Len(buf') <= received' /\ Place' - 1 = e
  BY <1>1, <1>2
<1>4. \A k \in 1 .. Len(buf') : buf'[k] = stream'[Place' - 1 + k]
  BY <1>3, Zenon
<1>5. QED
  BY <1>2, <1>3, <1>4, Zenon DEF BufferFits

LEMMA BufferDropped ==
  ASSUME ParserInv, UNCHANGED <<stream, received>>, buf' = <<>>
  PROVE  BufferFits' /\ Place' = received + 1
<1>1. received \in Nat
  BY ParserTypes, Zenon
<1>2. received \in 0 .. received /\ Len(buf') = received - received
      /\ \A k \in 1 .. received - received : buf'[k] = stream[received + k]
  BY <1>1
<1>3. QED
  BY <1>2, BufferMoves, Zenon

\* What the fields say goes on being so when only the buffer is another.
LEMMA FrameStays ==
  ASSUME UNCHANGED <<state, fields, stream>>, Place' = Place, \A s \in Later' : s \in Later,
         state = "Ready" => calling', NEW i, AtFrame(i)
  PROVE  AtFrame(i)'
<1>1. /\ state' = state /\ header' = header /\ argc' = argc /\ arg_index' = arg_index
      /\ args' = args /\ bulk_len' = bulk_len /\ bulk_read' = bulk_read /\ stream' = stream
  BY DEF fields
<1>2. ASSUME NEW b, HeaderFrom(b)
      PROVE  HeaderFrom(b)'
  BY <1>1, <1>2 DEF HeaderFrom
<1>3. CASE state = "ArrayLen"
  <2>1. HeaderFrom(i)
    BY <1>3, FrameNow, Zenon
  <2>2. QED
    BY <1>1, <1>2, <1>3, <2>1, Zenon DEF AtFrame
<1>4. CASE state # "ArrayLen"
  <2>1. PICK j \in 1 .. Place : AtBulk(j) /\ \A s \in Later : InFrame(s, i, j)
    BY <1>4, FrameNow, Zenon
  <2>2. ASSUME NEW s \in Later'
        PROVE  InFrame(s, i, j)'
    <3>1. InFrame(s, i, j)
      BY <2>1
    <3>2. QED
      BY <1>1, <3>1 DEF InFrame
  <2>3. AtBulk(j)'
    <3>1. CASE state = "BulkLen"
      BY <1>1, <1>2, <2>1, <3>1, BulkNow, Zenon DEF AtBulk
    <3>2. CASE state = "Ready"
      <4>1. state' # "BulkLen" /\ state' = "Ready"
        BY <1>1, <3>2
      <4>2. /\ arg_index' = argc' /\ Len(args') = argc' /\ j = Place' /\ calling'
            /\ header' = <<>>
        BY <1>1, <2>1, <3>2, BulkNow, Zenon
      <4>3. QED
        BY <4>1, <4>2 DEF AtBulk
    <3>3. CASE state \notin {"BulkLen", "Ready"}
      <4>1. PICK h \in 1 .. Place : HasRead(h) /\ \A s \in Later : InBulk(s, j, h)
        BY <2>1, <3>3, BulkNow, Zenon
      <4>2. HasRead(h)'
        BY <1>1, <4>1 DEF HasRead
      <4>3. ASSUME NEW s \in Later'
            PROVE  InBulk(s, j, h)'
        BY <1>1, <4>1 DEF InBulk
      <4>4. header' = <<>> /\ h \in 1 .. Place'
        BY <1>1, <2>1, <3>3, BulkNow, Zenon
      <4>5. state' # "BulkLen" /\ state' # "Ready"
        BY <1>1, <3>3
      <4>6. QED
        BY <4>2, <4>3, <4>4, <4>5, Zenon DEF AtBulk
    <3>4. QED
      BY <3>1, <3>2, <3>3
  <2>4. state' # "ArrayLen" /\ j \in 1 .. Place'
    BY <1>1, <1>4, <2>1, Zenon
  <2>5. QED
    BY <2>2, <2>3, <2>4, Zenon DEF AtFrame
<1>5. QED
  BY <1>3, <1>4

LEMMA ReadsOn ==
  ASSUME UNCHANGED <<stream, received, executed>>, state' # "Failed", BufferFits',
         NEW i \in 1 .. Place', AtFrame(i)', \A s \in Later : ReadUpTo(s, i)
  PROVE  ReadsTheSame'
<1>1. Later' = Later
  BY LaterStays, Zenon
<1>2. ASSUME NEW s \in Later'
      PROVE  ReadUpTo(s, i)'
  BY <1>1 DEF ReadUpTo
<1>3. QED
  BY <1>2, Zenon DEF ReadsTheSame

LEMMA RefusedNow ==
  ASSUME UNCHANGED <<stream, received>>, ParserInv, fail("invalid"),
         \A s \in Later : Reading(s).commands = executed /\ Reading(s).end = Bad
  PROVE  ReadsTheSame'
<1>1. /\ state' = "Failed" /\ error' # "bad_alloc" /\ buf' = <<>> /\ executed' = executed
  BY DEF fail
<1>2. BufferFits' /\ Later' = Later
  BY <1>1, BufferDropped, LaterStays, Zenon
<1>3. \A s \in Later' : Refused(s)'
  BY <1>1, <1>2, Zenon DEF Refused
<1>4. QED
  BY <1>1, <1>2, <1>3, Zenon DEF ReadsTheSame

LEMMA ReadsInit == Init => ReadsTheSame
<1> SUFFICES ASSUME Init PROVE ReadsTheSame
  OBVIOUS
<1>1. ParserInv
  BY ParserInit
<1>2. /\ state = "ArrayLen" /\ header = <<>> /\ received = 0 /\ buf = <<>>
      /\ executed = <<>>
  BY DEF Init
<1>3. Place = 1
  BY <1>2 DEF Place
<1>4. BufferFits
  BY <1>2 DEF BufferFits
<1>5. AtFrame(1)
  <2>1. HeaderFrom(1)
    BY <1>2, <1>3 DEF HeaderFrom
  <2>2. QED
    BY <1>2, <2>1, Zenon DEF AtFrame
<1>6. ASSUME NEW s \in Later
      PROVE  ReadUpTo(s, 1)
  <2>1. s \in Seq(Byte) /\ 1 \in 1 .. Len(s) + 1
    BY <1>1, LaterIs
  <2>2. ReadingFrom(s)[1].commands \in Seq(Classified(s))
    BY <2>1, CommandsAreSeq
  <2>3. \A S : \A q \in Seq(S) : <<>> \o q = q
    OBVIOUS
  <2>4. QED
    BY <1>2, <2>2, <2>3, Zenon DEF ReadUpTo, Reading
<1>7. state # "Failed" /\ 1 \in 1 .. Place
  BY <1>2, <1>3
<1>8. QED
  BY <1>4, <1>5, <1>6, <1>7, Zenon DEF ReadsTheSame

LEMMA ReadsRecv ==
  ASSUME ParserInv, ReadsTheSame, NEW n \in 1 .. Len(stream), Recv(n)
  PROVE  ReadsTheSame'
<1>1. /\ ~calling /\ state # "Failed" /\ received + n <= Len(stream)
      /\ received' = received + n /\ buf' = SubSeq(stream, received + 1, received + n)
      /\ calling' = TRUE /\ UNCHANGED <<state, error, fields, stream, executed>>
  BY DEF Recv
<1>2. BufferFits /\ \E i \in 1 .. Place : AtFrame(i) /\ \A s \in Later : ReadUpTo(s, i)
  BY <1>1, ReadsNow, Zenon
<1>3. PICK i \in 1 .. Place : AtFrame(i) /\ \A s \in Later : ReadUpTo(s, i)
  BY <1>2
<1>4. /\ received \in Nat /\ Len(stream) \in Nat /\ stream \in Seq(Byte) /\ n \in Nat \ {0}
  BY ParserTypes
<1>5. buf = <<>> /\ Place = received + 1
  BY <1>1, <1>2, PlaceIs, Zenon DEF BufferFits
<1>6. /\ Len(buf') = n /\ \A k \in 1 .. n : buf'[k] = stream[received + k]
  <2>1. PICK a, z : a = received + 1 /\ z = received + n
    OBVIOUS
  <2>2. /\ a \in Nat \ {0} /\ z \in Nat /\ z <= Len(stream) /\ a <= z /\ z - a + 1 = n
    BY <1>1, <1>4, <2>1
  <2>3. /\ Len(SubSeq(stream, a, z)) = n
        /\ \A k \in 1 .. n : SubSeq(stream, a, z)[k] = stream[a + k - 1]
    BY <1>4, <2>2, PartIs
  <2>4. \A k \in 1 .. n : a + k - 1 = received + k
    BY <1>4, <2>1
  <2>5. QED
    BY <1>1, <2>1, <2>3, <2>4, Zenon
<1>7. Place' = Place
  BY <1>1, <1>4, <1>5, <1>6 DEF Place
<1>8. BufferFits'
  <2>1. Len(buf') <= received' /\ Place' - 1 = received
    BY <1>1, <1>4, <1>5, <1>6, <1>7
  <2>2. QED
    BY <1>1, <1>6, <2>1, Zenon DEF BufferFits
<1>9. ASSUME NEW s \in Later'
      PROVE  s \in Later
  <2>1. PICK r \in received' .. Len(stream) : s = SubSeq(stream, 1, r)
    BY <1>1, <1>9 DEF Later
  <2>2. r \in received .. Len(stream)
    BY <1>1, <1>4
  <2>3. QED
    BY <2>1, <2>2 DEF Later
<1>10. AtFrame(i)'
  BY <1>1, <1>3, <1>7, <1>9, FrameStays, Zenon
<1>11. \A s \in Later' : ReadUpTo(s, i)'
  BY <1>1, <1>3, <1>9, Zenon DEF ReadUpTo
<1>12. state' # "Failed" /\ i \in 1 .. Place'
  BY <1>1, <1>7, Zenon
<1>13. QED
  BY <1>8, <1>10, <1>11, <1>12, Zenon DEF ReadsTheSame

\* The part of a line that has been read is kept for the next call.
LEMMA LineKept ==
  ASSUME ParserInv, BufferFits, HeaderNeedsMore, NEW b \in 1 .. Place, HeaderFrom(b)
  PROVE  HeaderFrom(b)'
<1>1. /\ ~read_line.ended /\ header' = read_line.text /\ buf' = <<>>
      /\ UNCHANGED <<stream, received>>
  BY DEF HeaderNeedsMore, In, NeedMore
<1>2. PICK e : LineFits(b, e)
  BY LineRead, Zenon
<1>3. /\ e \in Place .. received + 1 /\ ~(e <= received)
      /\ Len(header') = e - b
      /\ \A k \in 1 .. e - b : header'[k] = stream[b - 1 + k] /\ header'[k] # LF
  BY <1>1, <1>2, Zenon DEF LineFits
<1>4. Place' = received + 1
  BY <1>1, BufferDropped, Zenon
<1>5. e = Place'
  BY <1>3, <1>4, PlaceIs
<1>6. QED
  BY <1>1, <1>3, <1>5, Zenon DEF HeaderFrom

LEMMA ReadsHeaderNeedsMore ==
  ASSUME ParserInv, ReadsTheSame, HeaderNeedsMore
  PROVE  ReadsTheSame'
<1>1. /\ state \in {"ArrayLen", "BulkLen"} /\ buf' = <<>>
      /\ UNCHANGED <<state, error, executed, stream, received, argc, arg_index, args,
                     bulk_len, bulk_read>>
  BY DEF HeaderNeedsMore, In, NeedMore
<1>2. BufferFits /\ \E i \in 1 .. Place : AtFrame(i) /\ \A s \in Later : ReadUpTo(s, i)
  BY <1>1, ReadsNow
<1>3. PICK i \in 1 .. Place : AtFrame(i) /\ \A s \in Later : ReadUpTo(s, i)
  BY <1>2
<1>4. BufferFits' /\ Place' = received + 1 /\ Later' = Later
  BY <1>1, BufferDropped, LaterStays, Zenon
<1>5. \A b \in 1 .. Place : b \in 1 .. Place'
  BY <1>2, <1>4, PlaceIs
<1>6. AtFrame(i)'
  <2>1. CASE state = "ArrayLen"
    <3>1. HeaderFrom(i)
      BY <1>3, <2>1, FrameNow, Zenon
    <3>2. QED
      BY <1>1, <1>2, <2>1, <3>1, LineKept, Zenon DEF AtFrame
  <2>2. CASE state = "BulkLen"
    <3>1. state' = "BulkLen" /\ state' # "ArrayLen"
      BY <1>1, <2>2
    <3>2. PICK j \in 1 .. Place : AtBulk(j) /\ \A s \in Later : InFrame(s, i, j)
      BY <1>3, <2>2, FrameNow
    <3>3. HeaderFrom(j)
      BY <2>2, <3>2, BulkNow, Zenon
    <3>4. AtBulk(j)'
      BY <1>2, <3>1, <3>3, LineKept, Zenon DEF AtBulk
    <3>5. ASSUME NEW s \in Later'
          PROVE  InFrame(s, i, j)'
      <4>1. InFrame(s, i, j)
        BY <1>4, <3>2
      <4>2. QED
        BY <1>1, <4>1 DEF InFrame
    <3>6. QED
      BY <1>5, <3>1, <3>4, <3>5, Zenon DEF AtFrame
  <2>3. QED
    BY <1>1, <2>1, <2>2
<1>7. state' # "Failed"
  BY <1>1
<1>8. QED
  BY <1>1, <1>3, <1>4, <1>5, <1>6, <1>7, ReadsOn, Zenon

LEMMA ReadsHeaderFails ==
  ASSUME ParserInv, ReadsTheSame, HeaderFails
  PROVE  ReadsTheSame'
<1>1. /\ \/ state = "ArrayLen" /\ ~Accepted(Star, kMaxArgs)
         \/ state = "BulkLen" /\ ~Accepted(Dollar, max_bulk_len)
      /\ read_line.bad \/ read_line.ended
      /\ fail("invalid") /\ UNCHANGED <<stream, received>>
  BY Zenon DEF HeaderFails, In
<1>2. BufferFits /\ \E i \in 1 .. Place : AtFrame(i) /\ \A s \in Later : ReadUpTo(s, i)
  BY <1>1, ReadsNow
<1>3. PICK i \in 1 .. Place : AtFrame(i) /\ \A s \in Later : ReadUpTo(s, i)
  BY <1>2
<1>4. Bad \in Ended /\ Bad < 0
  BY DEF Ended, Bad
<1>5. ASSUME NEW s \in Later
      PROVE  Reading(s).commands = executed /\ Reading(s).end = Bad
  <2>1. ReadUpTo(s, i)
    BY <1>3
  <2>2. CASE state = "ArrayLen" /\ ~Accepted(Star, kMaxArgs)
    <3>1. HeaderFrom(i)
      BY <1>3, <2>2, FrameNow, Zenon
    <3>2. PICK e : LineFits(i, e)
      BY <1>2, <3>1, LineRead, Zenon
    <3>3. AfterLine(s, i, Star, kMaxArgs) = Bad
      BY <1>1, <1>2, <2>2, <3>2, HeaderRefused, Zenon
    <3>4. QED
      BY <1>2, <1>4, <2>1, <3>3, EndsInLine, Zenon
  <2>3. CASE state = "BulkLen" /\ ~Accepted(Dollar, max_bulk_len)
    <3>1. PICK j \in 1 .. Place : AtBulk(j) /\ \A q \in Later : InFrame(q, i, j)
      BY <1>3, <2>3, FrameNow
    <3>2. HeaderFrom(j)
      BY <2>3, <3>1, BulkNow, Zenon
    <3>3. PICK e : LineFits(j, e)
      BY <1>2, <3>2, LineRead, Zenon
    <3>4. AfterLine(s, j, Dollar, max_bulk_len) = Bad
      BY <1>1, <1>2, <2>3, <3>3, HeaderRefused, Zenon
    <3>5. AfterBulk(s, j) = Bad
      BY <1>4, <3>4, Zenon DEF AfterBulk
    <3>6. arg_index < argc
      BY <2>3 DEF ParserInv, HoldsAsFar
    <3>7. InFrame(s, i, j)
      BY <3>1
    <3>8. QED
      BY <1>2, <1>4, <2>1, <3>5, <3>6, <3>7, EndsInBulk, Zenon
  <2>4. QED
    BY <1>1, <2>2, <2>3
<1>6. QED
  BY <1>1, <1>5, RefusedNow, Zenon

\* What is left when a header has been accepted.
LEMMA HeaderTaken ==
  ASSUME ParserInv, BufferFits, NEW b \in 1 .. Place, HeaderFrom(b),
         NEW mark, NEW max, Accepted(mark, max)
  PROVE  \E e \in Place .. received :
           /\ Len(read_line.rest) = received - e
           /\ \A k \in 1 .. received - e : read_line.rest[k] = stream[e + k]
           /\ Length \in Nat /\ Length <= max
           /\ \A s \in Later : AfterLine(s, b, mark, max) = e + 1 /\ Number(s, b) = Length
<1>1. PICK e : LineFits(b, e)
  BY LineRead, Zenon
<1>2. /\ e \in Place .. received /\ Length \in Nat /\ Length <= max
      /\ \A s \in Later : AfterLine(s, b, mark, max) = e + 1 /\ Number(s, b) = Length
  BY <1>1, HeaderAccepted, Zenon
<1>3. e <= received
  BY <1>2, PlaceIs
<1>4. /\ Len(read_line.rest) = received - e
      /\ \A k \in 1 .. received - e : read_line.rest[k] = stream[e + k]
  BY <1>1, <1>3, Zenon DEF LineFits
<1>5. QED
  BY <1>2, <1>4, Zenon

LEMMA ReadsArrayLen ==
  ASSUME ParserInv, ReadsTheSame, ArrayLen
  PROVE  ReadsTheSame'
<1>1. /\ state = "ArrayLen" /\ Accepted(Star, kMaxArgs)
      /\ argc' = Length /\ arg_index' = 0 /\ args' = <<>> /\ header' = <<>>
      /\ state' = (IF Length = 0 THEN "Ready" ELSE "BulkLen")
      /\ buf' = read_line.rest /\ calling' = TRUE
      /\ UNCHANGED <<error, bulk_len, bulk_read, stream, received, executed>>
  BY DEF ArrayLen, In, BeginCommand, Continue
<1>2. BufferFits /\ \E i \in 1 .. Place : AtFrame(i) /\ \A s \in Later : ReadUpTo(s, i)
  BY <1>1, ReadsNow
<1>3. PICK i \in 1 .. Place : AtFrame(i) /\ \A s \in Later : ReadUpTo(s, i)
  BY <1>2
<1>4. HeaderFrom(i)
  BY <1>1, <1>3, FrameNow, Zenon
<1>5. PICK e \in Place .. received :
        /\ Len(read_line.rest) = received - e
        /\ \A k \in 1 .. received - e : read_line.rest[k] = stream[e + k]
        /\ Length \in Nat
        /\ \A s \in Later : AfterLine(s, i, Star, kMaxArgs) = e + 1 /\ Number(s, i) = Length
  BY <1>1, <1>2, <1>4, HeaderTaken, Zenon
<1>6. Place \in 1 .. received + 1 /\ received \in Nat
  BY <1>2, PlaceIs, Zenon
<1>7. e \in 0 .. received /\ e \in Nat
  BY <1>6
<1>8. BufferFits' /\ Place' = e + 1 /\ Later' = Later
  BY <1>1, <1>5, <1>7, BufferMoves, LaterStays, Zenon
<1>9. i \in 1 .. Place' /\ e + 1 \in 1 .. Place'
  BY <1>6, <1>8
<1>10. ASSUME NEW s \in Later'
       PROVE  InFrame(s, i, e + 1)'
  <2>1. s \in Seq(Byte) /\ i \in 1 .. Len(s) + 1
    BY <1>2, <1>8, InReceived, Zenon
  <2>2. PICK n, at : at = Starts(s, i) /\ StartsAre(s, i, at, n)
    BY <2>1, StartsIs, Zenon
  <2>3. at[1] = e + 1 /\ Number(s, i) = Length
    BY <1>5, <1>8, <2>2, Zenon DEF StartsAre
  <2>4. ~(at[1] < 0) /\ at[1] > 0
    BY <1>7, <2>3
  <2>5. n = Length /\ Len(at) = n + 1
    BY <2>2, <2>3, <2>4, Zenon DEF StartsAre
  <2>6. Len(Starts(s, i)) = argc' + 1 /\ Starts(s, i)[1] > 0 /\ Starts(s, i)[0 + 1] = e + 1
    BY <1>1, <2>2, <2>3, <2>4, <2>5
  <2>7. ASSUME NEW k \in 1 .. arg_index'
        PROVE  FALSE
    BY <1>1
  <2>8. QED
    BY <1>1, <2>6, <2>7 DEF InFrame
<1>11. AtBulk(e + 1)'
  <2>1. CASE Length = 0
    <3>1. state' = "Ready" /\ state' # "BulkLen"
      BY <1>1, <2>1
    <3>2. /\ arg_index' = argc' /\ Len(args') = argc' /\ e + 1 = Place' /\ calling'
          /\ header' = <<>>
      BY <1>1, <1>8, <2>1
    <3>3. QED
      BY <3>1, <3>2 DEF AtBulk
  <2>2. CASE Length # 0
    <3>1. state' = "BulkLen"
      BY <1>1, <2>2
    <3>2. HeaderFrom(e + 1)'
      BY <1>1, <1>7, <1>8 DEF HeaderFrom
    <3>3. QED
      BY <3>1, <3>2, Zenon DEF AtBulk
  <2>3. QED
    BY <2>1, <2>2
<1>12. state' # "ArrayLen" /\ state' # "Failed"
  BY <1>1
<1>13. AtFrame(i)'
  BY <1>9, <1>10, <1>11, <1>12, Zenon DEF AtFrame
<1>14. QED
  BY <1>1, <1>3, <1>8, <1>9, <1>12, <1>13, ReadsOn, Zenon

LEMMA ReadsBulkLen ==
  ASSUME ParserInv, ReadsTheSame, BulkLen
  PROVE  ReadsTheSame'
<1> DEFINE room == [k \in 1 .. Length |-> 0]
<1>1. /\ state = "BulkLen" /\ Accepted(Dollar, max_bulk_len)
      /\ args' = Append(args, room)
      /\ bulk_len' = Length /\ bulk_read' = 0 /\ header' = <<>>
      /\ state' = (IF Length = 0 THEN "Trailer" ELSE "Payload")
      /\ buf' = read_line.rest /\ calling' = TRUE
      /\ UNCHANGED <<error, argc, arg_index, stream, received, executed>>
  BY DEF BulkLen, In, Continue
<1>2. BufferFits /\ \E i \in 1 .. Place : AtFrame(i) /\ \A s \in Later : ReadUpTo(s, i)
  BY <1>1, ReadsNow
<1>3. PICK i \in 1 .. Place : AtFrame(i) /\ \A s \in Later : ReadUpTo(s, i)
  BY <1>2
<1>4. PICK j \in 1 .. Place : AtBulk(j) /\ \A s \in Later : InFrame(s, i, j)
  BY <1>1, <1>3, FrameNow
<1>5. HeaderFrom(j)
  BY <1>1, <1>4, BulkNow, Zenon
<1>6. PICK e \in Place .. received :
        /\ Len(read_line.rest) = received - e
        /\ \A k \in 1 .. received - e : read_line.rest[k] = stream[e + k]
        /\ Length \in Nat
        /\ \A s \in Later : AfterLine(s, j, Dollar, max_bulk_len) = e + 1
                            /\ Number(s, j) = Length
  BY <1>1, <1>2, <1>5, HeaderTaken, Zenon
<1>7. Place \in 1 .. received + 1 /\ received \in Nat
  BY <1>2, PlaceIs, Zenon
<1>8. e \in 0 .. received /\ e \in Nat
  BY <1>7
<1>9. BufferFits' /\ Place' = e + 1 /\ Later' = Later
  BY <1>1, <1>6, <1>8, BufferMoves, LaterStays, Zenon
<1>10. i \in 1 .. Place' /\ j \in 1 .. Place' /\ e + 1 \in 1 .. Place'
  BY <1>7, <1>9
<1>11. /\ args'[arg_index + 1] = room /\ Len(room) = Length
       /\ \A k \in 1 .. arg_index : args'[k] = args[k]
  <2>1. Len(args) = arg_index /\ args \in Seq(Seq(Byte)) /\ arg_index \in Nat
    BY <1>1, ParserTypes DEF ParserInv, HoldsAsFar
  <2>2. Len(room) = Length
    BY <1>6
  <2> HIDE DEF room
  <2>3. QED
    BY <1>1, <2>1, <2>2
<1> HIDE DEF room
<1>12. ASSUME NEW s \in Later'
       PROVE  InFrame(s, i, j)'
  <2>1. InFrame(s, i, j)
    BY <1>4, <1>9
  <2>2. QED
    BY <1>1, <1>11, <2>1 DEF InFrame
<1>13. AtBulk(j)'
  <2>1. state' \in {"Trailer", "Payload"} /\ (state' # "Payload" => Length = 0)
    BY <1>1
  <2>2. HasRead(e + 1)'
    <3>1. /\ Len(args'[arg_index' + 1]) = bulk_len'
      BY <1>1, <1>11
    <3>2. Place' = e + 1 + bulk_read' + (IF state' = "TrailerLf" THEN 1 ELSE 0)
      BY <1>1, <1>8, <1>9
    <3>3. ASSUME NEW k \in 1 .. bulk_read'
          PROVE  FALSE
      BY <1>1
    <3>4. (state' # "Payload" => bulk_read' = bulk_len') /\ state' # "TrailerLf"
      BY <1>1, <2>1
    <3>5. QED
      BY <3>1, <3>2, <3>3, <3>4 DEF HasRead
  <2>3. \A s \in Later' : InBulk(s, j, e + 1)'
    BY <1>1, <1>6, <1>9, Zenon DEF InBulk
  <2>4. state' # "BulkLen" /\ state' # "Ready"
    BY <2>1
  <2>5. QED
    BY <1>1, <1>10, <2>2, <2>3, <2>4, Zenon DEF AtBulk
<1>14. state' # "ArrayLen" /\ state' # "Failed"
  BY <1>1
<1>15. AtFrame(i)'
  BY <1>10, <1>12, <1>13, <1>14, Zenon DEF AtFrame
<1>16. QED
  BY <1>1, <1>3, <1>9, <1>10, <1>14, <1>15, ReadsOn, Zenon

\* The commands given come first in what there is to read.
LEMMA BeginsReading ==
  ASSUME ParserInv, BufferFits, NEW i \in 1 .. Place, NEW s \in Later, ReadUpTo(s, i)
  PROVE  IsPrefix(executed, Reading(s).commands)
<1>1. PICK S, T, x : /\ executed \in Seq(S) /\ x \in Seq(T)
                     /\ Reading(s).commands = executed \o x
  <2>1. executed \in Seq([verb : Seq(Byte), args : Seq(Seq(Byte)), known : BOOLEAN])
    BY Zenon DEF ParserInv, TypeOK
  <2>2. ReadingFrom(s)[i].commands \in Seq(Classified(s))
    BY InReceived, CommandsAreSeq
  <2>3. Reading(s).commands = executed \o ReadingFrom(s)[i].commands
    BY Zenon DEF ReadUpTo
  <2>4. QED
    BY <2>1, <2>2, <2>3, Zenon
<1>2. executed \in Seq(S \cup T) /\ x \in Seq(S \cup T)
  BY <1>1
<1>3. /\ executed \o x \in Seq(S \cup T) /\ Len(executed) \in Nat /\ Len(x) \in Nat
      /\ Len(executed \o x) = Len(executed) + Len(x)
      /\ \A k \in 1 .. Len(executed) : (executed \o x)[k] = executed[k]
  BY <1>2, JoinedIs, SeqIsFunction
<1>4. SubSeq(executed \o x, 1, Len(executed)) = executed
  <2>1. PICK y, n : y = executed \o x /\ n = Len(executed)
    OBVIOUS
  <2>2. /\ y \in Seq(S \cup T) /\ n \in Nat /\ n <= Len(y)
        /\ \A k \in 1 .. n : y[k] = executed[k]
    BY <1>3, <2>1
  <2>3. /\ SubSeq(y, 1, n) \in Seq(S \cup T) /\ Len(SubSeq(y, 1, n)) = n
        /\ \A k \in 1 .. n : SubSeq(y, 1, n)[k] = y[k]
    BY <2>2
  <2>4. SubSeq(y, 1, n) = executed
    BY <1>2, <2>1, <2>2, <2>3, SeqEqual
  <2>5. QED
    BY <2>1, <2>4, Zenon
<1>5. Len(executed) <= Len(executed \o x)
  BY <1>3
<1>6. QED
  BY <1>1, <1>4, <1>5 DEF IsPrefix

LEMMA ReadsBulkLenThrows ==
  ASSUME ParserInv, ReadsTheSame, BulkLenThrows
  PROVE  ReadsTheSame'
<1>1. /\ state # "Failed" /\ state' = "Failed" /\ error' = "bad_alloc" /\ buf' = <<>>
      /\ UNCHANGED <<stream, received, executed>>
  BY DEF BulkLenThrows, In, fail
<1>2. BufferFits /\ \E i \in 1 .. Place : AtFrame(i) /\ \A s \in Later : ReadUpTo(s, i)
  BY <1>1, ReadsNow, Zenon
<1>3. BufferFits' /\ Later' = Later
  BY <1>1, BufferDropped, LaterStays, Zenon
<1>4. \A s \in Later' : Refused(s)'
  BY <1>1, <1>2, <1>3, BeginsReading, Zenon DEF Refused
<1>5. QED
  BY <1>1, <1>3, <1>4, Zenon DEF ReadsTheSame

\* In an argument: its header has been read, and so much of it.
LEMMA ArgumentNow ==
  ASSUME ParserInv, ReadsTheSame, state \in {"Payload", "Trailer", "TrailerLf"}
  PROVE  /\ BufferFits /\ Len(args) = arg_index + 1 /\ arg_index < argc /\ header = <<>>
         /\ \E i \in 1 .. Place, j \in 1 .. Place, h \in 1 .. Place :
              /\ \A s \in Later : ReadUpTo(s, i) /\ InFrame(s, i, j) /\ InBulk(s, j, h)
              /\ HasRead(h)
<1>1. state # "Failed" /\ state # "ArrayLen" /\ state \notin {"BulkLen", "Ready"}
  OBVIOUS
<1>2. BufferFits /\ \E i \in 1 .. Place : AtFrame(i) /\ \A s \in Later : ReadUpTo(s, i)
  BY <1>1, ReadsNow, Zenon
<1>3. PICK i \in 1 .. Place : AtFrame(i) /\ \A s \in Later : ReadUpTo(s, i)
  BY <1>2
<1>4. PICK j \in 1 .. Place : AtBulk(j) /\ \A s \in Later : InFrame(s, i, j)
  BY <1>1, <1>3, FrameNow, Zenon
<1>5. /\ \E h \in 1 .. Place : HasRead(h) /\ \A s \in Later : InBulk(s, j, h)
      /\ header = <<>>
  BY <1>1, <1>4, BulkNow, Zenon
<1>6. Len(args) = arg_index + 1 /\ arg_index < argc
  BY DEF ParserInv, HoldsAsFar
<1>7. QED
  BY <1>2, <1>3, <1>4, <1>5, <1>6, Zenon

\* What holds of the argument after a step that reads on in it.
LEMMA ArgumentReadsOn ==
  ASSUME UNCHANGED <<header, argc, arg_index, bulk_len, stream, received, executed>>,
         state' \in {"Payload", "Trailer", "TrailerLf"}, header = <<>>, BufferFits',
         NEW i \in 1 .. Place', NEW j \in 1 .. Place', NEW h \in 1 .. Place',
         \A s \in Later : ReadUpTo(s, i) /\ InFrame(s, i, j) /\ InBulk(s, j, h),
         \A k \in 1 .. arg_index : args'[k] = args[k],
         HasRead(h)'
  PROVE  ReadsTheSame'
<1>1. Later' = Later
  BY LaterStays, Zenon
<1>2. ASSUME NEW s \in Later'
      PROVE  InFrame(s, i, j)'
  <2>1. InFrame(s, i, j)
    BY <1>1
  <2>2. QED
    BY <2>1 DEF InFrame
<1>3. ASSUME NEW s \in Later'
      PROVE  InBulk(s, j, h)'
  <2>1. InBulk(s, j, h)
    BY <1>1
  <2>2. QED
    BY <2>1 DEF InBulk
<1>4. /\ state' # "ArrayLen" /\ state' # "Failed" /\ state' # "BulkLen" /\ state' # "Ready"
      /\ header' = <<>>
  OBVIOUS
<1>5. AtBulk(j)'
  BY <1>3, <1>4, Zenon DEF AtBulk
<1>6. AtFrame(i)'
  BY <1>2, <1>4, <1>5, Zenon DEF AtFrame
<1>7. \A s \in Later : ReadUpTo(s, i)
  OBVIOUS
<1>8. QED
  BY <1>4, <1>6, <1>7, ReadsOn

LEMMA ReadsPayload ==
  ASSUME ParserInv, ReadsTheSame, Payload
  PROVE  ReadsTheSame'
<1> DEFINE take == Min({bulk_len - bulk_read, Len(buf)})
           p == arg_index + 1
           old == args[p]
           new == [k \in 1 .. bulk_len |->
                     IF k \in bulk_read + 1 .. bulk_read + take THEN buf[k - bulk_read]
                                                                ELSE old[k]]
<1>1. /\ state = "Payload" /\ bulk_read' = bulk_read + take
      /\ args' = [args EXCEPT ![Len(args)] =
                    [k \in 1 .. bulk_len |->
                       IF k \in bulk_read + 1 .. bulk_read + take
                       THEN buf[k - bulk_read] ELSE args[Len(args)][k]]]
      /\ \/ ~(bulk_read' < bulk_len) /\ state' = "Trailer"
            /\ buf' = SubSeq(buf, take + 1, Len(buf)) /\ calling' = TRUE
         \/ /\ bulk_read' < bulk_len /\ state' = "Payload" /\ buf' = <<>>
      /\ UNCHANGED <<error, executed, header, argc, arg_index, bulk_len, stream, received>>
  BY ZenonT(30) DEF Payload, In, NeedMore, Continue
<1>2. state \in {"Payload", "Trailer", "TrailerLf"}
  BY <1>1
<1>3. BufferFits /\ Len(args) = p /\ arg_index < argc /\ header = <<>>
  BY <1>2, ArgumentNow, Zenon
<1>4. PICK i \in 1 .. Place, j \in 1 .. Place, h \in 1 .. Place :
        /\ \A s \in Later : ReadUpTo(s, i) /\ InFrame(s, i, j) /\ InBulk(s, j, h)
        /\ HasRead(h)
  BY <1>2, ArgumentNow, Zenon
<1>5. /\ bulk_len \in Nat /\ bulk_read \in Nat /\ bulk_read <= bulk_len /\ received \in Nat
      /\ Place \in Nat \ {0} /\ Place <= received + 1 /\ Len(buf) \in Nat
      /\ Len(buf) = received + 1 - Place /\ buf \in Seq(Byte)
  BY <1>3, PlaceIs, ParserTypes
<1>6. /\ take \in Nat /\ take <= bulk_len - bulk_read /\ take <= Len(buf)
      /\ take = bulk_len - bulk_read \/ take = Len(buf)
  <2> DEFINE T == {bulk_len - bulk_read, Len(buf)}
  <2>1. T \in SUBSET Nat /\ T # {}
    BY <1>5
  <2> HIDE DEF T
  <2>2. Min(T) \in T /\ \A m \in T : Min(T) <= m
    BY <2>1, MinIs
  <2>3. QED
    BY <2>1, <2>2 DEF T
<1> HIDE DEF take
<1>7. /\ Place = h + bulk_read /\ Len(old) = bulk_len
      /\ \A k \in 1 .. bulk_read : old[k] = stream[h - 1 + k]
  <2>1. Place = h + bulk_read + 0
    BY <1>1, <1>4 DEF HasRead
  <2>2. QED
    BY <1>4, <1>5, <2>1 DEF HasRead
<1>8. /\ args'[p] = new /\ \A k \in 1 .. arg_index : args'[k] = args[k]
  <2>1. args' = [args EXCEPT ![p] = new]
    BY <1>1, <1>3, Zenon
  <2>2. args \in Seq(Seq(Byte)) /\ arg_index \in Nat
    BY ParserTypes, Zenon
  <2>3. p \in DOMAIN args /\ \A k \in 1 .. arg_index : k \in DOMAIN args /\ k # p
    BY <1>3, <2>2
  <2> HIDE DEF new, p
  <2>4. QED
    BY <2>1, <2>3, Zenon
<1>9. Len(new) = bulk_len /\ \A k \in 1 .. bulk_read + take : new[k] = stream[h - 1 + k]
  <2>1. Len(new) = bulk_len
    <3> HIDE DEF old
    <3>1. QED
      BY <1>5
  <2>2. ASSUME NEW k \in 1 .. bulk_read + take
        PROVE  new[k] = stream[h - 1 + k]
    <3>1. k \in 1 .. bulk_len
      BY <1>5, <1>6
    <3>2. CASE k \in 1 .. bulk_read
      <4>1. k \notin bulk_read + 1 .. bulk_read + take
        BY <1>5, <3>2
      <4>2. new[k] = old[k]
        BY <3>1, <4>1, Zenon
      <4>3. QED
        BY <1>7, <3>2, <4>2, Zenon
    <3>3. CASE k \in bulk_read + 1 .. bulk_read + take
      <4>1. PICK m : m = k - bulk_read
        OBVIOUS
      <4>2. m \in 1 .. Len(buf) /\ Place - 1 + m = h - 1 + k
        BY <1>5, <1>6, <1>7, <3>3, <4>1
      <4>3. new[k] = buf[m]
        BY <3>1, <3>3, <4>1, Zenon
      <4>4. buf[m] = stream[Place - 1 + m]
        BY <1>3, <4>2, Zenon DEF BufferFits
      <4>5. QED
        BY <4>2, <4>3, <4>4, Zenon
    <3>4. QED
      BY <1>5, <1>6, <3>2, <3>3
  <2>3. QED
    BY <2>1, <2>2
<1> HIDE DEF new, old, p
<1>10. BufferFits' /\ Place' = h + bulk_read'
  <2>1. CASE bulk_read' < bulk_len /\ buf' = <<>>
    <3>1. BufferFits' /\ Place' = received + 1
      BY <1>1, <2>1, BufferDropped, Zenon
    <3>2. received + 1 = h + bulk_read'
      BY <1>1, <1>5, <1>6, <1>7, <2>1
    <3>3. QED
      BY <3>1, <3>2, Zenon
  <2>2. CASE buf' = SubSeq(buf, take + 1, Len(buf)) /\ calling' = TRUE
    <3>1. PICK e, a, n : e = h + bulk_read' - 1 /\ a = take + 1 /\ n = Len(buf)
      OBVIOUS
    <3>2. /\ e \in 0 .. received /\ a \in Nat \ {0} /\ n \in Nat /\ n <= Len(buf)
          /\ n - a + 1 = received - e /\ (IF a <= n THEN n - a + 1 ELSE 0) = received - e
          /\ e + 1 = h + bulk_read' /\ e = Place - 1 + take
      BY <1>1, <1>5, <1>6, <1>7, <3>1
    <3>3. /\ Len(buf') = received - e
          /\ \A k \in 1 .. received - e : buf'[k] = buf[a + k - 1]
      <4>1. /\ Len(SubSeq(buf, a, n)) = IF a <= n THEN n - a + 1 ELSE 0
            /\ \A k \in 1 .. n - a + 1 : SubSeq(buf, a, n)[k] = buf[a + k - 1]
        BY <1>5, <3>2, PartIs
      <4>2. QED
        BY <2>2, <3>1, <3>2, <4>1, Zenon
    <3>4. ASSUME NEW k \in 1 .. received - e
          PROVE  buf'[k] = stream[e + k]
      <4>1. PICK m : m = a + k - 1
        OBVIOUS
      <4>2. m \in 1 .. Len(buf) /\ Place - 1 + m = e + k
        BY <1>5, <1>6, <3>1, <3>2, <4>1, SMTT(30)
      <4>3. buf[m] = stream[Place - 1 + m]
        BY <1>3, <4>2, Zenon DEF BufferFits
      <4>4. QED
        BY <3>3, <4>1, <4>2, <4>3, Zenon
    <3>5. BufferFits' /\ Place' = e + 1
      BY <1>1, <2>2, <3>2, <3>3, <3>4, BufferMoves, Zenon
    <3>6. QED
      BY <3>2, <3>5, Zenon
  <2>3. QED
    BY <1>1, <2>1, <2>2, Zenon
<1>11. HasRead(h)'
  <2>1. /\ args'[arg_index' + 1] = new /\ Len(new) = bulk_len'
        /\ \A k \in 1 .. bulk_read' : new[k] = stream'[h - 1 + k]
    BY <1>1, <1>8, <1>9, Zenon DEF p
  <2>2. state' # "TrailerLf" /\ (state' # "Payload" => bulk_read' = bulk_len')
    BY <1>1, <1>5, <1>6
  <2>3. Place' = h + bulk_read' + (IF state' = "TrailerLf" THEN 1 ELSE 0)
    <3>1. h + bulk_read' = h + bulk_read' + 0
      BY <1>1, <1>5, <1>6
    <3>2. QED
      BY <1>10, <2>2, <3>1, Zenon
  <2>4. QED
    BY <2>1, <2>2, <2>3, Zenon DEF HasRead
<1>12. i \in 1 .. Place' /\ j \in 1 .. Place' /\ h \in 1 .. Place'
  BY <1>1, <1>5, <1>6, <1>7, <1>10
<1>13. state' \in {"Payload", "Trailer", "TrailerLf"}
  BY <1>1
<1>14. QED
  BY <1>1, <1>3, <1>4, <1>8, <1>10, <1>11, <1>12, <1>13, ArgumentReadsOn, Zenon

LEMMA ReadsTrailerNeedsMore ==
  ASSUME ParserInv, ReadsTheSame, TrailerNeedsMore
  PROVE  ReadsTheSame'
<1>1. /\ state \in {"Trailer", "TrailerLf"} /\ buf = <<>> /\ buf' = <<>>
      /\ UNCHANGED <<state, fields, stream, received, executed>>
  BY DEF TrailerNeedsMore, In, NeedMore
<1>2. state # "Failed" /\ state' # "Failed" /\ state # "Ready"
  BY <1>1
<1>3. BufferFits /\ \E i \in 1 .. Place : AtFrame(i) /\ \A s \in Later : ReadUpTo(s, i)
  BY <1>2, ReadsNow, Zenon
<1>4. PICK i \in 1 .. Place : AtFrame(i) /\ \A s \in Later : ReadUpTo(s, i)
  BY <1>3
<1>5. BufferFits' /\ Place' = received + 1 /\ Later' = Later
  BY <1>1, BufferDropped, LaterStays, Zenon
<1>6. Place' = Place
  BY <1>1, <1>3, <1>5, PlaceIs, Zenon
<1>7. AtFrame(i)'
  BY <1>1, <1>2, <1>4, <1>5, <1>6, FrameStays, Zenon
<1>8. QED
  BY <1>1, <1>2, <1>4, <1>5, <1>6, <1>7, ReadsOn, Zenon

\* The byte looked at, and the buffer without it.
LEMMA ByteTaken ==
  ASSUME ParserInv, BufferFits, buf # <<>>, buf' = Tail(buf), calling' = TRUE,
         UNCHANGED <<stream, received>>
  PROVE  BufferFits' /\ Place' = Place + 1
<1>1. /\ received \in Nat /\ Place \in Nat \ {0} /\ Place # received + 1
      /\ Place <= received + 1 /\ Len(buf) = received + 1 - Place
  <2>1. Place \in 1 .. received + 1 /\ Place # received + 1 /\ received \in Nat
        /\ Len(buf) = received + 1 - Place
    BY PlaceIs, Zenon
  <2>2. QED
    BY <2>1
<1>2. buf \in Seq(Byte)
  BY ParserTypes, Zenon
<1>3. /\ Len(buf') = Len(buf) - 1 /\ \A k \in 1 .. Len(buf) - 1 : buf'[k] = buf[k + 1]
  BY <1>2
<1>4. Place \in 0 .. received /\ Len(buf') = received - Place
  BY <1>1, <1>3
<1>5. ASSUME NEW k \in 1 .. received - Place
      PROVE  buf'[k] = stream[Place + k]
  <2>1. k \in 1 .. Len(buf) - 1 /\ k + 1 \in 1 .. Len(buf) /\ Place - 1 + (k + 1) = Place + k
    BY <1>1
  <2>2. QED
    BY <1>3, <2>1, Zenon DEF BufferFits
<1>6. QED
  BY <1>4, <1>5, BufferMoves, Zenon

LEMMA ByteMet ==
  ASSUME ParserInv, BufferFits, buf # <<>>
  PROVE  /\ Head(buf) = stream[Place] /\ Place \in 1 .. received
         /\ \A s \in Later : s[Place] = Head(buf) /\ Place <= Len(s)
<1>1. /\ Place \in 1 .. received + 1 /\ Place # received + 1 /\ received \in Nat
      /\ Len(buf) = received + 1 - Place
  BY PlaceIs, Zenon
<1>2. Place \in 1 .. received /\ 1 \in 1 .. Len(buf) /\ Place - 1 + 1 = Place
  BY <1>1
<1>3. Head(buf) = stream[Place]
  <2>1. buf[1] = stream[Place]
    BY <1>2, Zenon DEF BufferFits
  <2>2. QED
    BY <2>1
<1>4. ASSUME NEW s \in Later
      PROVE  s[Place] = Head(buf) /\ Place <= Len(s)
  <2>1. received <= Len(s) /\ Len(s) \in Nat /\ \A k \in 1 .. received : s[k] = stream[k]
    BY LaterIs, Zenon
  <2>2. Place <= Len(s)
    BY <1>1, <1>2, <2>1
  <2>3. QED
    BY <1>2, <1>3, <2>1, <2>2, Zenon
<1>5. QED
  BY <1>2, <1>3, <1>4, Zenon

\* Where the end of line that is being read began.
LEMMA TrailerAt ==
  ASSUME ParserInv, BufferFits, state \in {"Trailer", "TrailerLf"},
         NEW h \in 1 .. Place, HasRead(h)
  PROVE  /\ h + bulk_len \in Nat \ {0}
         /\ state = "Trailer" => Place = h + bulk_len
         /\ state = "TrailerLf" =>
              /\ Place = h + bulk_len + 1 /\ h + bulk_len \in 1 .. received
              /\ \A s \in Later : s[h + bulk_len] = CR
<1>1. bulk_read = bulk_len /\ Place = h + bulk_read + (IF state = "TrailerLf" THEN 1 ELSE 0)
  BY DEF HasRead
<1>2. bulk_len \in Nat /\ Place \in Nat /\ Place <= received + 1 /\ received \in Nat
  BY ParserTypes, PlaceIs
<1>3. h + bulk_len \in Nat \ {0}
  BY <1>2
<1>4. state = "Trailer" => Place = h + bulk_len
  BY <1>1, <1>2
<1>5. ASSUME state = "TrailerLf"
      PROVE  /\ Place = h + bulk_len + 1 /\ h + bulk_len \in 1 .. received
             /\ \A s \in Later : s[h + bulk_len] = CR
  <2>1. Place = h + bulk_len + 1 /\ h + bulk_len \in 1 .. received
    BY <1>1, <1>2, <1>5
  <2>2. stream[h + bulk_len] = CR
    BY <1>5, Zenon DEF HasRead
  <2>3. ASSUME NEW s \in Later
        PROVE  s[h + bulk_len] = CR
    BY <2>1, <2>2, LaterIs, Zenon
  <2>4. QED
    BY <2>1, <2>3
<1>6. QED
  BY <1>3, <1>4, <1>5, Zenon

LEMMA ReadsTrailerCr ==
  ASSUME ParserInv, ReadsTheSame, TrailerCr
  PROVE  ReadsTheSame'
<1>1. /\ state = "Trailer" /\ buf # <<>> /\ Head(buf) = CR
      /\ state' = "TrailerLf" /\ buf' = Tail(buf) /\ calling' = TRUE
      /\ UNCHANGED <<error, header, argc, arg_index, args, bulk_len, bulk_read, stream,
                     received, executed>>
  BY DEF TrailerCr, In, Continue, fields
<1>2. state \in {"Payload", "Trailer", "TrailerLf"} /\ state \in {"Trailer", "TrailerLf"}
  BY <1>1
<1>3. BufferFits /\ Len(args) = arg_index + 1 /\ arg_index < argc /\ header = <<>>
  BY <1>2, ArgumentNow, Zenon
<1>4. PICK i \in 1 .. Place, j \in 1 .. Place, h \in 1 .. Place :
        /\ \A s \in Later : ReadUpTo(s, i) /\ InFrame(s, i, j) /\ InBulk(s, j, h)
        /\ HasRead(h)
  BY <1>2, ArgumentNow, Zenon
<1>5. BufferFits' /\ Place' = Place + 1
  BY <1>1, <1>3, ByteTaken, Zenon
<1>6. Place = h + bulk_len /\ stream[Place] = CR
  BY <1>1, <1>2, <1>3, <1>4, TrailerAt, ByteMet, Zenon
<1>7. Place \in Nat
  BY <1>3, PlaceIs, Zenon
<1>8. HasRead(h)'
  <2>1. /\ Len(args[arg_index + 1]) = bulk_len /\ bulk_read = bulk_len
        /\ \A k \in 1 .. bulk_read : args[arg_index + 1][k] = stream[h - 1 + k]
    BY <1>1, <1>4 DEF HasRead
  <2>2. stream[h + bulk_len] = CR
    BY <1>6, Zenon
  <2>3. Place' = h + bulk_read' + (IF state' = "TrailerLf" THEN 1 ELSE 0)
    <3>1. Place' = h + bulk_read' + 1
      BY <1>1, <1>5, <1>6, <2>1, Zenon
    <3>2. QED
      BY <1>1, <3>1, Zenon
  <2>4. QED
    BY <1>1, <2>1, <2>2, <2>3, Zenon DEF HasRead
<1>9. i \in 1 .. Place' /\ j \in 1 .. Place' /\ h \in 1 .. Place'
  BY <1>5, <1>7
<1>10. /\ state' \in {"Payload", "Trailer", "TrailerLf"}
       /\ \A k \in 1 .. arg_index : args'[k] = args[k]
  BY <1>1
<1>11. QED
  BY <1>1, <1>3, <1>4, <1>5, <1>8, <1>9, <1>10, ArgumentReadsOn, Zenon

\* What the reading makes of an end of line.
LEMMA EolMet ==
  ASSUME ParserInv, BufferFits, state \in {"Trailer", "TrailerLf"}, buf # <<>>,
         NEW h \in 1 .. Place, HasRead(h), NEW s \in Later
  PROVE  /\ Head(buf) = LF => AfterEol(s, h + bulk_len) = Place + 1
         /\ (state = "Trailer" /\ Head(buf) \notin {CR, LF}) =>
               AfterEol(s, h + bulk_len) = Bad
         /\ (state = "TrailerLf" /\ Head(buf) # LF) => AfterEol(s, h + bulk_len) = Bad
<1>1. PICK q : q = h + bulk_len
  OBVIOUS
<1>2. /\ q \in Nat \ {0}
      /\ state = "Trailer" => Place = q
      /\ state = "TrailerLf" => Place = q + 1 /\ s[q] = CR
  BY <1>1, TrailerAt, Zenon
<1>3. s[Place] = Head(buf) /\ Place <= Len(s) /\ Len(s) \in Nat
  BY ByteMet, LaterIs, Zenon
<1>4. CASE state = "Trailer"
  <2>1. Place = q /\ ~(q > Len(s)) /\ state # "TrailerLf"
    BY <1>2, <1>3, <1>4
  <2>2. /\ Head(buf) = LF => AfterEol(s, q) = q + 1
        /\ Head(buf) \notin {CR, LF} => AfterEol(s, q) = Bad
    BY <1>3, <2>1, Zenon DEF AfterEol
  <2>3. QED
    BY <1>1, <2>1, <2>2, Zenon
<1>5. CASE state = "TrailerLf"
  <2>1. /\ Place = q + 1 /\ s[q] = CR /\ ~(q > Len(s)) /\ q # Len(s) /\ state # "Trailer"
        /\ q + 2 = Place + 1
    BY <1>2, <1>3, <1>5
  <2>2. CR # LF
    BY DEF CR, LF
  <2>3. AfterEol(s, q) = IF s[q + 1] = LF THEN q + 2 ELSE Bad
    BY <2>1, <2>2, Zenon DEF AfterEol
  <2>4. QED
    BY <1>1, <1>3, <2>1, <2>3, Zenon
<1>6. QED
  BY <1>4, <1>5

LEMMA ReadsTrailerFails ==
  ASSUME ParserInv, ReadsTheSame, TrailerFails
  PROVE  ReadsTheSame'
<1>1. /\ \/ state = "Trailer" /\ buf # <<>> /\ Head(buf) \notin {CR, LF}
         \/ state = "TrailerLf" /\ buf # <<>> /\ Head(buf) # LF
      /\ fail("invalid") /\ UNCHANGED <<stream, received>>
  BY Zenon DEF TrailerFails, In
<1>2. /\ state \in {"Payload", "Trailer", "TrailerLf"} /\ state \in {"Trailer", "TrailerLf"}
      /\ buf # <<>>
  BY <1>1
<1>3. BufferFits /\ arg_index < argc
  BY <1>2, ArgumentNow, Zenon
<1>4. PICK i \in 1 .. Place, j \in 1 .. Place, h \in 1 .. Place :
        /\ \A s \in Later : ReadUpTo(s, i) /\ InFrame(s, i, j) /\ InBulk(s, j, h)
        /\ HasRead(h)
  BY <1>2, ArgumentNow, Zenon
<1>5. ASSUME NEW s \in Later
      PROVE  Reading(s).commands = executed /\ Reading(s).end = Bad
  <2>1. AfterEol(s, h + bulk_len) = Bad
    BY <1>1, <1>2, <1>3, <1>4, EolMet, Zenon
  <2>2. ReadUpTo(s, i) /\ InFrame(s, i, j) /\ InBulk(s, j, h)
    BY <1>4
  <2>3. AfterBulk(s, j) = Bad
    BY <1>3, <2>1, <2>2, BulkAt, Zenon
  <2>4. Bad \in Ended
    BY Zenon DEF Ended
  <2>5. QED
    BY <1>3, <2>2, <2>3, <2>4, EndsInBulk, Zenon
<1>6. QED
  BY <1>1, <1>5, RefusedNow, Zenon

LEMMA ReadsTrailerLf ==
  ASSUME ParserInv, ReadsTheSame, TrailerLf
  PROVE  ReadsTheSame'
<1>0. PICK p : p = Place'
  OBVIOUS
<1>1. /\ state \in {"Trailer", "TrailerLf"} /\ buf # <<>> /\ Head(buf) = LF
      /\ arg_index' = arg_index + 1
      /\ state' = (IF arg_index' < argc THEN "BulkLen" ELSE "Ready")
      /\ buf' = Tail(buf) /\ calling' = TRUE
      /\ UNCHANGED <<error, header, argc, args, bulk_len, bulk_read, stream, received,
                     executed>>
  BY DEF TrailerLf, In, Continue
<1>2. state \in {"Payload", "Trailer", "TrailerLf"}
  BY <1>1
<1>3. BufferFits /\ Len(args) = arg_index + 1 /\ arg_index < argc /\ header = <<>>
  BY <1>2, ArgumentNow, Zenon
<1>4. PICK i \in 1 .. Place, j \in 1 .. Place, h \in 1 .. Place :
        /\ \A s \in Later : ReadUpTo(s, i) /\ InFrame(s, i, j) /\ InBulk(s, j, h)
        /\ HasRead(h)
  BY <1>2, ArgumentNow, Zenon
<1>5. BufferFits' /\ Place' = Place + 1 /\ Later' = Later
  BY <1>1, <1>3, ByteTaken, LaterStays, Zenon
<1>6. Place \in Nat \ {0} /\ arg_index \in Nat /\ argc \in Nat
  BY <1>3, PlaceIs, ParserTypes
<1>7. i \in 1 .. Place' /\ p \in 1 .. Place' /\ p > 0 /\ p = Place + 1
  BY <1>0, <1>5, <1>6
<1>8. ASSUME NEW s \in Later'
      PROVE  InFrame(s, i, p)'
  <2>1. InFrame(s, i, j) /\ InBulk(s, j, h) /\ s \in Later
    BY <1>4, <1>5
  <2>2. AfterEol(s, h + bulk_len) = p
    BY <1>1, <1>3, <1>4, <1>7, <2>1, EolMet, Zenon
  <2>3. AfterBulk(s, j) = p /\ Bulk(s, j) = args[arg_index + 1]
    BY <1>1, <1>3, <1>4, <2>1, <2>2, BulkAt, BulkHeld, Zenon
  <2>4. PICK at : at = Starts(s, i)
    OBVIOUS
  <2>5. StartsAre(s, i, at, argc)
    BY <1>3, <2>1, <2>4, FrameIs, Zenon
  <2>6. /\ Len(at) = argc + 1 /\ at[1] > 0 /\ at[arg_index + 1] = j
        /\ \A k \in 1 .. arg_index : at[k] > 0 /\ Bulk(s, at[k]) = args[k]
    BY <2>1, <2>4, Zenon DEF InFrame
  <2>7. arg_index + 1 \in 1 .. argc /\ ~(j < 0) /\ j > 0
    BY <1>3, <1>6
  <2>8. at[arg_index + 1 + 1] = p
    BY <2>3, <2>5, <2>6, <2>7, Zenon DEF StartsAre
  <2>9. ASSUME NEW k \in 1 .. arg_index + 1
        PROVE  at[k] > 0 /\ Bulk(s, at[k]) = args[k]
    <3>1. k \in 1 .. arg_index \/ k = arg_index + 1
      BY <1>6
    <3>2. CASE k = arg_index + 1
      BY <2>3, <2>6, <2>7, <3>2, Zenon
    <3>3. QED
      BY <2>6, <3>1, <3>2
  <2>10. /\ Len(at) = argc' + 1 /\ at[1] > 0 /\ at[arg_index' + 1] = p
         /\ \A k \in 1 .. arg_index' : at[k] > 0 /\ Bulk(s, at[k]) = args'[k]
    BY <1>1, <2>6, <2>8, <2>9, Zenon
  <2>11. QED
    BY <2>4, <2>10, Zenon DEF InFrame
<1>9. AtBulk(p)'
  <2>1. CASE arg_index' < argc
    <3>1. state' = "BulkLen"
      BY <1>1, <2>1
    <3>2. Len(header') = Place' - p /\ 1 .. Len(header') = {}
      BY <1>0, <1>1, <1>3, <1>6, <1>7
    <3>3. HeaderFrom(p)'
      BY <3>2, Zenon DEF HeaderFrom
    <3>4. QED
      BY <3>1, <3>3, Zenon DEF AtBulk
  <2>2. CASE ~(arg_index' < argc)
    <3>1. state' = "Ready" /\ state' # "BulkLen"
      BY <1>1, <2>2
    <3>2. arg_index' = argc' /\ Len(args') = argc'
      BY <1>1, <1>3, <1>6, <2>2
    <3>3. QED
      BY <1>0, <1>1, <1>3, <3>1, <3>2, Zenon DEF AtBulk
  <2>3. QED
    BY <2>1, <2>2
<1>10. state' # "ArrayLen" /\ state' # "Failed"
  BY <1>1
<1>11. AtFrame(i)'
  BY <1>7, <1>8, <1>9, <1>10, Zenon DEF AtFrame
<1>12. \A s \in Later : ReadUpTo(s, i)
  BY <1>4
<1>13. QED
  BY <1>1, <1>5, <1>7, <1>10, <1>11, <1>12, ReadsOn, Zenon

\* A complete command, as the reading has it.
LEMMA GivenIs ==
  ASSUME NEW S, executed \in Seq(S), executed' = (IF classify(args).verb = <<>> THEN executed
                                                  ELSE Append(executed, classify(args)))
  PROVE  Given(args) \in Seq({classify(args)}) /\ executed' = executed \o Given(args)
<1>1. PICK c : c = classify(args)
  OBVIOUS
<1>2. Given(args) = IF c.verb = <<>> THEN <<>> ELSE <<c>>
  BY <1>1, Zenon DEF Given
<1>3. executed' = IF c.verb = <<>> THEN executed ELSE Append(executed, c)
  BY <1>1, Zenon
<1>4. /\ <<>> \in Seq({c}) /\ <<c>> \in Seq({c})
      /\ executed \o <<>> = executed /\ executed \o <<c>> = Append(executed, c)
  OBVIOUS
<1>5. QED
  BY <1>1, <1>2, <1>3, <1>4, Zenon

LEMMA JoinsInTurn ==
  \A S, T, U : \A x \in Seq(S), y \in Seq(T), z \in Seq(U) :
    (x \o y) \o z = x \o (y \o z)
<1>1. SUFFICES ASSUME NEW S, NEW T, NEW U, NEW x \in Seq(S), NEW y \in Seq(T), NEW z \in Seq(U)
               PROVE  (x \o y) \o z = x \o (y \o z)
  OBVIOUS
<1>2. PICK V : V = S \cup T \cup U
  OBVIOUS
<1>3. x \in Seq(V) /\ y \in Seq(V) /\ z \in Seq(V)
  BY <1>2
<1>4. QED
  BY <1>3

LEMMA ReadsReady ==
  ASSUME ParserInv, ReadsTheSame, Ready
  PROVE  ReadsTheSame'
<1>0. PICK p : p = Place
  OBVIOUS
<1>1. /\ state = "Ready" /\ calling' = (buf # <<>>) /\ state' = "ArrayLen" /\ args' = <<>>
      /\ executed' = (IF classify(args).verb = <<>> THEN executed
                      ELSE Append(executed, classify(args)))
      /\ UNCHANGED <<buf, error, header, argc, arg_index, bulk_len, bulk_read, stream, received>>
  BY DEF Ready, In
<1>2. state # "Failed" /\ state # "ArrayLen" /\ state' # "Failed"
  BY <1>1
<1>3. BufferFits /\ \E i \in 1 .. Place : AtFrame(i) /\ \A s \in Later : ReadUpTo(s, i)
  BY <1>2, ReadsNow, Zenon
<1>4. PICK i \in 1 .. Place : AtFrame(i) /\ \A s \in Later : ReadUpTo(s, i)
  BY <1>3
<1>5. PICK j \in 1 .. Place : AtBulk(j) /\ \A s \in Later : InFrame(s, i, j)
  BY <1>2, <1>4, FrameNow, Zenon
<1>6. arg_index = argc /\ Len(args) = argc /\ j = p /\ header = <<>>
  BY <1>0, <1>1, <1>5, BulkNow, Zenon
<1>7. Place' = p /\ Later' = Later
  BY <1>0, <1>1, LaterStays DEF Place
<1>8. p \in Nat \ {0} /\ ~(p < 0) /\ p \in 1 .. Place'
  BY <1>0, <1>3, <1>7, PlaceIs
<1>9. BufferFits'
  <2>1. /\ Len(buf') <= received' /\ (~calling' => buf' = <<>>)
        /\ \A k \in 1 .. Len(buf') : buf'[k] = stream'[Place' - 1 + k]
    BY <1>0, <1>1, <1>3, <1>7, Zenon DEF BufferFits
  <2>2. QED
    BY <2>1, Zenon DEF BufferFits
<1>10. AtFrame(p)'
  <2>1. Len(header') = Place' - p /\ 1 .. Len(header') = {}
    BY <1>1, <1>6, <1>7, <1>8
  <2>2. HeaderFrom(p)'
    BY <2>1, Zenon DEF HeaderFrom
  <2>3. QED
    BY <1>1, <2>2, Zenon DEF AtFrame
<1>11. ASSUME NEW s \in Later
       PROVE  Follows(s, i) = p /\ Frame(s, i) = args
  <2>1. InFrame(s, i, j) /\ s \in Seq(Byte) /\ i \in 1 .. Len(s) + 1
    BY <1>3, <1>5, InReceived
  <2>2. PICK at : at = Starts(s, i)
    OBVIOUS
  <2>3. StartsAre(s, i, at, argc)
    BY <1>3, <2>1, <2>2, FrameIs, Zenon
  <2>4. Follows(s, i) = at[argc + 1] /\ Frame(s, i) = [k \in 1 .. argc |-> Bulk(s, at[k])]
    BY <2>1, <2>2, <2>3, FollowsIs
  <2>5. at[argc + 1] = p /\ \A k \in 1 .. argc : Bulk(s, at[k]) = args[k]
    BY <1>6, <2>1, <2>2, Zenon DEF InFrame
  <2>6. args = [k \in 1 .. argc |-> args[k]]
    BY <1>6, ParserTypes
  <2>7. [k \in 1 .. argc |-> Bulk(s, at[k])] = [k \in 1 .. argc |-> args[k]]
    BY <2>5, Zenon
  <2>8. QED
    BY <2>4, <2>5, <2>6, <2>7, Zenon
<1>12. ASSUME NEW s \in Later
       PROVE  ReadUpTo(s, p)'
  <2>1. PICK x : x = ReadingFrom(s)[p]
    OBVIOUS
  <2>2. s \in Seq(Byte) /\ i \in 1 .. Len(s) + 1 /\ p \in 1 .. Len(s) + 1
    BY <1>0, <1>3, InReceived, PlaceIs, Zenon
  <2>3. ReadingFrom(s)[i] = ReadAt(s, i, x)
    BY <1>11, <2>1, <2>2, ReadingIs, Zenon
  <2>4. /\ ReadAt(s, i, x).commands = Given(args) \o x.commands
        /\ ReadAt(s, i, x).end = x.end
    <3>1. Follows(s, i) = p /\ Frame(s, i) = args
      BY <1>11
    <3>2. ~(Follows(s, i) < 0)
      BY <1>8, <3>1, Zenon
    <3>3. /\ ReadAt(s, i, x).commands = Given(Frame(s, i)) \o x.commands
          /\ ReadAt(s, i, x).end = x.end
      BY <3>2, ReadAtIs, ZenonT(30)
    <3>4. QED
      BY <3>1, <3>3, Zenon
  <2>5. /\ Reading(s).commands = executed \o (Given(args) \o x.commands)
        /\ Reading(s).end = x.end
    BY <1>4, <2>3, <2>4, Zenon DEF ReadUpTo
  <2>6. executed \in Seq([verb : Seq(Byte), args : Seq(Seq(Byte)), known : BOOLEAN])
    BY Zenon DEF ParserInv, TypeOK
  <2>7. Given(args) \in Seq({classify(args)}) /\ executed' = executed \o Given(args)
    BY <1>1, <2>6, GivenIs, Zenon
  <2>8. x.commands \in Seq(Classified(s))
    BY <2>1, <2>2, CommandsAreSeq, Zenon
  <2>9. (executed \o Given(args)) \o x.commands = executed \o (Given(args) \o x.commands)
    <3>1. PICK A, B, D, g, y : /\ executed \in Seq(A) /\ g \in Seq(B) /\ y \in Seq(D)
                               /\ g = Given(args) /\ y = x.commands
      BY <2>6, <2>7, <2>8, Zenon
    <3>2. (executed \o g) \o y = executed \o (g \o y)
      <4>1. executed \in Seq(A) /\ g \in Seq(B) /\ y \in Seq(D)
        BY <3>1
      <4>2. QED
        BY <4>1, JoinsInTurn, SMTT(30)
    <3>3. QED
      BY <3>1, <3>2, Zenon
  <2>10. Reading(s).commands = executed' \o ReadingFrom(s)[p].commands
         /\ Reading(s).end = ReadingFrom(s)[p].end
    BY <2>1, <2>5, <2>7, <2>9, Zenon
  <2>11. QED
    BY <2>10, Zenon DEF ReadUpTo
<1>13. QED
  BY <1>2, <1>7, <1>8, <1>9, <1>10, <1>12, Zenon DEF ReadsTheSame

LEMMA ReadsNext == ParserInv /\ ReadsTheSame /\ [Next]_vars => ReadsTheSame'
<1>1. ASSUME UNCHANGED vars, ReadsTheSame
      PROVE  ReadsTheSame'
  <2>1. /\ UNCHANGED <<state, fields, stream>> /\ UNCHANGED <<stream, received>>
        /\ UNCHANGED <<stream, received, executed>>
        /\ state' = state /\ buf' = buf /\ calling' = calling /\ error' = error
        /\ received' = received /\ stream' = stream /\ executed' = executed
    BY <1>1 DEF vars
  <2>2. Place' = Place /\ Later' = Later
    BY <2>1, LaterStays DEF Place
  <2>3. BufferFits'
    BY <1>1, <2>1, <2>2, Zenon DEF ReadsTheSame, BufferFits
  <2>4. CASE state = "Failed"
    <3>1. ASSUME NEW s \in Later'
          PROVE  Refused(s)'
      BY <1>1, <2>1, <2>2, <2>4, Zenon DEF ReadsTheSame, Refused
    <3>2. QED
      BY <2>1, <2>3, <2>4, <3>1, Zenon DEF ReadsTheSame
  <2>5. CASE state # "Failed"
    <3>1. PICK i \in 1 .. Place : AtFrame(i) /\ \A s \in Later : ReadUpTo(s, i)
      BY <1>1, <2>5, ReadsNow, Zenon
    <3>2. ASSUME state = "Ready"
          PROVE  calling'
      <4>1. state # "ArrayLen"
        BY <3>2
      <4>2. QED
        BY <2>1, <3>1, <3>2, <4>1, FrameNow, BulkNow, Zenon
    <3>3. AtFrame(i)'
      BY <2>1, <2>2, <3>1, <3>2, FrameStays, Zenon
    <3>4. QED
      BY <2>1, <2>2, <2>3, <2>5, <3>1, <3>3, ReadsOn, Zenon
  <2>6. QED
    BY <2>4, <2>5
<1>2. QED
  BY <1>1, ReadsRecv, ReadsHeaderNeedsMore, ReadsHeaderFails, ReadsArrayLen, ReadsBulkLen,
     ReadsBulkLenThrows, ReadsPayload, ReadsTrailerNeedsMore, ReadsTrailerCr,
     ReadsTrailerLf, ReadsTrailerFails, ReadsReady, Zenon DEF Next, consume, Over

\* A line that has not ended, and is not too long, ends in what is to come.
LEMMA LineGoesOn ==
  ASSUME ParserInv, BufferFits, buf = <<>>, NEW b \in 1 .. Place, HeaderFrom(b),
         NEW mark, NEW max
  PROVE  AfterLine(Now, b, mark, max) = More
<1>1. Now \in Later /\ Len(Now) = received
  BY NowIs, Zenon
<1>2. Now \in Seq(Byte) /\ \A k \in 1 .. received : Now[k] = stream[k]
  BY <1>1, LaterIs, Zenon
<1>3. Place = received + 1 /\ received \in Nat /\ b \in Nat \ {0} /\ b <= received + 1
  <2>1. Place = received + 1 /\ received \in Nat
    BY PlaceIs, Zenon
  <2>2. QED
    BY <2>1
<1>4. /\ Len(header) = received + 1 - b
      /\ \A k \in 1 .. Len(header) : header[k] = stream[b - 1 + k] /\ header[k] # LF
  <2>1. PICK p : p = Place /\ p = received + 1
    BY <1>3
  <2>2. Len(header) = p - b
    BY <2>1, Zenon DEF HeaderFrom
  <2>3. \A k \in 1 .. Len(header) : header[k] = stream[b - 1 + k] /\ header[k] # LF
    BY Zenon DEF HeaderFrom
  <2>4. Len(header) = received + 1 - b
    BY <1>3, <2>1, <2>2
  <2>5. QED
    BY <2>3, <2>4, Zenon
<1>5. ASSUME NEW q \in b .. received + 1 - 1
      PROVE  Now[q] # LF
  <2>1. PICK k : k = q - b + 1
    OBVIOUS
  <2>2. k \in 1 .. Len(header) /\ b - 1 + k = q /\ q \in 1 .. received
    BY <1>3, <1>4, <2>1
  <2>3. QED
    BY <1>2, <1>4, <2>2, Zenon
<1>6. LineEnd(Now, b) = received + 1
  <2>1. PICK e : e = received + 1
    OBVIOUS
  <2>2. /\ b \in 1 .. Len(Now) + 1 /\ e \in b .. Len(Now) + 1 /\ ~(e <= Len(Now))
        /\ \A q \in b .. e - 1 : Now[q] # LF
    BY <1>1, <1>3, <1>5, <2>1
  <2>3. LineEnd(Now, b) = e
    BY <1>2, <2>2, LineEndAt, Zenon
  <2>4. QED
    BY <2>1, <2>3, Zenon
<1>7. Len(header) <= MaxHeader
  BY Zenon DEF ParserInv, Limited
<1>8. PICK e : e = LineEnd(Now, b)
  OBVIOUS
<1>9. ~(e - b > MaxHeader) /\ e > Len(Now)
  BY <1>1, <1>3, <1>4, <1>6, <1>7, <1>8, ParserTypes, SMTT(30)
<1>10. QED
  BY <1>8, <1>9, Zenon DEF AfterLine

\* Between two calls, all has been given that there is.
LEMMA GivenBetweenCalls ==
  ASSUME ParserInv, ReadsTheSame, ~calling
  PROVE  SameAsWhole
<1>1. Now \in Later /\ Len(Now) = received
  BY NowIs, Zenon
<1>2. Whole = Reading(Now)
  BY Zenon DEF Whole, Now
<1>3. More \in Ended /\ More < 0
  BY DEF Ended, More
<1>4. CASE state = "Failed"
  <2>1. Refused(Now)
    BY <1>1, <1>4, Zenon DEF ReadsTheSame
  <2>2. QED
    BY <1>2, <1>4, <2>1, Zenon DEF Refused, SameAsWhole
<1>5. CASE state # "Failed"
  <2>1. BufferFits /\ \E i \in 1 .. Place : AtFrame(i) /\ \A s \in Later : ReadUpTo(s, i)
    BY <1>5, ReadsNow, Zenon
  <2>2. PICK i \in 1 .. Place : AtFrame(i) /\ \A s \in Later : ReadUpTo(s, i)
    BY <2>1
  <2>3. buf = <<>> /\ Place = received + 1 /\ ReadUpTo(Now, i)
    BY <1>1, <2>1, <2>2, PlaceIs, Zenon DEF BufferFits
  <2>4. Reading(Now).commands = executed /\ Reading(Now).end = More
    <3>1. CASE state = "ArrayLen"
      <4>1. AfterLine(Now, i, Star, kMaxArgs) = More
        BY <2>1, <2>2, <2>3, <3>1, FrameNow, LineGoesOn, Zenon
      <4>2. QED
        BY <1>1, <1>3, <2>1, <2>3, <4>1, EndsInLine, Zenon
    <3>2. CASE state # "ArrayLen"
      <4>1. PICK j \in 1 .. Place : AtBulk(j) /\ \A s \in Later : InFrame(s, i, j)
        BY <2>2, <3>2, FrameNow, Zenon
      <4>2. InFrame(Now, i, j)
        BY <1>1, <4>1
      <4>3. CASE state = "BulkLen"
        <5>1. AfterLine(Now, j, Dollar, max_bulk_len) = More
          BY <2>1, <2>3, <4>1, <4>3, BulkNow, LineGoesOn, Zenon
        <5>2. AfterBulk(Now, j) = More
          BY <1>3, <5>1, Zenon DEF AfterBulk
        <5>3. arg_index < argc
          BY <4>3 DEF ParserInv, HoldsAsFar
        <5>4. QED
          BY <1>1, <1>3, <2>1, <2>3, <4>2, <5>2, <5>3, EndsInBulk, ZenonT(30)
      <4>4. CASE state = "Ready"
        BY <4>1, <4>4, BulkNow, Zenon
      <4>5. CASE state \in {"Payload", "Trailer", "TrailerLf"}
        <5>1. state \notin {"BulkLen", "Ready"} /\ arg_index < argc
          BY <4>5 DEF ParserInv, HoldsAsFar
        <5>2. PICK h \in 1 .. Place : HasRead(h) /\ \A s \in Later : InBulk(s, j, h)
          BY <4>1, <5>1, BulkNow, Zenon
        <5>3. AfterEol(Now, h + bulk_len) = More
          <6>1. PICK q : q = h + bulk_len
            OBVIOUS
          <6>2. /\ bulk_len \in Nat /\ bulk_read \in Nat /\ bulk_read <= bulk_len
                /\ received \in Nat /\ Place = received + 1 /\ h \in Nat
            BY <2>1, <2>3, PlaceIs, ParserTypes
          <6>3. CASE state = "TrailerLf"
            <7>1. Place = q + 1 /\ Now[q] = CR
              BY <1>1, <2>1, <5>2, <6>1, <6>3, TrailerAt
            <7>2. q = Len(Now) /\ ~(q > Len(Now)) /\ CR # LF
              BY <1>1, <6>1, <6>2, <7>1 DEF CR, LF
            <7>3. QED
              BY <6>1, <7>1, <7>2, Zenon DEF AfterEol
          <6>4. CASE state # "TrailerLf"
            <7>1. Place = h + bulk_read + 0
              BY <5>2, <6>4 DEF HasRead
            <7>2. q > Len(Now)
              BY <1>1, <6>1, <6>2, <7>1
            <7>3. QED
              BY <6>1, <7>2, Zenon DEF AfterEol
          <6>5. QED
            BY <6>3, <6>4
        <5>4. InBulk(Now, j, h)
          BY <1>1, <5>2
        <5>5. AfterBulk(Now, j) = More
          BY <1>1, <2>1, <5>3, <5>4, BulkAt, Zenon
        <5>6. QED
          BY <1>1, <1>3, <2>1, <2>3, <4>2, <5>1, <5>5, EndsInBulk, ZenonT(30)
      <4>6. state \in {"BulkLen", "Ready", "Payload", "Trailer", "TrailerLf"}
        BY <1>5, <3>2 DEF ParserInv, TypeOK
      <4>7. QED
        BY <4>3, <4>4, <4>5, <4>6
    <3>3. QED
      BY <3>1, <3>2
  <2>5. QED
    BY <1>2, <1>5, <2>4, Zenon DEF SameAsWhole
<1>6. QED
  BY <1>4, <1>5

\* Parser::consume, fed by handle_readable, gives execute_command the commands
\* of the bytes received, in order and byte for byte, however recv cuts them
\* up; it asks for more only when it has given all of them, and it fails only
\* on bytes that nothing valid begins with.
THEOREM ReadsLikeWhole == Spec => []SameAsWhole
<1>1. ReadsTheSame /\ ParserInv => SameAsWhole
  BY GivenBetweenCalls DEF SameAsWhole
<1>2. QED
  BY <1>1, AlwaysParserInv, ReadsInit, ReadsNext, PTL DEF Spec
-----------------------------------------------------------------------------
(***************************************************************************)
(* The log: base64, group by group.  A group of the input is a word of 24  *)
(* bits; cut into sixes it is four characters, into eights three bytes.    *)
(***************************************************************************)
\* A character of the alphabet stands for one value, and a value for one.
LEMMA ValueIs ==
  ASSUME NEW c \in Byte
  PROVE  /\ K!base64_value(c) \in {-1, -2} \cup (0 .. 63)
         /\ K!base64_value(c) = -2 <=> c = 61
         /\ c \in 65 .. 90 => K!base64_value(c) = c - 65
         /\ c \in 97 .. 122 => K!base64_value(c) = c - 97 + 26
         /\ c \in 48 .. 57 => K!base64_value(c) = c - 48 + 52
         /\ c = 43 => K!base64_value(c) = 62
         /\ c = 47 => K!base64_value(c) = 63
BY SMTT(30) DEF K!base64_value, K!Pad, Byte

LEMMA LetterIs ==
  ASSUME NEW v \in 0 .. 63, NEW c, c = K!kBase64Alphabet[v]
  PROVE  \/ v \in 0 .. 25 /\ c = 65 + v
         \/ v \in 26 .. 51 /\ c = 97 + v - 26
         \/ v \in 52 .. 61 /\ c = 48 + v - 52
         \/ v = 62 /\ c = 43
         \/ v = 63 /\ c = 47
<1>1. c = (CASE v \in 0 .. 25  -> 65 + v
             [] v \in 26 .. 51 -> 97 + v - 26
             [] v \in 52 .. 61 -> 48 + v - 52
             [] v = 62 -> 43
             [] v = 63 -> 47)
  BY SMT DEF K!kBase64Alphabet
<1>2. QED
  BY <1>1, SMTT(30)

LEMMA LetterValue ==
  ASSUME NEW v \in 0 .. 63
  PROVE  /\ K!kBase64Alphabet[v] \in Byte
         /\ K!base64_value(K!kBase64Alphabet[v]) = v
<1>1. PICK c : c = K!kBase64Alphabet[v]
  OBVIOUS
<1>2. \/ v \in 0 .. 25 /\ c = 65 + v
      \/ v \in 26 .. 51 /\ c = 97 + v - 26
      \/ v \in 52 .. 61 /\ c = 48 + v - 52
      \/ v = 62 /\ c = 43
      \/ v = 63 /\ c = 47
  BY <1>1, LetterIs
<1>3. c \in Byte
  BY <1>2, SMT DEF Byte
<1>4. K!base64_value(c) = v
  BY <1>2, <1>3, ValueIs, SMT
<1>5. QED
  BY <1>1, <1>3, <1>4

LEMMA ValueLetter ==
  ASSUME NEW c \in Byte, NEW v, v = K!base64_value(c), v # -1, v # -2
  PROVE  v \in 0 .. 63 /\ K!kBase64Alphabet[v] = c /\ c # 61
<1>1. \/ c \in 65 .. 90 /\ v = c - 65
      \/ c \in 97 .. 122 /\ v = c - 97 + 26
      \/ c \in 48 .. 57 /\ v = c - 48 + 52
      \/ c = 43 /\ v = 62
      \/ c = 47 /\ v = 63
  BY SMTT(30) DEF K!base64_value, K!Pad, Byte
<1>2. v \in 0 .. 63 /\ c # 61
  BY <1>1, SMTT(30)
<1>3. PICK d : d = K!kBase64Alphabet[v]
  OBVIOUS
<1>4. d = c
  BY <1>1, <1>2, <1>3, LetterIs, SMT
<1>5. QED
  BY <1>2, <1>3, <1>4

\* A word, its sixes and its bytes: what is cut up can be put together.
Six(w, j) == (w \div K!Sixth[j]) % 64
Eight(w, b) == (w \div K!Eighth[b]) % 256
OfSixes(a, b, c, d) == a * 262144 + b * 4096 + c * 64 + d
OfEights(a, b, c) == a * 65536 + b * 256 + c
IsWord(w) == w \in Nat /\ w < 16777216

LEMMA SixesOf ==
  ASSUME NEW w, IsWord(w),
         NEW a, a = Six(w, 1), NEW b, b = Six(w, 2), NEW c, c = Six(w, 3), NEW d, d = Six(w, 4)
  PROVE  {a, b, c, d} \subseteq 0 .. 63 /\ OfSixes(a, b, c, d) = w
<1>0. /\ w \in Nat /\ w < 16777216
      /\ a = (w \div 262144) % 64 /\ b = (w \div 4096) % 64
      /\ c = (w \div 64) % 64 /\ d = w % 64
  BY SMT DEF IsWord, Six, K!Sixth
<1> DEFINE q1 == w \div 64
           q2 == w \div 4096
           q3 == w \div 262144
<1>1. q1 \in Nat /\ q2 \in Nat /\ q3 \in Nat /\ q3 < 64
  BY <1>0, SMT
<1>2. d = w - 64 * q1 /\ d \in 0 .. 63
  BY <1>0, SMT
<1>3. q1 \div 64 = q2 /\ q2 \div 64 = q3
  BY <1>0, SMT
<1> HIDE DEF q1, q2, q3
<1>4. c = q1 - 64 * q2 /\ c \in 0 .. 63
  BY <1>0, <1>1, <1>3, SMT DEF q1
<1>5. b = q2 - 64 * q3 /\ b \in 0 .. 63
  BY <1>0, <1>1, <1>3, SMT DEF q2
<1>6. a = q3 /\ a \in 0 .. 63
  BY <1>0, <1>1, SMT DEF q3
<1>7. a * 262144 + b * 4096 + c * 64 + d = w
  BY <1>0, <1>1, <1>2, <1>4, <1>5, <1>6, SMT
<1>8. QED
  BY <1>2, <1>4, <1>5, <1>6, <1>7, SMT DEF OfSixes

SixesAre(w, a, b, c, d) ==
  IsWord(w) /\ Six(w, 1) = a /\ Six(w, 2) = b /\ Six(w, 3) = c /\ Six(w, 4) = d

LEMMA SixesTogether ==
  ASSUME NEW a \in 0 .. 63, NEW b \in 0 .. 63, NEW c \in 0 .. 63, NEW d \in 0 .. 63
  PROVE  SixesAre(OfSixes(a, b, c, d), a, b, c, d)
<1>0. PICK w : w = a * 262144 + b * 4096 + c * 64 + d
  OBVIOUS
<1>1. w \in Nat /\ w < 16777216
  BY <1>0, SMT
<1>2. w \div 262144 = a /\ w \div 4096 = a * 64 + b
      /\ w \div 64 = (a * 64 + b) * 64 + c
  BY <1>0, SMTT(60)
<1>3. a % 64 = a /\ (a * 64 + b) % 64 = b
  BY SMT
<1>4. ((a * 64 + b) * 64 + c) % 64 = c
  BY SMT
<1>5. w % 64 = d
  BY <1>0, SMT
<1>6. SixesAre(w, a, b, c, d)
  BY <1>1, <1>2, <1>3, <1>4, <1>5, SMT DEF SixesAre, IsWord, Six, K!Sixth
<1>7. w = OfSixes(a, b, c, d)
  BY <1>0, SMT DEF OfSixes
<1>8. QED
  BY <1>6, <1>7, Zenon

LEMMA EightsOf ==
  ASSUME NEW w, IsWord(w),
         NEW a, a = Eight(w, 1), NEW b, b = Eight(w, 2), NEW c, c = Eight(w, 3)
  PROVE  {a, b, c} \subseteq Byte /\ OfEights(a, b, c) = w
<1>0. /\ w \in Nat /\ w < 16777216
      /\ a = (w \div 65536) % 256 /\ b = (w \div 256) % 256 /\ c = w % 256
  BY SMT DEF IsWord, Eight, K!Eighth
<1> DEFINE q1 == w \div 256
           q2 == w \div 65536
<1>1. q1 \in Nat /\ q2 \in Nat /\ q2 < 256
  BY <1>0, SMT
<1>2. c = w - 256 * q1 /\ c \in 0 .. 255
  BY <1>0, SMT
<1>3. q1 \div 256 = q2
  BY <1>0, SMT
<1> HIDE DEF q1, q2
<1>4. b = q1 - 256 * q2 /\ b \in 0 .. 255
  BY <1>0, <1>1, <1>3, SMT DEF q1
<1>5. a = q2 /\ a \in 0 .. 255
  BY <1>0, <1>1, SMT DEF q2
<1>6. a * 65536 + b * 256 + c = w
  BY <1>0, <1>1, <1>2, <1>4, <1>5, SMTT(30)
<1>7. QED
  BY <1>2, <1>4, <1>5, <1>6, SMT DEF Byte, OfEights

LEMMA EightsTogether ==
  ASSUME NEW a \in Byte, NEW b \in Byte, NEW c \in Byte,
         NEW w, w = OfEights(a, b, c)
  PROVE  IsWord(w) /\ Eight(w, 1) = a /\ Eight(w, 2) = b /\ Eight(w, 3) = c
<1>0. w = a * 65536 + b * 256 + c
  BY DEF OfEights
<1>1. w \in Nat /\ w < 16777216
  BY <1>0, SMT DEF Byte
<1>2. w \div 65536 = a /\ w \div 256 = a * 256 + b
  BY <1>0, SMTT(60) DEF Byte
<1>3. a % 256 = a /\ (a * 256 + b) % 256 = b
  BY SMT DEF Byte
<1>4. w % 256 = c
  BY <1>0, SMT DEF Byte
<1>5. QED
  BY <1>1, <1>2, <1>3, <1>4, SMT DEF IsWord, Eight, K!Eighth

\* Groups of three.
LEMMA ThirdIs ==
  ASSUME NEW g \in Nat, NEW b \in 1 .. 3, NEW k, k = 3 * g + b
  PROVE  (k - 1) \div 3 = g /\ (k - 1) % 3 = b - 1
BY SMTT(30)

LEMMA ThirdsOf ==
  ASSUME NEW k \in Nat \ {0}
  PROVE  \E g \in Nat : \E b \in 1 .. 3 : k = 3 * g + b
<1> DEFINE g == (k - 1) \div 3
           b == ((k - 1) % 3) + 1
<1>1. g \in Nat /\ b \in 1 .. 3 /\ k = 3 * g + b
  BY SMTT(30)
<1> HIDE DEF g, b
<1>2. QED
  BY <1>1

\* n sequences of three, the last one perhaps shorter.
Threes(S, seqs, n) ==
  /\ seqs \in Seq(Seq(S)) /\ n = Len(seqs)
  /\ \A i \in 1 .. n : Len(seqs[i]) <= 3 /\ (i < n => Len(seqs[i]) = 3)

\* Put together they are a sequence in which each has its place.
Joined(S, f, seqs, n) ==
  /\ f \in Seq(S) /\ Len(f) = 3 * (n - 1) + Len(seqs[n])
  /\ \A i \in 1 .. n : \A b \in 1 .. Len(seqs[i]) : f[3 * (i - 1) + b] = seqs[i][b]

\* The sequence h of what is before each of them, and itself, solves FlattenSeq's
\* equation, and there is no other solution.
LEMMA FlattenIs ==
  ASSUME NEW S, NEW seqs, NEW n \in Nat \ {0}, Threes(S, seqs, n)
  PROVE  Joined(S, K!FlattenSeq(seqs), seqs, n)
<1> DEFINE l == [i \in 1 .. n |-> Len(seqs[i])]
           size == [i \in 1 .. n |-> 3 * (i - 1) + l[i]]
           at == [k \in 1 .. size[n] |-> seqs[(k - 1) \div 3 + 1][((k - 1) % 3) + 1]]
           h == [i \in 1 .. n |-> [k \in 1 .. size[i] |-> at[k]]]
           Eq(f) == f = [i \in 1 .. n |-> IF i = 1 THEN seqs[i] ELSE f[i - 1] \o seqs[i]]
<1> HIDE DEF size, at, h
<1>1. ASSUME NEW i \in 1 .. n
      PROVE  /\ seqs[i] \in Seq(S) /\ l[i] = Len(seqs[i])
             /\ l[i] \in Nat /\ l[i] <= 3 /\ (i < n => l[i] = 3)
  BY SeqIsFunction DEF Threes
<1> HIDE DEF l
<1>2. n \in 1 .. n
  OBVIOUS
<1>3. ASSUME NEW i \in 1 .. n
      PROVE  l[i] \in Nat /\ l[i] <= 3 /\ (i < n => l[i] = 3)
  BY <1>1
<1>4. ASSUME NEW i \in 1 .. n
      PROVE  size[i] = 3 * (i - 1) + l[i] /\ size[i] \in Nat /\ size[i] <= size[n]
  <2>1. size[i] = 3 * (i - 1) + l[i] /\ size[n] = 3 * (n - 1) + l[n]
    BY <1>2 DEF size
  <2>2. QED
    BY <1>2, <1>3, <2>1
<1>5. ASSUME NEW i \in 1 .. n, NEW b \in 1 .. l[i]
      PROVE  /\ 3 * (i - 1) + b \in 1 .. size[i]
             /\ at[3 * (i - 1) + b] = seqs[i][b]
  <2>1. b \in 1 .. 3 /\ i - 1 \in Nat /\ size[i] = 3 * (i - 1) + l[i]
        /\ l[i] \in Nat
    BY <1>3, <1>4
  <2>2. PICK k : k = 3 * (i - 1) + b
    OBVIOUS
  <2>3. k \in 1 .. size[i] /\ k \in 1 .. size[n]
    BY <1>2, <1>4, <2>1, <2>2
  <2>4. (k - 1) \div 3 = i - 1 /\ (k - 1) % 3 = b - 1
    BY <2>1, <2>2, ThirdIs, ZenonT(30)
  <2>5. at[k] = seqs[(k - 1) \div 3 + 1][((k - 1) % 3) + 1]
    BY <2>3 DEF at
  <2>6. (i - 1) + 1 = i /\ (b - 1) + 1 = b
    BY <2>1
  <2>7. QED
    BY <2>2, <2>3, <2>4, <2>5, <2>6
<1>6. ASSUME NEW i \in 1 .. n, NEW k \in 1 .. size[i]
      PROVE  \E j \in 1 .. i : \E b \in 1 .. l[j] : k = 3 * (j - 1) + b
  <2>1. k \in Nat \ {0} /\ k <= size[i] /\ size[i] = 3 * (i - 1) + l[i]
    BY <1>4
  <2>2. PICK g \in Nat, b \in 1 .. 3 : k = 3 * g + b
    BY <2>1, ThirdsOf
  <2>3. g + 1 \in 1 .. i
    BY <1>3, <2>1, <2>2
  <2>4. b \in 1 .. l[g + 1]
    <3>1. CASE g + 1 = i
      BY <1>3, <2>1, <2>2, <3>1
    <3>2. CASE g + 1 # i
      BY <1>3, <2>2, <2>3, <3>2
    <3>3. QED
      BY <3>1, <3>2
  <2>5. (g + 1) - 1 = g
    OBVIOUS
  <2>6. QED
    BY <2>2, <2>3, <2>4, <2>5
<1>7. ASSUME NEW i \in 1 .. n
      PROVE  /\ h[i] \in Seq(S) /\ Len(h[i]) = size[i]
             /\ \A k \in 1 .. size[i] : h[i][k] = at[k]
  <2>1. ASSUME NEW k \in 1 .. size[i]
        PROVE  at[k] \in S
    <3>1. PICK j \in 1 .. i : \E b \in 1 .. l[j] : k = 3 * (j - 1) + b
      BY <1>6
    <3>2. PICK b \in 1 .. l[j] : k = 3 * (j - 1) + b
      BY <3>1
    <3>3. j \in 1 .. n
      OBVIOUS
    <3>4. seqs[j][b] \in S
      BY <1>1, <3>3, SeqIsFunction
    <3>5. QED
      BY <1>5, <3>2, <3>3, <3>4
  <2>2. h[i] = [k \in 1 .. size[i] |-> at[k]]
    BY DEF h
  <2>3. size[i] \in Nat
    BY <1>4
  <2>4. QED
    BY <2>1, <2>2, <2>3
<1>8. h[1] = seqs[1]
  <2>1. 1 \in 1 .. n /\ size[1] = l[1] /\ l[1] \in Nat
    BY <1>3, <1>4
  <2>2. ASSUME NEW k \in 1 .. l[1]
        PROVE  at[k] = seqs[1][k]
    <3>1. at[3 * (1 - 1) + k] = seqs[1][k]
      BY <1>5, <2>1
    <3>2. 3 * (1 - 1) + k = k
      BY <2>1
    <3>3. QED
      BY <3>1, <3>2
  <2>3. seqs[1] \in Seq(S) /\ Len(seqs[1]) = l[1]
    BY <1>1, <2>1
  <2>4. /\ h[1] \in Seq(S) /\ Len(h[1]) = l[1]
        /\ \A k \in 1 .. l[1] : h[1][k] = seqs[1][k]
    BY <1>7, <2>1, <2>2
  <2>5. QED
    BY <2>3, <2>4, SeqEqual
<1>9. ASSUME NEW i \in 1 .. n, i # 1
      PROVE  h[i] = h[i - 1] \o seqs[i]
  <2> DEFINE s == h[i - 1]
             t == seqs[i]
  <2>1. i - 1 \in 1 .. n /\ i - 1 < n
    BY <1>9
  <2>2. s \in Seq(S) /\ Len(s) = 3 * (i - 1) /\ Len(s) \in Nat
        /\ \A k \in 1 .. Len(s) : s[k] = at[k]
    <3>1. size[i - 1] = 3 * (i - 1)
      BY <1>3, <1>4, <2>1
    <3>2. QED
      BY <1>4, <1>7, <2>1, <3>1
  <2>3. t \in Seq(S) /\ Len(t) \in Nat /\ size[i] = Len(s) + Len(t)
        /\ \A b \in 1 .. Len(t) : t[b] = at[Len(s) + b]
    <3>1. t \in Seq(S) /\ Len(t) = l[i] /\ l[i] \in Nat
      BY <1>1
    <3>2. size[i] = 3 * (i - 1) + l[i]
      BY <1>4
    <3>3. \A b \in 1 .. l[i] : t[b] = at[3 * (i - 1) + b]
      BY <1>5
    <3> HIDE DEF s, t
    <3>4. QED
      BY <2>2, <3>1, <3>2, <3>3
  <2> HIDE DEF s, t
  <2>4. /\ s \o t \in Seq(S) /\ Len(s \o t) = size[i]
        /\ \A k \in 1 .. size[i] : (s \o t)[k] = IF k <= Len(s) THEN s[k] ELSE t[k - Len(s)]
    BY <2>2, <2>3, ConcatProperties, ZenonT(30)
  <2>5. ASSUME NEW k \in 1 .. size[i]
        PROVE  (s \o t)[k] = at[k]
    <3>1. CASE k <= Len(s)
      BY <2>2, <2>4, <3>1
    <3>2. CASE ~(k <= Len(s))
      <4>1. k - Len(s) \in 1 .. Len(t) /\ Len(s) + (k - Len(s)) = k
        BY <2>2, <2>3, <3>2
      <4>2. QED
        BY <2>3, <2>4, <3>2, <4>1
    <3>3. QED
      BY <3>1, <3>2
  <2>6. h[i] = s \o t
    <3> DEFINE u == s \o t
               hi == h[i]
    <3>1. hi \in Seq(S) /\ u \in Seq(S) /\ Len(hi) = size[i] /\ Len(u) = size[i]
          /\ \A k \in 1 .. size[i] : hi[k] = u[k]
      BY <1>7, <2>4, <2>5
    <3> HIDE DEF u, hi
    <3>2. hi = u
      BY <3>1, SeqEqual
    <3>3. QED
      BY <3>2 DEF hi, u
  <2>7. QED
    BY <2>6 DEF s, t
<1>10. Eq(h)
  <2>1. h = [i \in 1 .. n |-> h[i]]
    BY DEF h
  <2>2. \A i \in 1 .. n : h[i] = IF i = 1 THEN seqs[i] ELSE h[i - 1] \o seqs[i]
    BY <1>8, <1>9
  <2>3. QED
    BY <2>1, <2>2
<1> DEFINE v == CHOOSE f : Eq(f)
<1>11. K!FlattenSeq(seqs) = v[n]
  BY DEF Threes, K!FlattenSeq
<1>12. Eq(v)
  BY <1>10, ZenonT(30)
<1> HIDE DEF v
<1>13. /\ v[1] = seqs[1]
       /\ \A i \in 1 .. n : i # 1 => v[i] = v[i - 1] \o seqs[i]
  <2>1. v = [i \in 1 .. n |-> IF i = 1 THEN seqs[i] ELSE v[i - 1] \o seqs[i]]
    BY <1>12
  <2>2. \A i \in 1 .. n : v[i] = IF i = 1 THEN seqs[i] ELSE v[i - 1] \o seqs[i]
    BY <2>1, Zenon
  <2>3. 1 \in 1 .. n
    BY <1>2
  <2>4. QED
    BY <2>2, <2>3, Zenon
<1>14. v[n] = h[n]
  <2> DEFINE U == {i \in 1 .. n : v[i] # h[i]}
  <2>1. SUFFICES ASSUME U # {} PROVE FALSE
    BY <1>2
  <2>2. PICK i \in U : \A j \in U : i <= j
    <3>1. U \in SUBSET Nat
      OBVIOUS
    <3> HIDE DEF U
    <3>2. QED
      BY <2>1, <3>1, LeastNatural
  <2>3. i # 1 /\ i - 1 \in 1 .. n
    BY <1>8, <1>13, <2>2
  <2>4. v[i - 1] = h[i - 1]
    BY <2>2, <2>3
  <2>5. QED
    BY <1>9, <1>13, <2>2, <2>3, <2>4
<1>15. QED
  <2>1. K!FlattenSeq(seqs) = h[n]
    BY <1>11, <1>14
  <2>2. h[n] \in Seq(S) /\ Len(h[n]) = 3 * (n - 1) + Len(seqs[n])
    BY <1>1, <1>2, <1>4, <1>7, ZenonT(30)
  <2>3. ASSUME NEW i \in 1 .. n, NEW b \in 1 .. Len(seqs[i])
        PROVE  h[n][3 * (i - 1) + b] = seqs[i][b]
    <3>1. b \in 1 .. l[i]
      BY <1>1
    <3>2. 3 * (i - 1) + b \in 1 .. size[i] /\ at[3 * (i - 1) + b] = seqs[i][b]
      BY <1>5, <3>1
    <3>3. 3 * (i - 1) + b \in 1 .. size[n]
      BY <1>2, <1>4, <3>2
    <3>4. QED
      BY <1>2, <1>7, <3>2, <3>3
  <2>4. QED
    BY <2>1, <2>2, <2>3, Zenon DEF Joined

\* The word of a group is made of its bytes, and of zeros where there are none.
MadeOf(w, s, g, a, b, c) ==
  /\ w = OfEights(a, b, c)
  /\ a = s[3 * g + 1]
  /\ b = IF 3 * g + 2 <= Len(s) THEN s[3 * g + 2] ELSE 0
  /\ c = IF 3 * g + 3 <= Len(s) THEN s[3 * g + 3] ELSE 0

LEMMA WordIs ==
  ASSUME NEW s \in Seq(Byte), NEW g \in Nat, 3 * g + 1 <= Len(s)
  PROVE  \E a, b, c \in Byte : MadeOf(K!Word(s, g), s, g, a, b, c)
<1> DEFINE n == Len(s)
           w == K!Word(s, g)
<1> DEFINE byte(i) == IF i <= n THEN s[i] ELSE 0
<1>1. n \in Nat /\ \A i \in 1 .. n : s[i] \in Byte
  BY SeqIsFunction
<1>2. 0 \in Byte
  BY SMT DEF Byte
<1>3. ASSUME NEW i \in Nat \ {0}
      PROVE  byte(i) \in Byte
  BY <1>1, <1>2, SMT
<1>4. PICK a, b, c \in Byte :
        a = byte(3 * g + 1) /\ b = byte(3 * g + 2) /\ c = byte(3 * g + 3)
  <2>1. 3 * g + 1 \in Nat \ {0} /\ 3 * g + 2 \in Nat \ {0} /\ 3 * g + 3 \in Nat \ {0}
    BY SMT
  <2>2. byte(3 * g + 1) \in Byte /\ byte(3 * g + 2) \in Byte /\ byte(3 * g + 3) \in Byte
    BY <1>3, <2>1, Zenon
  <2>3. QED
    BY <2>2, Zenon
<1>5. w = byte(3 * g + 1) * 65536 + byte(3 * g + 2) * 256 + byte(3 * g + 3)
  BY SMT DEF K!Word, K!Three
<1>6. w = OfEights(a, b, c)
  BY <1>4, <1>5, SMT DEF OfEights
<1>7. a = s[3 * g + 1] /\ b = (IF 3 * g + 2 <= Len(s) THEN s[3 * g + 2] ELSE 0)
      /\ c = (IF 3 * g + 3 <= Len(s) THEN s[3 * g + 3] ELSE 0)
  BY <1>1, <1>4, SMT
<1>8. QED
  BY <1>6, <1>7, Zenon DEF MadeOf

\* A text e of m groups is what s, of n bytes, is encoded to.
EncodedAs(s, n, e, m) ==
  /\ m \in Nat /\ DOMAIN e = 1 .. 4 * m /\ Len(e) = 4 * m
  /\ \A g \in 0 .. m - 1 :
       /\ 3 * g + 1 <= n
       /\ 3 * g + 3 > n => g = m - 1
       /\ \A j \in 1 .. 4 :
            e[4 * g + j] = IF 3 * g + j > n + 1 THEN K!Pad
                           ELSE K!kBase64Alphabet[Six(K!Word(s, g), j)]

LEMMA EncodedIs ==
  ASSUME NEW s, NEW n \in Nat, n = Len(s), NEW e, e = K!base64_encode(s),
         NEW m, m = (n + 2) \div 3
  PROVE  EncodedAs(s, n, e, m)
<1>1. m \in Nat
  BY SMT
<1>2. /\ DOMAIN e = 1 .. 4 * m
      /\ \A k \in 1 .. 4 * m : \A g, j : g = (k - 1) \div 4 /\ j = (k - 1) % 4 =>
           e[k] = IF 3 * g + j > n THEN K!Pad
                  ELSE K!kBase64Alphabet[(K!Word(s, g) \div K!Sixth[j + 1]) % 64]
  <2>1. ((Len(s) + 2) \div 3) * 4 = 4 * m
    BY <1>1, SMT
  <2>2. e = [k \in 1 .. ((Len(s) + 2) \div 3) * 4 |->
               IF 3 * ((k - 1) \div 4) + ((k - 1) % 4) > Len(s) THEN K!Pad
               ELSE K!kBase64Alphabet[(K!Word(s, (k - 1) \div 4)
                                         \div K!Sixth[((k - 1) % 4) + 1]) % 64]]
    BY Zenon DEF K!base64_encode
  <2>3. /\ DOMAIN e = 1 .. ((Len(s) + 2) \div 3) * 4
        /\ \A k \in 1 .. ((Len(s) + 2) \div 3) * 4 :
             e[k] = IF 3 * ((k - 1) \div 4) + ((k - 1) % 4) > Len(s) THEN K!Pad
                    ELSE K!kBase64Alphabet[(K!Word(s, (k - 1) \div 4)
                                              \div K!Sixth[((k - 1) % 4) + 1]) % 64]
    BY <2>2, Zenon
  <2>4. QED
    BY <2>1, <2>3, ZenonT(30)
<1>3. Len(e) = 4 * m
  <2>1. 4 * m \in Nat
    BY <1>1, SMT
  <2>2. QED
    BY <1>2, <2>1
<1>4. ASSUME NEW g \in 0 .. m - 1
      PROVE  3 * g + 1 <= n /\ (3 * g + 3 > n => g = m - 1)
  BY <1>1, SMTT(30)
<1>5. ASSUME NEW g \in 0 .. m - 1, NEW j \in 1 .. 4
      PROVE  e[4 * g + j] = IF 3 * g + j > n + 1 THEN K!Pad
                            ELSE K!kBase64Alphabet[Six(K!Word(s, g), j)]
  <2>1. PICK k, i : k = 4 * g + j /\ i = j - 1
    OBVIOUS
  <2>2. k \in 1 .. 4 * m
    BY <1>1, <2>1, SMT
  <2>3. g = (k - 1) \div 4 /\ i = (k - 1) % 4 /\ i + 1 = j
    BY <1>1, <2>1, SMT
  <2>4. 3 * g + i > n <=> 3 * g + j > n + 1
    BY <1>1, <2>1, SMT
  <2>5. e[k] = IF 3 * g + i > n THEN K!Pad
               ELSE K!kBase64Alphabet[(K!Word(s, g) \div K!Sixth[i + 1]) % 64]
    <3>1. \A a, b : a = (k - 1) \div 4 /\ b = (k - 1) % 4 =>
            e[k] = IF 3 * a + b > n THEN K!Pad
                   ELSE K!kBase64Alphabet[(K!Word(s, a) \div K!Sixth[b + 1]) % 64]
      BY <1>2, <2>2, ZenonT(30)
    <3>2. QED
      BY <2>3, <3>1, Zenon
  <2>6. QED
    BY <2>1, <2>3, <2>4, <2>5, Zenon DEF Six
<1>6. QED
  BY <1>1, <1>2, <1>3, <1>4, <1>5, Zenon DEF EncodedAs

\* The value of the jth character of a group.
Value(t, g, j) == K!base64_value(t[4 * g + j])

\* What four values are taken for: a pad is no bits, and a byte less.
TakenFor(v1, v2, v3, v4, w, p) ==
  /\ v1 \in 0 .. 63 /\ v2 \in 0 .. 63
  /\ v3 \in {-1, -2} \cup (0 .. 63) /\ v4 \in {-1, -2} \cup (0 .. 63)
  /\ w = OfSixes(v1, v2, IF v3 < 0 THEN 0 ELSE v3, IF v4 < 0 THEN 0 ELSE v4)
  /\ p = (IF v3 < 0 THEN 1 ELSE 0) + (IF v4 < 0 THEN 1 ELSE 0)

\* The bytes of four characters.
LEMMA GroupIs ==
  ASSUME NEW t, NEW g, NEW w, NEW p,
         TakenFor(Value(t, g, 1), Value(t, g, 2), Value(t, g, 3), Value(t, g, 4), w, p)
  PROVE  /\ p \in {0, 1, 2} /\ IsWord(w)
         /\ K!GroupBytes(t, g) \in Seq(Byte) /\ Len(K!GroupBytes(t, g)) = 3 - p
         /\ \A b \in 1 .. 3 - p : K!GroupBytes(t, g)[b] = Eight(w, b)
<1>0. PICK v1, v2, v3, v4, x3, x4 :
        /\ v1 = Value(t, g, 1) /\ v2 = Value(t, g, 2)
        /\ v3 = Value(t, g, 3) /\ v4 = Value(t, g, 4)
        /\ x3 = IF v3 < 0 THEN 0 ELSE v3
        /\ x4 = IF v4 < 0 THEN 0 ELSE v4
  OBVIOUS
<1>sixes. /\ v1 \in 0 .. 63 /\ v2 \in 0 .. 63
          /\ v3 \in {-1, -2} \cup (0 .. 63) /\ v4 \in {-1, -2} \cup (0 .. 63)
          /\ w = OfSixes(v1, v2, x3, x4)
          /\ p = (IF v3 < 0 THEN 1 ELSE 0) + (IF v4 < 0 THEN 1 ELSE 0)
  BY <1>0, Zenon DEF TakenFor
<1> DEFINE out == [b \in 1 .. 3 - p |-> Eight(w, b)]
<1>1. K!GroupBytes(t, g) = out
  <2>1. w = v1 * 262144 + v2 * 4096 + x3 * 64 + x4
    BY <1>sixes DEF OfSixes
  <2>2. out = [b \in 1 .. 3 - p |-> (w \div K!Eighth[b]) % 256]
    BY DEF Eight
  <2>3. (IF v1 < 0 THEN 0 ELSE v1) = v1 /\ (IF v2 < 0 THEN 0 ELSE v2) = v2
    BY <1>sixes, SMT
  <2>4. K!GroupBytes(t, g) =
          [b \in 1 .. 3 - p |->
             (((IF v1 < 0 THEN 0 ELSE v1) * 262144 + (IF v2 < 0 THEN 0 ELSE v2) * 4096
                 + x3 * 64 + x4) \div K!Eighth[b]) % 256]
    BY <1>0, <1>sixes, SMT DEF K!GroupBytes, Value
  <2>5. QED
    BY <2>1, <2>2, <2>3, <2>4, SMT
<1>2. x3 \in 0 .. 63 /\ x4 \in 0 .. 63
  BY <1>0, <1>sixes, SMTT(30)
<1>3. IsWord(w)
  <2>1. ASSUME NEW a \in 0 .. 63, NEW b \in 0 .. 63, NEW c \in 0 .. 63, NEW d \in 0 .. 63
        PROVE  IsWord(OfSixes(a, b, c, d))
    BY SixesTogether, Zenon DEF SixesAre
  <2>2. QED
    BY <1>2, <1>sixes, <2>1, ZenonT(30)
<1>4. p \in {0, 1, 2}
  BY <1>sixes, SMT
<1>5. Eight(w, 1) \in Byte /\ Eight(w, 2) \in Byte /\ Eight(w, 3) \in Byte
  BY <1>3, EightsOf
<1>6. \A b \in 1 .. 3 - p : b = 1 \/ b = 2 \/ b = 3
  BY <1>4, SMT
<1>7. out \in [1 .. 3 - p -> Byte]
  BY <1>5, <1>6, Zenon
<1>8. out \in Seq(Byte) /\ Len(out) = 3 - p
  <2> HIDE DEF out
  <2>1. 3 - p \in Nat
    BY <1>4, SMT
  <2>2. PICK m \in Nat : m = 3 - p
    BY <2>1
  <2>3. out \in [1 .. m -> Byte]
    BY <1>7, <2>2
  <2>4. out \in Seq(Byte) /\ Len(out) = m
    BY <2>3
  <2>5. QED
    BY <2>2, <2>4
<1>9. \A b \in 1 .. 3 - p : out[b] = Eight(w, b)
  BY Zenon
<1>10. QED
  BY <1>1, <1>3, <1>4, <1>8, <1>9, Zenon

\* A group is sound by the values of its four characters.
LEMMA SoundIs ==
  ASSUME NEW t, NEW g,
         NEW v1, v1 = Value(t, g, 1), NEW v2, v2 = Value(t, g, 2),
         NEW v3, v3 = Value(t, g, 3), NEW v4, v4 = Value(t, g, 4)
  PROVE  K!Sound(t, g) <=>
           /\ v1 >= 0 /\ v2 >= 0 /\ v3 # -1 /\ v4 # -1
           /\ v3 = -2 => 4 * g + 4 = Len(t) /\ v4 = -2
           /\ v4 = -2 => 4 * g + 4 = Len(t)
BY SMT DEF K!Sound, Value

\* Where the input ends there are no bits: the sixes of the missing bytes are zero.
LEMMA NoBits ==
  ASSUME NEW a \in Byte, NEW b \in Byte, NEW w, w = OfEights(a, b, 0)
  PROVE  Six(w, 4) = 0 /\ (b = 0 => Six(w, 3) = 0)
<1>1. w = a * 65536 + b * 256
  BY SMT DEF OfEights, Byte
<1>2. w % 64 = 0
  BY <1>1, SMT DEF Byte
<1>3. b = 0 => w \div 64 = a * 1024
  BY <1>1, SMT DEF Byte
<1>4. (a * 1024) % 64 = 0
  BY SMT DEF Byte
<1>5. w \div 1 = w
  BY <1>1, SMT DEF Byte
<1>6. QED
  BY <1>2, <1>3, <1>4, <1>5, SMT DEF Six, K!Sixth

\* The bytes that group g of an input of n bytes has in it.
BytesIn(n, g) == IF 3 * g + 3 <= n THEN 3 ELSE n - 3 * g

LEMMA ByteInIs ==
  ASSUME NEW n \in Nat, NEW g \in Nat, 3 * g + 1 <= n
  PROVE  \A i \in 1 .. BytesIn(n, g) :
           i = 1 \/ (i = 2 /\ 3 * g + 2 <= n) \/ (i = 3 /\ 3 * g + 3 <= n)
<1>1. CASE 3 * g + 3 <= n
  <2>1. \A i \in 1 .. 3 : i = 1 \/ (i = 2 /\ 3 * g + 2 <= n) \/ (i = 3 /\ 3 * g + 3 <= n)
    BY <1>1, SMT
  <2>2. QED
    BY <1>1, <2>1, Zenon DEF BytesIn
<1>2. CASE ~(3 * g + 3 <= n)
  <2>1. \A i \in 1 .. n - 3 * g : i = 1 \/ (i = 2 /\ 3 * g + 2 <= n)
    BY <1>2, SMT
  <2>2. QED
    BY <1>2, <2>1, Zenon DEF BytesIn
<1>3. QED
  BY <1>1, <1>2

\* A group that is encoded is sound, and is the bytes it was made of.
LEMMA GroupRoundTrip ==
  ASSUME NEW s \in Seq(Byte), NEW n \in Nat, n = Len(s), NEW e, e = K!base64_encode(s),
         NEW m, m = (n + 2) \div 3, NEW g \in 0 .. m - 1
  PROVE  /\ K!Sound(e, g)
         /\ K!GroupBytes(e, g) \in Seq(Byte)
         /\ Len(K!GroupBytes(e, g)) = BytesIn(n, g)
         /\ \A b \in 1 .. BytesIn(n, g) : K!GroupBytes(e, g)[b] = s[3 * g + b]
<1>1. EncodedAs(s, n, e, m)
  BY EncodedIs
<1>2. /\ m \in Nat /\ g \in Nat /\ g <= m - 1 /\ Len(e) = 4 * m
      /\ 3 * g + 1 <= n /\ (3 * g + 3 > n => g = m - 1)
  BY <1>1, SMT DEF EncodedAs
<1> DEFINE A == K!kBase64Alphabet
<1>word. PICK w : w = K!Word(s, g)
  OBVIOUS
<1>3. PICK a \in Byte, b \in Byte, c \in Byte : MadeOf(w, s, g, a, b, c)
  <2>1. g \in Nat /\ 3 * g + 1 <= Len(s)
    BY <1>2
  <2>2. \E a, b, c \in Byte : MadeOf(K!Word(s, g), s, g, a, b, c)
    BY <2>1, WordIs, Zenon
  <2>3. QED
    BY <1>word, <2>2, Zenon
<1>4. IsWord(w) /\ Eight(w, 1) = a /\ Eight(w, 2) = b /\ Eight(w, 3) = c
  <2>1. w = OfEights(a, b, c)
    BY <1>3 DEF MadeOf
  <2>2. QED
    BY <2>1, EightsTogether, SMTT(30)
<1>5. PICK s1, s2, s3, s4 :
        s1 = Six(w, 1) /\ s2 = Six(w, 2) /\ s3 = Six(w, 3) /\ s4 = Six(w, 4)
  OBVIOUS
<1>6. {s1, s2, s3, s4} \subseteq 0 .. 63 /\ OfSixes(s1, s2, s3, s4) = w
  BY <1>4, <1>5, SixesOf
<1>7. /\ 3 * g + 3 > n => s4 = 0
      /\ 3 * g + 2 > n => s3 = 0 /\ s4 = 0
  <2>1. c = 0 => s4 = 0 /\ (b = 0 => s3 = 0)
    <3>1. w = OfEights(a, b, c)
      BY <1>3 DEF MadeOf
    <3>2. QED
      BY <1>5, <3>1, NoBits
  <2>2. (3 * g + 3 > n => c = 0) /\ (3 * g + 2 > n => b = 0 /\ c = 0)
    <3>1. b = (IF 3 * g + 2 <= n THEN s[3 * g + 2] ELSE 0)
          /\ c = (IF 3 * g + 3 <= n THEN s[3 * g + 3] ELSE 0)
      BY <1>3 DEF MadeOf
    <3>2. QED
      BY <1>2, <3>1, SMT
  <2>3. QED
    BY <2>1, <2>2
<1>8. \A i \in 0 .. 63 : K!base64_value(A[i]) = i
  BY LetterValue
<1>9. K!base64_value(K!Pad) = -2
  BY SMT DEF K!base64_value, K!Pad
<1>10. PICK v1, v2, v3, v4 : v1 = Value(e, g, 1) /\ v2 = Value(e, g, 2)
                             /\ v3 = Value(e, g, 3) /\ v4 = Value(e, g, 4)
  OBVIOUS
<1>11. /\ v1 = s1 /\ v2 = s2
       /\ v3 = IF 3 * g + 2 > n THEN -2 ELSE s3
       /\ v4 = IF 3 * g + 3 > n THEN -2 ELSE s4
  <2>1. 1 \in 1 .. 4 /\ 2 \in 1 .. 4 /\ 3 \in 1 .. 4 /\ 4 \in 1 .. 4
    BY SMT
  <2>2. /\ ~(3 * g + 1 > n + 1) /\ ~(3 * g + 2 > n + 1)
        /\ 3 * g + 3 > n + 1 <=> 3 * g + 2 > n
        /\ 3 * g + 4 > n + 1 <=> 3 * g + 3 > n
    BY <1>2, SMT
  <2>3. e[4 * g + 1] = A[s1] /\ e[4 * g + 2] = A[s2]
        /\ e[4 * g + 3] = (IF 3 * g + 2 > n THEN K!Pad ELSE A[s3])
        /\ e[4 * g + 4] = (IF 3 * g + 3 > n THEN K!Pad ELSE A[s4])
    <3>1. \A j \in 1 .. 4 : e[4 * g + j] = IF 3 * g + j > n + 1 THEN K!Pad ELSE A[Six(w, j)]
      BY <1>1, <1>word, Zenon DEF EncodedAs
    <3>2. QED
      BY <1>5, <2>1, <2>2, <3>1, Zenon
  <2>4. s1 \in 0 .. 63 /\ s2 \in 0 .. 63 /\ s3 \in 0 .. 63 /\ s4 \in 0 .. 63
    BY <1>6
  <2>5. QED
    BY <1>8, <1>9, <1>10, <2>3, <2>4, Zenon DEF Value
<1>12. K!Sound(e, g)
  <2>1. /\ v1 >= 0 /\ v2 >= 0 /\ v3 # -1 /\ v4 # -1
        /\ v3 = -2 => v4 = -2
        /\ v4 = -2 => g = m - 1
    <3>1. s1 \in 0 .. 63 /\ s2 \in 0 .. 63 /\ s3 \in 0 .. 63 /\ s4 \in 0 .. 63
      BY <1>6
    <3>2. QED
      BY <1>2, <1>11, <3>1, SMTT(30)
  <2>2. g = m - 1 => 4 * g + 4 = Len(e)
    BY <1>2, SMT
  <2>3. QED
    BY <1>10, <2>1, <2>2, SoundIs
<1>13. PICK x3, x4, p :
         /\ x3 = IF v3 < 0 THEN 0 ELSE v3
         /\ x4 = IF v4 < 0 THEN 0 ELSE v4
         /\ p = (IF v3 < 0 THEN 1 ELSE 0) + (IF v4 < 0 THEN 1 ELSE 0)
  OBVIOUS
<1>14. x3 = s3 /\ x4 = s4 /\ 3 - p = BytesIn(n, g)
  <2>1. s3 \in 0 .. 63 /\ s4 \in 0 .. 63
    BY <1>6
  <2>2. CASE 3 * g + 2 > n
    <3>1. v3 = -2 /\ v4 = -2 /\ s3 = 0 /\ s4 = 0 /\ n = 3 * g + 1
      BY <1>2, <1>7, <1>11, <2>2, SMT
    <3>2. QED
      BY <1>2, <1>13, <3>1, SMT DEF BytesIn
  <2>3. CASE 3 * g + 3 > n /\ ~(3 * g + 2 > n)
    <3>1. v3 = s3 /\ v4 = -2 /\ s4 = 0 /\ n = 3 * g + 2
      BY <1>2, <1>7, <1>11, <2>3, SMT
    <3>2. QED
      BY <1>2, <1>13, <2>1, <3>1, SMT DEF BytesIn
  <2>4. CASE ~(3 * g + 3 > n)
    <3>1. v3 = s3 /\ v4 = s4 /\ 3 * g + 3 <= n
      BY <1>2, <1>11, <2>4, SMT
    <3>2. QED
      BY <1>2, <1>13, <2>1, <3>1, SMT DEF BytesIn
  <2>5. QED
    BY <2>2, <2>3, <2>4
<1>15. /\ v1 \in 0 .. 63 /\ v2 \in 0 .. 63
       /\ v3 \in {-1, -2} \cup (0 .. 63) /\ v4 \in {-1, -2} \cup (0 .. 63)
  BY <1>6, <1>11, SMT
<1>16. /\ p \in {0, 1, 2}
       /\ K!GroupBytes(e, g) \in Seq(Byte) /\ Len(K!GroupBytes(e, g)) = 3 - p
       /\ \A i \in 1 .. 3 - p : K!GroupBytes(e, g)[i] = Eight(w, i)
  <2>1. w = OfSixes(v1, v2, x3, x4)
    BY <1>6, <1>11, <1>14
  <2>2. TakenFor(v1, v2, v3, v4, w, p)
    BY <1>13, <1>15, <2>1, Zenon DEF TakenFor
  <2>3. TakenFor(Value(e, g, 1), Value(e, g, 2), Value(e, g, 3), Value(e, g, 4), w, p)
    BY <1>10, <2>2
  <2>4. QED
    BY <2>3, GroupIs
<1>17. ASSUME NEW i \in 1 .. BytesIn(n, g)
       PROVE  Eight(w, i) = s[3 * g + i]
  <2>1. i = 1 \/ (i = 2 /\ 3 * g + 2 <= n) \/ (i = 3 /\ 3 * g + 3 <= n)
    BY <1>2, ByteInIs
  <2>2. QED
    BY <1>3, <1>4, <2>1, Zenon DEF MadeOf
<1>18. QED
  BY <1>12, <1>14, <1>16, <1>17, Zenon

\* Every byte of an input is in one of its groups.
InGroups(n, m) ==
  /\ m \in Nat /\ (m = 0 <=> n = 0)
  /\ \A g \in 0 .. m - 1 : BytesIn(n, g) \in 1 .. 3 /\ (g < m - 1 => BytesIn(n, g) = 3)
  /\ m # 0 => 3 * (m - 1) + BytesIn(n, m - 1) = n
  /\ \A k \in 1 .. n : \E g \in 0 .. m - 1 : \E b \in 1 .. BytesIn(n, g) : k = 3 * g + b

LEMMA BytesInIs ==
  ASSUME NEW n \in Nat, NEW m, m = (n + 2) \div 3
  PROVE  InGroups(n, m)
<1>1. m \in Nat /\ 3 * m <= n + 2 /\ n <= 3 * m
  BY SMT
<1>2. m = 0 <=> n = 0
  BY <1>1, SMT
<1>3. ASSUME NEW g \in 0 .. m - 1
      PROVE  /\ BytesIn(n, g) \in 1 .. 3 /\ (g < m - 1 => BytesIn(n, g) = 3)
             /\ g = m - 1 => 3 * g + BytesIn(n, g) = n
             /\ \A b \in 1 .. 3 : 3 * g + b <= n => b \in 1 .. BytesIn(n, g)
  <2>1. CASE 3 * g + 3 <= n
    <3>1. BytesIn(n, g) = 3
      BY <2>1 DEF BytesIn
    <3>2. g = m - 1 => 3 * g + 3 = n
      BY <1>1, <2>1, SMT
    <3>3. QED
      BY <3>1, <3>2, SMT
  <2>2. CASE ~(3 * g + 3 <= n)
    <3>1. PICK r : r = n - 3 * g
      OBVIOUS
    <3>2. BytesIn(n, g) = r
      BY <2>2, <3>1 DEF BytesIn
    <3>3. r \in 1 .. 3 /\ ~(g < m - 1) /\ 3 * g + r = n
          /\ \A b \in 1 .. 3 : 3 * g + b <= n => b \in 1 .. r
      BY <1>1, <2>2, <3>1, SMT
    <3>4. QED
      BY <3>2, <3>3
  <2>3. QED
    BY <2>1, <2>2
<1>4. m # 0 => m - 1 \in 0 .. m - 1
  BY <1>1, SMT
<1>5. ASSUME NEW k \in 1 .. n
      PROVE  \E g \in 0 .. m - 1 : \E b \in 1 .. BytesIn(n, g) : k = 3 * g + b
  <2>1. PICK g \in Nat, b \in 1 .. 3 : k = 3 * g + b
    BY ThirdsOf
  <2>2. g \in 0 .. m - 1 /\ 3 * g + b <= n
    BY <1>1, <2>1, SMT
  <2>3. b \in 1 .. BytesIn(n, g)
    BY <1>3, <2>2
  <2>4. QED
    BY <2>1, <2>2, <2>3
<1>6. QED
  BY <1>1, <1>2, <1>3, <1>4, <1>5, Zenon DEF InGroups

\* What is encoded is decoded to itself, whatever bytes are in it.
LEMMA Base64RoundTrip ==
  ASSUME NEW s \in Seq(Byte)
  PROVE  /\ K!base64_decodes(K!base64_encode(s))
         /\ K!base64_decode(K!base64_encode(s)) = s
<1>1. PICK n \in Nat : n = Len(s)
  BY SeqIsFunction
<1>2. PICK e, m : e = K!base64_encode(s) /\ m = (n + 2) \div 3
  OBVIOUS
<1>3. /\ m \in Nat /\ (m = 0 <=> n = 0)
      /\ \A g \in 0 .. m - 1 : BytesIn(n, g) \in 1 .. 3 /\ (g < m - 1 => BytesIn(n, g) = 3)
      /\ m # 0 => 3 * (m - 1) + BytesIn(n, m - 1) = n
      /\ \A k \in 1 .. n : \E g \in 0 .. m - 1 : \E b \in 1 .. BytesIn(n, g) : k = 3 * g + b
  <2>1. InGroups(n, m)
    BY <1>2, BytesInIs
  <2>2. QED
    BY <2>1, Zenon DEF InGroups
<1>4. m \in Nat /\ Len(e) % 4 = 0 /\ Len(e) \div 4 = m
  <2>1. EncodedAs(s, n, e, m)
    BY <1>1, <1>2, EncodedIs
  <2>2. m \in Nat /\ Len(e) = 4 * m
    BY <2>1, Zenon DEF EncodedAs
  <2>3. (4 * m) % 4 = 0 /\ (4 * m) \div 4 = m
    BY <2>2, SMT
  <2>4. QED
    BY <2>2, <2>3, Zenon
<1>5. ASSUME NEW g \in 0 .. m - 1
      PROVE  /\ K!Sound(e, g)
             /\ K!GroupBytes(e, g) \in Seq(Byte)
             /\ Len(K!GroupBytes(e, g)) = BytesIn(n, g)
             /\ \A b \in 1 .. BytesIn(n, g) : K!GroupBytes(e, g)[b] = s[3 * g + b]
  BY <1>1, <1>2, GroupRoundTrip, SMTT(30)
<1>6. K!base64_decodes(e)
  BY <1>4, <1>5, Zenon DEF K!base64_decodes, K!Groups
<1> DEFINE seqs == [g \in 1 .. m |-> K!GroupBytes(e, g - 1)]
<1>7. K!base64_decode(e) = K!FlattenSeq(seqs)
  BY <1>4, Zenon DEF K!base64_decode
<1>8. ASSUME NEW i \in 1 .. m
      PROVE  i - 1 \in 0 .. m - 1 /\ seqs[i] = K!GroupBytes(e, i - 1)
  BY <1>4, SMT
<1>9. seqs \in Seq(Seq(Byte)) /\ Len(seqs) = m
  <2>1. \A i \in 1 .. m : K!GroupBytes(e, i - 1) \in Seq(Byte)
    BY <1>5, <1>8, Zenon
  <2>2. seqs \in [1 .. m -> Seq(Byte)]
    BY <2>1, Zenon
  <2> HIDE DEF seqs
  <2>3. QED
    BY <1>4, <2>2
<1> HIDE DEF seqs
<1>10. CASE m = 0
  <2>1. s = <<>>
    BY <1>1, <1>3, <1>10, SeqIsFunction
  <2>2. seqs = <<>>
    BY <1>9, <1>10, SeqIsFunction
  <2>3. K!FlattenSeq(seqs) = seqs
    BY <1>9, <1>10, Zenon DEF K!FlattenSeq
  <2>4. QED
    BY <1>2, <1>6, <1>7, <2>1, <2>2, <2>3
<1>11. CASE m # 0
  <2>1. m \in Nat \ {0} /\ m \in 1 .. m
    BY <1>4, <1>11
  <2>2. ASSUME NEW i \in 1 .. m
        PROVE  /\ Len(seqs[i]) = BytesIn(n, i - 1)
               /\ Len(seqs[i]) <= 3 /\ (i < m => Len(seqs[i]) = 3)
               /\ \A b \in 1 .. BytesIn(n, i - 1) : seqs[i][b] = s[3 * (i - 1) + b]
    <3>1. i - 1 \in 0 .. m - 1 /\ seqs[i] = K!GroupBytes(e, i - 1)
      BY <1>8
    <3>2. /\ Len(seqs[i]) = BytesIn(n, i - 1)
          /\ \A b \in 1 .. BytesIn(n, i - 1) : seqs[i][b] = s[3 * (i - 1) + b]
      BY <1>5, <3>1, Zenon
    <3>3. BytesIn(n, i - 1) \in 1 .. 3 /\ (i - 1 < m - 1 => BytesIn(n, i - 1) = 3)
      BY <1>3, <3>1, Zenon
    <3>4. BytesIn(n, i - 1) <= 3 /\ (i < m => i - 1 < m - 1)
      BY <1>4, <3>3
    <3>5. QED
      BY <3>2, <3>3, <3>4, Zenon
  <2>3. Threes(Byte, seqs, m)
    BY <1>9, <2>2, Zenon DEF Threes
  <2>4. PICK f : f = K!FlattenSeq(seqs)
    OBVIOUS
  <2>5. /\ f \in Seq(Byte) /\ Len(f) = 3 * (m - 1) + Len(seqs[m])
        /\ \A i \in 1 .. m : \A b \in 1 .. Len(seqs[i]) : f[3 * (i - 1) + b] = seqs[i][b]
    <3>1. Joined(Byte, f, seqs, m)
      BY <2>1, <2>3, <2>4, FlattenIs
    <3>2. QED
      BY <3>1, Zenon DEF Joined
  <2>6. Len(f) = n
    BY <1>3, <1>11, <2>1, <2>2, <2>5, Zenon
  <2>7. ASSUME NEW k \in 1 .. n
        PROVE  f[k] = s[k]
    <3>1. PICK g \in 0 .. m - 1 : \E b \in 1 .. BytesIn(n, g) : k = 3 * g + b
      BY <1>3
    <3>2. PICK b \in 1 .. BytesIn(n, g) : k = 3 * g + b
      BY <3>1
    <3>3. g + 1 \in 1 .. m /\ (g + 1) - 1 = g
      BY <1>4
    <3>4. \A i \in 1 .. m : i - 1 = g => f[3 * g + b] = s[3 * g + b]
      <4>1. SUFFICES ASSUME NEW i \in 1 .. m, i - 1 = g
                     PROVE  f[3 * g + b] = s[3 * g + b]
        BY Zenon
      <4>2. b \in 1 .. Len(seqs[i]) /\ seqs[i][b] = s[3 * (i - 1) + b]
        BY <2>2, <4>1, Zenon
      <4>3. f[3 * (i - 1) + b] = seqs[i][b]
        BY <2>5, <4>2, Zenon
      <4>4. QED
        BY <4>1, <4>2, <4>3, Zenon
    <3>5. QED
      BY <3>2, <3>3, <3>4, Zenon
  <2>8. f = s
    BY <1>1, <2>5, <2>6, <2>7, SeqEqual
  <2>9. QED
    BY <1>2, <1>6, <1>7, <2>4, <2>8
<1>12. QED
  BY <1>10, <1>11
-----------------------------------------------------------------------------
(***************************************************************************)
(* The log: the lines of log_set and log_del, and the plain ones of an old *)
(* log.                                                                    *)
(***************************************************************************)
\* Until a line is damaged it is what was written, in one form or the other.
LogInv ==
  /\ written \in Commands /\ damage \in Nat
  /\ damage = 0 => line \in {K!Logged(written), written}

SetCommands ==
  [cmd : {"SET"}, key : Seq(Byte), value : Seq(Byte), ttl : Int]
DelCommands == [cmd : {"DEL"}, key : Seq(Byte)]

LEMMA CommandIs ==
  ASSUME NEW c \in Commands
  PROVE  c \in SetCommands \/ c \in DelCommands
BY ProtocolAssumption DEF K!CodecAssumption, SetCommands, DelCommands, Byte

\* replay reads a SET back, from a line of log_set and from a plain line.
LEMMA SetReadBack ==
  ASSUME NEW c \in SetCommands
  PROVE  K!Replayed(K!Logged(c)) = c /\ K!Replayed(c) = c
<1> DEFINE key == c.key
           value == c.value
           ttl == c.ttl
           j == K!log_set(key, value, ttl)
<1>1. /\ c = [cmd |-> "SET", key |-> key, value |-> value, ttl |-> ttl]
      /\ DOMAIN c = {"cmd", "key", "value", "ttl"} /\ c.cmd = "SET"
      /\ key \in Seq(Byte) /\ value \in Seq(Byte)
  BY DEF SetCommands
<1>2. /\ DOMAIN j = {"cmd", "key_b64", "value_b64", "ttl"}
      /\ j.cmd = "SET" /\ j.ttl = ttl
      /\ j["key_b64"] = K!base64_encode(key) /\ j["value_b64"] = K!base64_encode(value)
  BY DEF K!log_set
<1>3. K!Logged(c) = j
  BY <1>1 DEF K!Logged
<1>4. /\ K!base64_decodes(K!base64_encode(key)) /\ K!base64_decode(K!base64_encode(key)) = key
      /\ K!base64_decodes(K!base64_encode(value))
      /\ K!base64_decode(K!base64_encode(value)) = value
  BY <1>1, Base64RoundTrip
<1> HIDE DEF j, key, value, ttl
<1>5. /\ K!decode_fieldReads(j, "key_b64", "key") /\ K!decode_field(j, "key_b64", "key") = key
      /\ K!decode_fieldReads(j, "value_b64", "value")
      /\ K!decode_field(j, "value_b64", "value") = value
  BY <1>2, <1>4 DEF K!decode_fieldReads, K!decode_field
<1>6. K!Replayed(j) = c
  BY <1>1, <1>2, <1>5 DEF K!Replayed
<1>7. /\ K!decode_fieldReads(c, "key_b64", "key") /\ K!decode_field(c, "key_b64", "key") = key
      /\ K!decode_fieldReads(c, "value_b64", "value")
      /\ K!decode_field(c, "value_b64", "value") = value
  BY <1>1 DEF K!decode_fieldReads, K!decode_field, key, value
<1>8. K!Replayed(c) = c
  BY <1>1, <1>7 DEF K!Replayed, ttl
<1>9. QED
  BY <1>3, <1>6, <1>8

LEMMA DelReadBack ==
  ASSUME NEW c \in DelCommands
  PROVE  K!Replayed(K!Logged(c)) = c /\ K!Replayed(c) = c
<1> DEFINE key == c.key
           j == K!log_del(key)
<1>1. /\ c = [cmd |-> "DEL", key |-> key]
      /\ DOMAIN c = {"cmd", "key"} /\ c.cmd = "DEL" /\ key \in Seq(Byte)
  BY DEF DelCommands
<1>2. /\ DOMAIN j = {"cmd", "key_b64"} /\ j.cmd = "DEL"
      /\ j["key_b64"] = K!base64_encode(key)
  BY DEF K!log_del
<1>3. K!Logged(c) = j
  BY <1>1 DEF K!Logged
<1>4. K!base64_decodes(K!base64_encode(key)) /\ K!base64_decode(K!base64_encode(key)) = key
  BY <1>1, Base64RoundTrip
<1> HIDE DEF j, key
<1>5. K!decode_fieldReads(j, "key_b64", "key") /\ K!decode_field(j, "key_b64", "key") = key
  BY <1>2, <1>4 DEF K!decode_fieldReads, K!decode_field
<1>6. K!Replayed(j) = c
  BY <1>1, <1>2, <1>5 DEF K!Replayed
<1>7. K!decode_fieldReads(c, "key_b64", "key") /\ K!decode_field(c, "key_b64", "key") = key
  BY <1>1 DEF K!decode_fieldReads, K!decode_field, key
<1>8. K!Replayed(c) = c
  BY <1>1, <1>7 DEF K!Replayed
<1>9. QED
  BY <1>3, <1>6, <1>8

LEMMA AlwaysLogInv == K!Spec => []LogInv
<1>1. K!Init => LogInv
  BY DEF K!Init, LogInv
<1>2. ASSUME LogInv, [K!Next]_K!vars
      PROVE  LogInv'
  <2>1. CASE K!Next
    <3>1. UNCHANGED written /\ damage' = damage + 1
      BY <2>1 DEF K!Next, K!Damage
    <3>2. QED
      BY <1>2, <3>1 DEF LogInv
  <2>2. CASE UNCHANGED K!vars
    BY <1>2, <2>2 DEF K!vars, LogInv
  <2>3. QED
    BY <1>2, <2>1, <2>2
<1>3. QED
  BY <1>1, <1>2, PTL DEF K!Spec

\* replay reads from every line that log_set or log_del wrote, and from every
\* plain line of an old log, the command that was logged, whatever bytes are in
\* it and however many: base64_decode undoes base64_encode.
THEOREM ReplayReadsBack == K!Spec => []ReadsBack
<1>1. ASSUME LogInv
      PROVE  ReadsBack
  <2>1. written \in Commands
    BY <1>1 DEF LogInv
  <2>2. K!Replayed(K!Logged(written)) = written /\ K!Replayed(written) = written
    BY <2>1, CommandIs, SetReadBack, DelReadBack
  <2>3. QED
    BY <1>1, <2>2 DEF LogInv, ReadsBack, K!ReadsBack
<1>2. QED
  BY <1>1, AlwaysLogInv, PTL
-----------------------------------------------------------------------------
(***************************************************************************)
(* Damaged lines: a text that base64_decode takes is the one that its      *)
(* bytes are encoded to, but for the bits before the pads.                 *)
(***************************************************************************)
\* The first character is of the first byte, the second of the first two.
LEMMA TopBits ==
  ASSUME NEW a \in Byte, NEW b \in Byte, NEW c \in Byte
  PROVE  /\ Six(OfEights(a, b, c), 1) = Six(OfEights(a, 0, 0), 1)
         /\ Six(OfEights(a, b, c), 2) = Six(OfEights(a, b, 0), 2)
<1>1. PICK w, w1, w2 : w = a * 65536 + b * 256 + c /\ w1 = a * 65536 /\ w2 = a * 65536 + b * 256
  OBVIOUS
<1>2. w = OfEights(a, b, c) /\ w1 = OfEights(a, 0, 0) /\ w2 = OfEights(a, b, 0)
  BY <1>1, SMT DEF OfEights, Byte
<1>3. w \div 262144 = a \div 4 /\ w1 \div 262144 = a \div 4
  BY <1>1, SMTT(30) DEF Byte
<1>4. w \div 4096 = 16 * a + (b \div 16) /\ w2 \div 4096 = 16 * a + (b \div 16)
  BY <1>1, SMTT(30) DEF Byte
<1>5. Six(w, 1) = Six(w1, 1) /\ Six(w, 2) = Six(w2, 2)
  BY <1>3, <1>4, SMT DEF Six, K!Sixth
<1>6. QED
  BY <1>2, <1>5, Zenon

LEMMA BitsTaken ==
  ASSUME NEW v \in {-1, -2} \cup (0 .. 63), NEW x, x = IF v < 0 THEN 0 ELSE v
  PROVE  x \in 0 .. 63 /\ (v \in 0 .. 63 => x = v)
BY SMT

\* What is given of a group that is encoded again: its bytes are where Joined
\* has them, in an input that ends with the last group.
Again(t, g, p, f, n, e, m) ==
  /\ EncodedAs(f, n, e, m) /\ g \in 0 .. m - 1
  /\ \A b \in 1 .. 3 - p : f[3 * g + b] = K!GroupBytes(t, g)[b]
  /\ 3 * g + 3 - p <= n /\ (p # 0 => n = 3 * g + 3 - p /\ g = m - 1)

SaidAgain(t, g, e, m, j) ==
  \/ e[4 * g + j] = t[4 * g + j]
  \/ 4 * g + j < 4 * m /\ t[4 * g + (j + 1)] = K!Pad /\ e[4 * g + (j + 1)] = K!Pad

LEMMA GroupSaysTheSame ==
  ASSUME NEW t, NEW g \in Nat, \A j \in 1 .. 4 : t[4 * g + j] \in Byte,
         K!Sound(t, g),
         NEW w, NEW p,
         TakenFor(Value(t, g, 1), Value(t, g, 2), Value(t, g, 3), Value(t, g, 4), w, p),
         NEW f \in Seq(Byte), NEW n \in Nat, n = Len(f), NEW e, NEW m,
         Again(t, g, p, f, n, e, m)
  PROVE  \A j \in 1 .. 4 : SaidAgain(t, g, e, m, j)
<1> DEFINE A == K!kBase64Alphabet
<1>1. PICK v1, v2, v3, v4 : v1 = Value(t, g, 1) /\ v2 = Value(t, g, 2)
                            /\ v3 = Value(t, g, 3) /\ v4 = Value(t, g, 4)
  OBVIOUS
<1>2. TakenFor(v1, v2, v3, v4, w, p)
  BY <1>1
<1>3. /\ v1 \in 0 .. 63 /\ v2 \in 0 .. 63
      /\ v3 \in {-1, -2} \cup (0 .. 63) /\ v4 \in {-1, -2} \cup (0 .. 63)
      /\ p = (IF v3 < 0 THEN 1 ELSE 0) + (IF v4 < 0 THEN 1 ELSE 0)
      /\ w = OfSixes(v1, v2, IF v3 < 0 THEN 0 ELSE v3, IF v4 < 0 THEN 0 ELSE v4)
  BY <1>2, Zenon DEF TakenFor
<1>4. v3 # -1 /\ v4 # -1 /\ (v3 = -2 => v4 = -2)
  BY <1>1, SoundIs
\* The values, and the characters they are of.
<1>5. \/ p = 0 /\ v3 \in 0 .. 63 /\ v4 \in 0 .. 63
      \/ p = 1 /\ v3 \in 0 .. 63 /\ v4 = -2
      \/ p = 2 /\ v3 = -2 /\ v4 = -2
  BY <1>3, <1>4, SMT
<1>6. /\ A[v1] = t[4 * g + 1] /\ A[v2] = t[4 * g + 2]
      /\ v3 \in 0 .. 63 => A[v3] = t[4 * g + 3]
      /\ v4 \in 0 .. 63 => A[v4] = t[4 * g + 4]
      /\ v3 = -2 => t[4 * g + 3] = K!Pad
      /\ v4 = -2 => t[4 * g + 4] = K!Pad
  <2>1. ASSUME NEW j \in 1 .. 4, NEW v, v = Value(t, g, j)
        PROVE  /\ v \in 0 .. 63 => A[v] = t[4 * g + j]
               /\ v = -2 => t[4 * g + j] = K!Pad
    <3>1. PICK c \in Byte : c = t[4 * g + j]
      OBVIOUS
    <3>2. v = K!base64_value(c)
      BY <2>1, <3>1, Zenon DEF Value
    <3>3. v \in 0 .. 63 => v # -1 /\ v # -2
      BY SMTT(30)
    <3>4. v \in 0 .. 63 => A[v] = c
      BY <3>2, <3>3, ValueLetter
    <3>5. v = -2 => c = K!Pad
      BY <3>2, ValueIs DEF K!Pad
    <3>6. QED
      BY <3>1, <3>4, <3>5, Zenon
  <2>2. 1 \in 1 .. 4 /\ 2 \in 1 .. 4 /\ 3 \in 1 .. 4 /\ 4 \in 1 .. 4
    BY SMT
  <2>3. QED
    BY <1>1, <1>3, <2>1, <2>2, Zenon
\* The bytes, and the word that they are encoded from.
<1>7. PICK x3, x4 : x3 = (IF v3 < 0 THEN 0 ELSE v3) /\ x4 = (IF v4 < 0 THEN 0 ELSE v4)
  OBVIOUS
<1>8. /\ x3 \in 0 .. 63 /\ x4 \in 0 .. 63 /\ w = OfSixes(v1, v2, x3, x4)
      /\ v3 \in 0 .. 63 => x3 = v3
      /\ v4 \in 0 .. 63 => x4 = v4
  <2>1. x3 \in 0 .. 63 /\ x4 \in 0 .. 63
        /\ (v3 \in 0 .. 63 => x3 = v3) /\ (v4 \in 0 .. 63 => x4 = v4)
    BY <1>3, <1>7, BitsTaken, Zenon
  <2>2. QED
    BY <1>3, <1>7, <2>1, Zenon
<1>9. IsWord(w) /\ Six(w, 1) = v1 /\ Six(w, 2) = v2 /\ Six(w, 3) = x3 /\ Six(w, 4) = x4
  <2>1. v1 \in 0 .. 63 /\ v2 \in 0 .. 63 /\ x3 \in 0 .. 63 /\ x4 \in 0 .. 63
        /\ w = OfSixes(v1, v2, x3, x4)
    BY <1>3, <1>8, Zenon
  <2>2. SixesAre(OfSixes(v1, v2, x3, x4), v1, v2, x3, x4)
    BY <2>1, SixesTogether, Zenon
  <2>3. SixesAre(w, v1, v2, x3, x4)
    BY <2>1, <2>2, Zenon
  <2>4. QED
    BY <2>3, Zenon DEF SixesAre
<1>10. PICK a, b, c : a = Eight(w, 1) /\ b = Eight(w, 2) /\ c = Eight(w, 3)
  OBVIOUS
<1>11. a \in Byte /\ b \in Byte /\ c \in Byte /\ OfEights(a, b, c) = w
  BY <1>9, <1>10, EightsOf
<1>12. \A i \in 1 .. 3 - p : f[3 * g + i] = Eight(w, i)
  <2>1. \A i \in 1 .. 3 - p : K!GroupBytes(t, g)[i] = Eight(w, i)
    BY GroupIs
  <2>2. QED
    BY <2>1, Zenon DEF Again
<1>13. PICK W : W = K!Word(f, g)
  OBVIOUS
<1>14. EncodedAs(f, n, e, m) /\ g \in 0 .. m - 1
  BY DEF Again
<1>15. PICK A1 \in Byte, B1 \in Byte, C1 \in Byte : MadeOf(W, f, g, A1, B1, C1)
  <2>1. 3 * g + 1 <= Len(f)
    BY <1>14, Zenon DEF EncodedAs
  <2>2. \E A0, B0, C0 \in Byte : MadeOf(K!Word(f, g), f, g, A0, B0, C0)
    BY <2>1, WordIs, Zenon
  <2>3. QED
    BY <1>13, <2>2, Zenon
<1>16. /\ W = OfEights(A1, B1, C1)
       /\ A1 = a
       /\ p <= 1 => B1 = b
       /\ p = 0 => C1 = c
       /\ p = 2 => B1 = 0
       /\ p >= 1 => C1 = 0
  <2>1. /\ 3 * g + 3 - p <= n /\ (p # 0 => n = 3 * g + 3 - p)
    BY DEF Again
  <2>2. /\ W = OfEights(A1, B1, C1)
        /\ A1 = f[3 * g + 1]
        /\ B1 = IF 3 * g + 2 <= n THEN f[3 * g + 2] ELSE 0
        /\ C1 = IF 3 * g + 3 <= n THEN f[3 * g + 3] ELSE 0
    BY <1>15, Zenon DEF MadeOf
  <2>3. CASE p = 0
    <3>1. 3 * g + 2 <= n /\ 3 * g + 3 <= n
          /\ 1 \in 1 .. 3 - p /\ 2 \in 1 .. 3 - p /\ 3 \in 1 .. 3 - p
          /\ ~(p = 2) /\ ~(p >= 1)
      BY <2>1, <2>3, SMT
    <3>2. QED
      BY <1>10, <1>12, <2>2, <3>1, Zenon
  <2>4. CASE p = 1
    <3>1. 3 * g + 2 <= n /\ ~(3 * g + 3 <= n)
          /\ 1 \in 1 .. 3 - p /\ 2 \in 1 .. 3 - p /\ ~(p = 0) /\ ~(p = 2)
      BY <2>1, <2>4, SMT
    <3>2. QED
      BY <1>10, <1>12, <2>2, <3>1, Zenon
  <2>5. CASE p = 2
    <3>1. ~(3 * g + 2 <= n) /\ ~(3 * g + 3 <= n)
          /\ 1 \in 1 .. 3 - p /\ ~(p = 0) /\ ~(p <= 1)
      BY <2>1, <2>5, SMT
    <3>2. QED
      BY <1>10, <1>12, <2>2, <3>1, Zenon
  <2>6. QED
    BY <1>5, <2>3, <2>4, <2>5
<1>17. /\ Six(W, 1) = v1
       /\ p <= 1 => Six(W, 2) = v2
       /\ p = 0 => Six(W, 3) = v3 /\ Six(W, 4) = v4
  <2>1. /\ Six(W, 1) = Six(OfEights(A1, 0, 0), 1)
        /\ Six(W, 2) = Six(OfEights(A1, B1, 0), 2)
    BY <1>16, TopBits
  <2>2. /\ Six(w, 1) = Six(OfEights(a, 0, 0), 1)
        /\ Six(w, 2) = Six(OfEights(a, b, 0), 2)
    BY <1>11, TopBits
  <2>3. p = 0 => p <= 1
    BY SMT
  <2>4. p = 0 => W = w
    BY <1>11, <1>16, <2>3, Zenon
  <2>5. p = 0 => x3 = v3 /\ x4 = v4
    BY <1>5, <1>8, SMT
  <2>6. QED
    BY <1>9, <1>16, <2>1, <2>2, <2>4, <2>5, Zenon
\* The characters.
<1>18. ASSUME NEW j \in 1 .. 4
       PROVE  e[4 * g + j] = IF 3 * g + j > n + 1 THEN K!Pad ELSE A[Six(W, j)]
  BY <1>13, <1>14, Zenon DEF EncodedAs
<1>19. /\ p = 0 => ~(3 * g + 1 > n + 1) /\ ~(3 * g + 2 > n + 1) /\ ~(3 * g + 3 > n + 1)
                    /\ ~(3 * g + 4 > n + 1)
       /\ p = 1 => ~(3 * g + 1 > n + 1) /\ ~(3 * g + 2 > n + 1) /\ 3 * g + 4 > n + 1
       /\ p = 2 => ~(3 * g + 1 > n + 1) /\ 3 * g + 3 > n + 1 /\ 3 * g + 4 > n + 1
  <2>1. 3 * g + 3 - p <= n /\ (p # 0 => n = 3 * g + 3 - p)
    BY DEF Again
  <2>2. QED
    BY <1>5, <2>1, SMT
<1>20. 4 * g + 2 < 4 * m /\ 4 * g + 3 < 4 * m /\ 2 + 1 = 3 /\ 3 + 1 = 4
       /\ 1 \in 1 .. 4 /\ 2 \in 1 .. 4 /\ 3 \in 1 .. 4 /\ 4 \in 1 .. 4
       /\ 0 <= 1 /\ 1 <= 1
  <2>1. m \in Nat
    BY <1>14, Zenon DEF EncodedAs
  <2>2. QED
    BY <1>14, <2>1, SMT
<1>21. CASE p = 0
  <2>1. e[4 * g + 1] = t[4 * g + 1] /\ e[4 * g + 2] = t[4 * g + 2]
        /\ e[4 * g + 3] = t[4 * g + 3] /\ e[4 * g + 4] = t[4 * g + 4]
    <3>1. v3 \in 0 .. 63 /\ v4 \in 0 .. 63
      BY <1>5, <1>21, SMT
    <3>2. QED
      BY <1>6, <1>17, <1>18, <1>19, <1>20, <1>21, <3>1, Zenon
  <2>2. \A j \in 1 .. 4 : j = 1 \/ j = 2 \/ j = 3 \/ j = 4
    BY SMT
  <2>3. QED
    BY <2>1, <2>2, Zenon DEF SaidAgain
<1>22. CASE p = 1
  <2>1. v4 = -2
    BY <1>5, <1>22, SMT
  <2>2. e[4 * g + 1] = t[4 * g + 1] /\ e[4 * g + 2] = t[4 * g + 2]
        /\ e[4 * g + 4] = K!Pad /\ t[4 * g + 4] = K!Pad
    BY <1>6, <1>17, <1>18, <1>19, <1>20, <1>22, <2>1, Zenon
  <2>3. SaidAgain(t, g, e, m, 1) /\ SaidAgain(t, g, e, m, 2)
        /\ SaidAgain(t, g, e, m, 3) /\ SaidAgain(t, g, e, m, 4)
    BY <1>20, <2>2, Zenon DEF SaidAgain
  <2>4. \A j \in 1 .. 4 : j = 1 \/ j = 2 \/ j = 3 \/ j = 4
    BY SMT
  <2>5. QED
    BY <2>3, <2>4, Zenon
<1>23. CASE p = 2
  <2>1. v3 = -2 /\ v4 = -2
    BY <1>5, <1>23, SMT
  <2>2. e[4 * g + 1] = t[4 * g + 1]
        /\ e[4 * g + 3] = K!Pad /\ t[4 * g + 3] = K!Pad
        /\ e[4 * g + 4] = K!Pad /\ t[4 * g + 4] = K!Pad
    BY <1>6, <1>17, <1>18, <1>19, <1>20, <1>23, <2>1, Zenon
  <2>3. SaidAgain(t, g, e, m, 1) /\ SaidAgain(t, g, e, m, 2)
        /\ SaidAgain(t, g, e, m, 3) /\ SaidAgain(t, g, e, m, 4)
    BY <1>20, <2>2, Zenon DEF SaidAgain
  <2>4. \A j \in 1 .. 4 : j = 1 \/ j = 2 \/ j = 3 \/ j = 4
    BY SMT
  <2>5. QED
    BY <2>3, <2>4, Zenon
<1>24. QED
  BY <1>5, <1>21, <1>22, <1>23

\* Groups of four.
LEMMA FoursOf ==
  ASSUME NEW m \in Nat, NEW k \in 1 .. 4 * m
  PROVE  \E g \in 0 .. m - 1 : \E j \in 1 .. 4 : k = 4 * g + j
<1> DEFINE g == (k - 1) \div 4
           j == ((k - 1) % 4) + 1
<1>1. g \in 0 .. m - 1 /\ j \in 1 .. 4 /\ k = 4 * g + j
  BY SMTT(30)
<1> HIDE DEF g, j
<1>2. QED
  BY <1>1

\* A sound group is taken for some word, with pads only at the end of the text.
PadsTaken(t, g, w, p) ==
  /\ TakenFor(Value(t, g, 1), Value(t, g, 2), Value(t, g, 3), Value(t, g, 4), w, p)
  /\ p \in {0, 1, 2} /\ (p # 0 => 4 * g + 4 = Len(t))

LEMMA SoundTaken ==
  ASSUME NEW t, NEW g \in Nat, \A j \in 1 .. 4 : t[4 * g + j] \in Byte, K!Sound(t, g)
  PROVE  \E w, p : PadsTaken(t, g, w, p)
<1>1. PICK v1, v2, v3, v4 : v1 = Value(t, g, 1) /\ v2 = Value(t, g, 2)
                            /\ v3 = Value(t, g, 3) /\ v4 = Value(t, g, 4)
  OBVIOUS
<1>2. /\ v1 >= 0 /\ v2 >= 0 /\ v3 # -1 /\ v4 # -1
      /\ v3 = -2 => 4 * g + 4 = Len(t) /\ v4 = -2
      /\ v4 = -2 => 4 * g + 4 = Len(t)
  BY <1>1, SoundIs
<1>3. {v1, v2, v3, v4} \subseteq {-1, -2} \cup (0 .. 63)
  <2>1. \A j \in 1 .. 4 : Value(t, g, j) \in {-1, -2} \cup (0 .. 63)
    BY ValueIs, Zenon DEF Value
  <2>2. 1 \in 1 .. 4 /\ 2 \in 1 .. 4 /\ 3 \in 1 .. 4 /\ 4 \in 1 .. 4
    BY SMT
  <2>3. QED
    BY <1>1, <2>1, <2>2, ZenonT(30)
<1>4. PICK w, p : w = OfSixes(v1, v2, IF v3 < 0 THEN 0 ELSE v3, IF v4 < 0 THEN 0 ELSE v4)
                  /\ p = (IF v3 < 0 THEN 1 ELSE 0) + (IF v4 < 0 THEN 1 ELSE 0)
  OBVIOUS
<1>5. v1 \in 0 .. 63 /\ v2 \in 0 .. 63
  <2>1. v1 >= 0 /\ v2 >= 0
    BY <1>2, Zenon
  <2>2. QED
    BY <1>3, <2>1
<1>6. p \in {0, 1, 2} /\ (p # 0 => v3 = -2 \/ v4 = -2)
  <2>1. v3 # -1 /\ v4 # -1
    BY <1>2, Zenon
  <2>2. QED
    BY <1>3, <1>4, <2>1
<1>7. TakenFor(v1, v2, v3, v4, w, p)
  BY <1>3, <1>4, <1>5, Zenon DEF TakenFor
<1>8. PadsTaken(t, g, w, p)
  BY <1>1, <1>2, <1>6, <1>7, Zenon DEF PadsTaken
<1>9. QED
  BY <1>8

\* P[g] pads in group g, none but in the last.
PadsAre(P, t, seqs, m) ==
  /\ P \in [0 .. m - 1 -> {0, 1, 2}]
  /\ \A g \in 0 .. m - 1 : P[g] # 0 => g = m - 1
  /\ \A i \in 1 .. m : seqs[i] = K!GroupBytes(t, i - 1) /\ Len(seqs[i]) = 3 - P[i - 1]

\* The groups' bytes put together, and encoded again.
LEMMA TakenAgain ==
  ASSUME NEW t, NEW m \in Nat \ {0}, NEW f, NEW seqs, Joined(Byte, f, seqs, m),
         NEW n \in Nat, n = Len(f), NEW e, EncodedAs(f, n, e, m),
         NEW P, PadsAre(P, t, seqs, m), NEW g \in 0 .. m - 1
  PROVE  Again(t, g, P[g], f, n, e, m)
<1>1. PICK i \in 1 .. m : i - 1 = g
  <2>1. g + 1 \in 1 .. m /\ (g + 1) - 1 = g
    OBVIOUS
  <2>2. QED
    BY <2>1
<1>2. PICK p : p = P[g]
  OBVIOUS
<1>3. seqs[i] = K!GroupBytes(t, g) /\ Len(seqs[i]) = 3 - p
  BY <1>1, <1>2, Zenon DEF PadsAre
<1>4. \A b \in 1 .. 3 - p : f[3 * g + b] = K!GroupBytes(t, g)[b]
  <2>1. \A b \in 1 .. Len(seqs[i]) : f[3 * (i - 1) + b] = seqs[i][b]
    BY Zenon DEF Joined
  <2>2. \A b \in 1 .. 3 - p : f[3 * (i - 1) + b] = seqs[i][b]
    BY <1>3, <2>1, Zenon
  <2>3. \A b \in 1 .. 3 - p : f[3 * g + b] = seqs[i][b]
    BY <1>1, <2>2, Zenon
  <2>4. QED
    BY <1>3, <2>3, Zenon
<1>5. PICK q : q = P[m - 1]
  OBVIOUS
<1>6. n = 3 * (m - 1) + (3 - q)
  <2>1. m \in 1 .. m
    BY SMT
  <2>2. QED
    BY <1>5, <2>1, Zenon DEF Joined, PadsAre
<1>7. q \in {0, 1, 2} /\ p \in {0, 1, 2} /\ (p # 0 => g = m - 1) /\ (g = m - 1 => p = q)
  <2>1. m - 1 \in 0 .. m - 1
    BY SMT
  <2>2. QED
    BY <1>2, <1>5, <2>1, Zenon DEF PadsAre
<1>8. 3 * g + 3 - p <= n /\ (p # 0 => n = 3 * g + 3 - p /\ g = m - 1)
  BY <1>6, <1>7
<1>9. QED
  BY <1>2, <1>4, <1>8, Zenon DEF Again

\* What base64_encode gives is a text again.
LEMMA EncodedBytes ==
  ASSUME NEW s \in Seq(Byte)
  PROVE  K!base64_encode(s) \in Seq(Byte)
<1>1. PICK n \in Nat : n = Len(s)
  BY SeqIsFunction
<1>2. PICK e, m : e = K!base64_encode(s) /\ m = (n + 2) \div 3
  OBVIOUS
<1>3. EncodedAs(s, n, e, m)
  BY <1>1, <1>2, EncodedIs
<1>4. m \in Nat /\ DOMAIN e = 1 .. 4 * m
  BY <1>3, Zenon DEF EncodedAs
<1>5. ASSUME NEW g \in 0 .. m - 1, NEW j \in 1 .. 4
      PROVE  e[4 * g + j] \in Byte
  <2>1. PICK w : w = K!Word(s, g)
    OBVIOUS
  <2>2. IsWord(w)
    <3>1. g \in Nat
      BY <1>4
    <3>2. 3 * g + 1 <= Len(s)
      BY <1>1, <1>3, Zenon DEF EncodedAs
    <3>3. PICK a \in Byte, b \in Byte, c \in Byte : MadeOf(K!Word(s, g), s, g, a, b, c)
      BY <3>1, <3>2, WordIs, Zenon
    <3>4. w = OfEights(a, b, c)
      BY <2>1, <3>3, Zenon DEF MadeOf
    <3>5. QED
      BY <3>4, EightsTogether
  <2>3. Six(w, 1) \in 0 .. 63 /\ Six(w, 2) \in 0 .. 63
        /\ Six(w, 3) \in 0 .. 63 /\ Six(w, 4) \in 0 .. 63
    BY <2>2, SixesOf
  <2>4. Six(w, j) \in 0 .. 63
    <3>1. j = 1 \/ j = 2 \/ j = 3 \/ j = 4
      BY SMT
    <3>2. QED
      BY <2>3, <3>1, Zenon
  <2>5. K!kBase64Alphabet[Six(w, j)] \in Byte
    BY <2>4, LetterValue
  <2>6. K!Pad \in Byte
    BY SMT DEF K!Pad, Byte
  <2>7. e[4 * g + j] = IF 3 * g + j > n + 1 THEN K!Pad ELSE K!kBase64Alphabet[Six(w, j)]
    BY <1>3, <2>1, Zenon DEF EncodedAs
  <2>8. QED
    BY <2>5, <2>6, <2>7, Zenon
<1>6. \A k \in 1 .. 4 * m : e[k] \in Byte
  <2>1. ASSUME NEW k \in 1 .. 4 * m
        PROVE  e[k] \in Byte
    <3>1. PICK g \in 0 .. m - 1, j \in 1 .. 4 : k = 4 * g + j
      BY <1>4, FoursOf, Zenon
    <3>2. QED
      BY <1>5, <3>1, Zenon
  <2>2. QED
    BY <2>1, Zenon
<1>7. e = [k \in DOMAIN e |-> e[k]]
  BY <1>2, Zenon DEF K!base64_encode
<1>8. e \in [1 .. 4 * m -> Byte]
  BY <1>4, <1>6, <1>7, Zenon
<1>9. QED
  <2>1. 4 * m \in Nat
    BY <1>4
  <2>2. QED
    BY <1>2, <1>8, <2>1

\* A text that base64_decode takes is the one that its bytes are encoded to, up
\* to the bits that the last character before the pads does not use.
LEMMA TakenSaysTheSame ==
  ASSUME NEW t \in Seq(Byte), K!base64_decodes(t)
  PROVE  K!SaysTheSame(t)
<1>1. PICK m : m = Len(t) \div 4
  OBVIOUS
<1>2. m \in Nat /\ Len(t) = 4 * m
  <2>1. Len(t) \in Nat
    BY SeqIsFunction
  <2>2. Len(t) % 4 = 0
    BY Zenon DEF K!base64_decodes
  <2>3. QED
    BY <1>1, <2>1, <2>2
<1>3. DOMAIN t = 1 .. 4 * m /\ \A k \in 1 .. 4 * m : t[k] \in Byte
  BY <1>2, SeqIsFunction
<1>4. ASSUME NEW g \in 0 .. m - 1
      PROVE  /\ g \in Nat /\ K!Sound(t, g)
             /\ \A j \in 1 .. 4 : t[4 * g + j] \in Byte
  <2>1. g \in Nat /\ \A j \in 1 .. 4 : 4 * g + j \in 1 .. 4 * m
    BY <1>2
  <2>2. K!Sound(t, g)
    BY <1>1, Zenon DEF K!base64_decodes, K!Groups
  <2>3. QED
    BY <1>3, <2>1, <2>2, Zenon
<1> DEFINE Takes(g, wp) == PadsTaken(t, g, wp[1], wp[2])
<1>5. ASSUME NEW g \in 0 .. m - 1
      PROVE  \E wp : Takes(g, wp)
  <2>1. PICK w, p : PadsTaken(t, g, w, p)
    BY <1>4, SoundTaken
  <2>2. Takes(g, <<w, p>>)
    BY <2>1
  <2>3. QED
    BY <2>2
<1> DEFINE W == [g \in 0 .. m - 1 |-> (CHOOSE wp : Takes(g, wp))[1]]
           P == [g \in 0 .. m - 1 |-> (CHOOSE wp : Takes(g, wp))[2]]
<1>6. ASSUME NEW g \in 0 .. m - 1
      PROVE  PadsTaken(t, g, W[g], P[g])
  BY <1>5, Zenon
<1> HIDE DEF W
<1>7. /\ P \in [0 .. m - 1 -> {0, 1, 2}]
      /\ \A g \in 0 .. m - 1 : P[g] # 0 => g = m - 1
  <2>1. ASSUME NEW g \in 0 .. m - 1
        PROVE  P[g] \in {0, 1, 2} /\ (P[g] # 0 => 4 * g + 4 = 4 * m)
    BY <1>2, <1>6, Zenon DEF PadsTaken
  <2>2. \A g \in 0 .. m - 1 : 4 * g + 4 = 4 * m => g = m - 1
    BY <1>2
  <2>3. QED
    BY <2>1, <2>2, Zenon
<1> HIDE DEF P
<1> DEFINE seqs == [i \in 1 .. m |-> K!GroupBytes(t, i - 1)]
<1>8. K!base64_decode(t) = K!FlattenSeq(seqs)
  BY <1>1, Zenon DEF K!base64_decode
<1>9. ASSUME NEW i \in 1 .. m
      PROVE  /\ seqs[i] = K!GroupBytes(t, i - 1) /\ i - 1 \in 0 .. m - 1
             /\ seqs[i] \in Seq(Byte) /\ Len(seqs[i]) = 3 - P[i - 1]
  <2>1. i - 1 \in 0 .. m - 1
    BY <1>2
  <2>2. PICK g, w, p : g = i - 1 /\ w = W[i - 1] /\ p = P[i - 1]
    OBVIOUS
  <2>3. TakenFor(Value(t, g, 1), Value(t, g, 2), Value(t, g, 3), Value(t, g, 4), w, p)
    BY <1>6, <2>1, <2>2, Zenon DEF PadsTaken
  <2>4. K!GroupBytes(t, g) \in Seq(Byte) /\ Len(K!GroupBytes(t, g)) = 3 - p
    BY <2>3, GroupIs
  <2>5. QED
    BY <2>1, <2>2, <2>4, Zenon
<1>10. seqs \in Seq(Seq(Byte)) /\ Len(seqs) = m
  <2>1. seqs \in [1 .. m -> Seq(Byte)]
    BY <1>9, Zenon
  <2> HIDE DEF seqs
  <2>2. QED
    BY <1>2, <2>1
<1> HIDE DEF seqs
<1>11. PICK f, e : f = K!base64_decode(t) /\ e = K!base64_encode(f)
  OBVIOUS
<1>12. CASE m = 0
  <2>1. seqs = <<>>
    BY <1>10, <1>12, SeqIsFunction
  <2>2. K!FlattenSeq(seqs) = seqs
    BY <1>10, <1>12, Zenon DEF K!FlattenSeq
  <2>3. f = <<>> /\ Len(f) = 0
    BY <1>8, <1>11, <2>1, <2>2
  <2>4. EncodedAs(f, 0, e, 0)
    <3>1. 0 = (0 + 2) \div 3
      BY SMT
    <3>2. QED
      BY <1>11, <2>3, <3>1, EncodedIs
  <2>5. Len(e) = Len(t)
    BY <1>2, <1>12, <2>4, Zenon DEF EncodedAs
  <2>6. DOMAIN t = {}
    BY <1>3, <1>12, SMT
  <2>7. QED
    BY <1>11, <2>5, <2>6, Zenon DEF K!SaysTheSame
<1>13. CASE m # 0
  <2>1. m \in Nat \ {0} /\ m \in 1 .. m
    BY <1>2, <1>13
  <2>2. Threes(Byte, seqs, m)
    <3>1. ASSUME NEW i \in 1 .. m
          PROVE  Len(seqs[i]) <= 3 /\ (i < m => Len(seqs[i]) = 3)
      <4>1. PICK g, p : g = i - 1 /\ p = P[i - 1]
        OBVIOUS
      <4>2. p \in {0, 1, 2} /\ (p # 0 => g = m - 1) /\ g = i - 1 /\ Len(seqs[i]) = 3 - p
        BY <1>7, <1>9, <4>1, Zenon
      <4>3. 3 - p <= 3 /\ (i < m => 3 - p = 3)
        BY <2>1, <4>2
      <4>4. QED
        BY <4>2, <4>3, Zenon
    <3>2. QED
      BY <1>10, <3>1, Zenon DEF Threes
  <2>3. Joined(Byte, f, seqs, m)
    BY <1>8, <1>11, <2>1, <2>2, FlattenIs
  <2>4. PICK n : n = Len(f)
    OBVIOUS
  <2>5. n \in Nat /\ m = (n + 2) \div 3
    <3>1. PICK q : q = P[m - 1]
      OBVIOUS
    <3>2. n = 3 * (m - 1) + (3 - q)
      BY <1>9, <2>1, <2>3, <2>4, <3>1, Zenon DEF Joined
    <3>3. q \in {0, 1, 2}
      <4>1. m - 1 \in 0 .. m - 1
        BY <2>1
      <4>2. QED
        BY <1>7, <3>1, <4>1, Zenon
    <3>4. QED
      BY <2>1, <3>2, <3>3, SMT
  <2>6. EncodedAs(f, n, e, m)
    BY <1>11, <2>4, <2>5, EncodedIs
  <2>7. ASSUME NEW g \in 0 .. m - 1
        PROVE  \A j \in 1 .. 4 : SaidAgain(t, g, e, m, j)
    <3>1. PICK w, p : w = W[g] /\ p = P[g]
      OBVIOUS
    <3>2. Again(t, g, p, f, n, e, m)
      <4>1. \A i \in 1 .. m : seqs[i] = K!GroupBytes(t, i - 1) /\ Len(seqs[i]) = 3 - P[i - 1]
        BY <1>9, Zenon
      <4>2. PadsAre(P, t, seqs, m)
        BY <1>7, <4>1, Zenon DEF PadsAre
      <4>3. Again(t, g, P[g], f, n, e, m)
        BY <2>1, <2>3, <2>4, <2>5, <2>6, <4>2, TakenAgain
      <4>4. QED
        BY <3>1, <4>3, Zenon
    <3>3. TakenFor(Value(t, g, 1), Value(t, g, 2), Value(t, g, 3), Value(t, g, 4), w, p)
      BY <1>6, <3>1, Zenon DEF PadsTaken
    <3>4. f \in Seq(Byte)
      BY <2>3, Zenon DEF Joined
    <3>5. QED
      BY <1>4, <2>4, <2>5, <3>2, <3>3, <3>4, GroupSaysTheSame
  <2>8. Len(e) = Len(t)
    BY <1>2, <2>6, Zenon DEF EncodedAs
  <2>9. ASSUME NEW k \in 1 .. 4 * m
        PROVE  \/ e[k] = t[k]
               \/ k < 4 * m /\ t[k + 1] = K!Pad /\ e[k + 1] = K!Pad
    <3>1. PICK g \in 0 .. m - 1, j \in 1 .. 4 : k = 4 * g + j
      BY <1>2, FoursOf, Zenon
    <3>2. k + 1 = 4 * g + (j + 1)
      BY <1>2, <3>1
    <3>3. SaidAgain(t, g, e, m, j)
      BY <2>7
    <3>4. QED
      BY <3>1, <3>2, <3>3, Zenon DEF SaidAgain
  <2>10. QED
    BY <1>2, <1>3, <1>11, <2>8, <2>9, Zenon DEF K!SaysTheSame
<1>14. QED
  BY <1>12, <1>13

\* The encoded fields of a line are texts, sound or damaged.
Texts ==
  \A field \in {"key_b64", "value_b64"} \cap DOMAIN line : line[field] \in Seq(Byte)

LEMMA TextsInit == K!Init => Texts
<1>1. ASSUME NEW c \in SetCommands
      PROVE  LET l == K!Logged(c)
             IN  \A field \in {"key_b64", "value_b64"} \cap DOMAIN l : l[field] \in Seq(Byte)
  <2>1. c.cmd = "SET" /\ c.key \in Seq(Byte) /\ c.value \in Seq(Byte)
    BY DEF SetCommands
  <2>2. K!base64_encode(c.key) \in Seq(Byte) /\ K!base64_encode(c.value) \in Seq(Byte)
    BY <2>1, EncodedBytes
  <2>3. QED
    BY <2>1, <2>2 DEF K!Logged, K!log_set
<1>2. ASSUME NEW c \in DelCommands
      PROVE  LET l == K!Logged(c)
             IN  \A field \in {"key_b64", "value_b64"} \cap DOMAIN l : l[field] \in Seq(Byte)
  <2>1. c.cmd = "DEL" /\ c.key \in Seq(Byte)
    BY DEF DelCommands
  <2>2. K!base64_encode(c.key) \in Seq(Byte)
    BY <2>1, EncodedBytes
  <2>3. QED
    BY <2>1, <2>2 DEF K!Logged, K!log_del
<1>3. ASSUME NEW c \in Commands
      PROVE  {"key_b64", "value_b64"} \cap DOMAIN c = {}
  BY CommandIs DEF SetCommands, DelCommands
<1>4. SUFFICES ASSUME K!Init
               PROVE  Texts
  OBVIOUS
<1>5. written \in Commands /\ (line = K!Logged(written) \/ line = written)
  BY <1>4 DEF K!Init
<1>6. CASE line = K!Logged(written)
  BY <1>1, <1>2, <1>5, <1>6, CommandIs, Zenon DEF Texts
<1>7. CASE line = written
  BY <1>3, <1>5, <1>7, Zenon DEF Texts
<1>8. QED
  BY <1>5, <1>6, <1>7

LEMMA TextsDamage ==
  ASSUME Texts, NEW hit \in {"key_b64", "value_b64"}, K!Damage(hit)
  PROVE  Texts'
<1>1. PICK i \in DOMAIN line[hit], with \in {<<>>} \cup {<<c>> : c \in Characters} :
        line' = [line EXCEPT ![hit] =
                   SubSeq(@, 1, i - 1) \o with \o SubSeq(@, i + 1, Len(@))]
  BY DEF K!Damage
<1>2. PICK t \in Seq(Byte) : t = line[hit]
  BY DEF Texts, K!Damage
<1>3. PICK d : d = SubSeq(t, 1, i - 1) \o with \o SubSeq(t, i + 1, Len(t))
  OBVIOUS
<1>4. d \in Seq(Byte)
  <2>1. Len(t) \in Nat /\ i \in 1 .. Len(t)
    BY <1>2, SeqIsFunction
  <2>2. SubSeq(t, 1, i - 1) \in Seq(Byte) /\ SubSeq(t, i + 1, Len(t)) \in Seq(Byte)
    BY <2>1, PartIs
  <2>3. with \in Seq(Byte)
    <3>1. Characters \subseteq Byte
      BY ProtocolAssumption DEF K!CodecAssumption, Byte
    <3>2. <<>> \in Seq(Byte)
      OBVIOUS
    <3>3. ASSUME NEW c \in Byte
          PROVE  <<c>> \in Seq(Byte)
      OBVIOUS
    <3>4. QED
      BY <3>1, <3>2, <3>3, Zenon
  <2>4. QED
    BY <1>3, <2>2, <2>3
<1>5. line' = [line EXCEPT ![hit] = d]
  BY <1>1, <1>2, <1>3, Zenon
<1>6. DOMAIN line' = DOMAIN line
  BY <1>5
<1>7. ASSUME NEW field \in {"key_b64", "value_b64"} \cap DOMAIN line
      PROVE  line'[field] \in Seq(Byte)
  <2>1. line[field] \in Seq(Byte)
    BY DEF Texts
  <2>2. line'[field] = IF field = hit THEN d ELSE line[field]
    BY <1>5
  <2>3. QED
    BY <1>4, <2>1, <2>2, Zenon
<1>8. QED
  BY <1>6, <1>7, Zenon DEF Texts

\* replay glosses nothing over: whatever became of a line, a text in it that
\* base64_decode takes has no character without effect on the value it reads,
\* but for the bits before a pad.
THEOREM NothingIsGlossedOver == K!Spec => []NothingGlossedOver
<1>1. ASSUME Texts, [K!Next]_K!vars
      PROVE  Texts'
  <2>1. CASE K!Damage("key_b64") \/ K!Damage("value_b64")
    BY <1>1, <2>1, TextsDamage
  <2>2. CASE UNCHANGED K!vars
    BY <1>1, <2>2 DEF K!vars, Texts
  <2>3. QED
    BY <1>1, <2>1, <2>2 DEF K!Next
<1>2. ASSUME Texts
      PROVE  NothingGlossedOver
  BY <1>2, TakenSaysTheSame, Zenon DEF Texts, NothingGlossedOver, K!NothingGlossedOver
<1>3. QED
  BY <1>1, <1>2, TextsInit, PTL DEF K!Spec
-----------------------------------------------------------------------------
(***************************************************************************)
(* execute_command.                                                        *)
(***************************************************************************)
\* The replies that are no errors.
LEMMA NoErrors == {"OK", "bad_alloc", "one", "zero"} \cap C!Errors = {}
BY DEF C!Errors

\* A step of a command is answered, and what it is answered with is in latest.
LEMMA Answered ==
  ASSUME NEW cmd, NEW reply, C!Serve(cmd, reply)
  PROVE  latest'.cmd = cmd /\ latest'.reply = reply
BY DEF C!Serve

LEMMA ReplyText ==
  ASSUME NEW text
  PROVE  C!Reply(text).text = text
BY DEF C!Reply

\* execute_command leaves no trace of a command that it refuses: neither Storage
\* nor the log has changed when the reply is an error.
THEOREM RefusedLeavesNoTrace == C!Spec => RefusedWithoutTrace
<1>1. ASSUME C!Next, ran' # ran
      PROVE  UNCHANGED <<store, log>> \/ latest'.reply.text \notin C!Errors
  <2>1. ASSUME NEW cmd, C!SetFails(cmd) \/ C!GET(cmd) \/ C!DelFails(cmd)
                        \/ C!Others(cmd) \/ C!PingThrows(cmd)
        PROVE  UNCHANGED <<store, log>>
    BY <2>1, Zenon DEF C!SetFails, C!GET, C!DelFails, C!Others, C!PingThrows
  <2>2. ASSUME NEW cmd, C!SetStores(cmd)
        PROVE  latest'.reply.text \notin C!Errors
    <3>1. PICK set : set.reply.text = "OK" /\ C!Serve(cmd, set.reply)
      BY <2>2, Zenon DEF C!SetStores
    <3>2. latest'.reply.text = "OK"
      BY <3>1, Answered, Zenon
    <3>3. QED
      BY <3>2, NoErrors
  <2>3. ASSUME NEW cmd, C!SetThrows(cmd)
        PROVE  latest'.reply.text \notin C!Errors
    <3>1. C!Serve(cmd, C!Reply("bad_alloc"))
      BY <2>3, Zenon DEF C!SetThrows
    <3>2. latest'.reply.text = "bad_alloc"
      BY <3>1, Answered, ReplyText, Zenon
    <3>3. QED
      BY <3>2, NoErrors
  <2>4. ASSUME NEW cmd, C!DEL(cmd)
        PROVE  latest'.reply.text \notin C!Errors
    <3>1. PICK text \in {"one", "zero"} : C!Serve(cmd, C!Reply(text))
      BY <2>4, Zenon DEF C!DEL
    <3>2. latest'.reply.text \in {"one", "zero"}
      BY <3>1, Answered, ReplyText, Zenon
    <3>3. QED
      BY <3>2, NoErrors
  <2>5. ASSUME NEW key, C!Leaves(key)
        PROVE  FALSE
    BY <1>1, <2>5, Zenon DEF C!Leaves
  <2>6. QED
    BY <1>1, <2>1, <2>2, <2>3, <2>4, <2>5, Zenon DEF C!Next
<1>2. ASSUME [C!Next]_C!vars
      PROVE  [ran' # ran /\ latest'.reply.text \in C!Errors => UNCHANGED <<store, log>>]_C!vars
  BY <1>1, <1>2, Zenon
<1>3. QED
  BY <1>2, PTL DEF C!Spec, RefusedWithoutTrace, C!RefusedWithoutTrace

\* The loop over SET's options, one turn of it: x1 and x2 are what becomes of the
\* options one and two places on.
OK0 == C!Outcome(C!Reply("OK"), 0)
After(x, ttl) == IF x = OK0 THEN C!Outcome(C!Reply("OK"), ttl) ELSE x
IsWordAt(given, k) == given[k] \in ExWords \cup PxWords
OptionAt(given, k, x1, x2) ==
  CASE k > Len(given) -> OK0
    [] k <= Len(given) /\ given[k] \in ExWords \cup PxWords ->
         IF k = Len(given) THEN C!Outcome(C!Reply("syntax"), 0)
         ELSE IF ~C!IsInt(given[k + 1]) \/ Spelled[given[k + 1]] <= 0
         THEN C!Outcome(C!Reply("invalid_expire"), 0)
         ELSE After(x2, C!Seconds(given[k], Spelled[given[k + 1]]))
    [] OTHER ->
         IF C!Legacy(given, k) THEN After(x1, Spelled[given[k]])
         ELSE C!Outcome(C!Quoting("unsupported", given[k]), 0)
OptionsAre(given, g, a) ==
  g = [k \in a .. Len(given) + 2 |-> OptionAt(given, k, g[k + 1], g[k + 2])]

LEMMA OptionAtIs ==
  ASSUME NEW given, NEW k \in Int, NEW n \in Nat, n = Len(given), NEW x1, NEW x2
  PROVE  /\ k > n => OptionAt(given, k, x1, x2) = OK0
         /\ k <= n /\ IsWordAt(given, k) =>
              OptionAt(given, k, x1, x2) =
                IF k = n THEN C!Outcome(C!Reply("syntax"), 0)
                ELSE IF ~C!IsInt(given[k + 1]) \/ Spelled[given[k + 1]] <= 0
                THEN C!Outcome(C!Reply("invalid_expire"), 0)
                ELSE After(x2, C!Seconds(given[k], Spelled[given[k + 1]]))
         /\ k <= n /\ ~IsWordAt(given, k) =>
              OptionAt(given, k, x1, x2) =
                IF C!Legacy(given, k) THEN After(x1, Spelled[given[k]])
                ELSE C!Outcome(C!Quoting("unsupported", given[k]), 0)
<1>1. k > n <=> ~(k <= n)
  BY SMT
<1>2. QED
  BY <1>1, Zenon DEF OptionAt, IsWordAt

LEMMA NoOptionsLeft ==
  ASSUME NEW given, NEW n \in Nat, n = Len(given), NEW k \in Int, k > n
  PROVE  \A x1, x2 : OptionAt(given, k, x1, x2) = OK0
<1>1. SUFFICES ASSUME NEW x1, NEW x2 PROVE OptionAt(given, k, x1, x2) = OK0
  BY Zenon
<1>2. ~(k <= n)
  BY SMT
<1>3. QED
  BY <1>2, Zenon DEF OptionAt

\* The options' function exists: the least number of last places on which it did
\* not would be one more than one on which it does.
LEMMA OptionsFunction ==
  ASSUME NEW given, NEW n \in Nat, n = Len(given), n >= 2
  PROVE  \E g : OptionsAre(given, g, 3) /\ C!Options(given) = g[3]
<1> DEFINE Lost == {m \in Nat : m < n /\ ~ \E g : OptionsAre(given, g, n + 2 - m)}
<1>1. Lost = {}
  <2>1. SUFFICES ASSUME Lost # {} PROVE FALSE
    OBVIOUS
  <2>2. PICK m \in Lost : \A i \in Lost : m <= i
    <3>1. Lost \in SUBSET Nat
      BY Zenon
    <3>2. QED
      BY <2>1, <3>1, LeastNatural, Zenon
  <2>3. PICK a : a = n + 2 - m
    OBVIOUS
  <2>4. m \in Nat /\ m < n /\ a \in Nat /\ a >= 3 /\ a <= n + 2 /\ (m = 0 => a = n + 2)
    BY <2>2, <2>3
  <2>5. ~ \E g : OptionsAre(given, g, a)
    BY <2>2, <2>3, Zenon
  <2>6. CASE m = 0
    <3> DEFINE h == [k \in a .. n + 2 |-> OK0]
    <3>1. ASSUME NEW k \in a .. n + 2
          PROVE  h[k] = OptionAt(given, k, h[k + 1], h[k + 2])
      <4>1. k \in Int /\ k > n
        BY <2>4, <2>6
      <4>2. \A x1, x2 : OptionAt(given, k, x1, x2) = OK0
        BY <4>1, NoOptionsLeft
      <4>3. h[k] = OK0
        BY Zenon
      <4> HIDE DEF h
      <4>4. QED
        BY <4>2, <4>3, Zenon
    <3>2. h = [k \in a .. n + 2 |-> OptionAt(given, k, h[k + 1], h[k + 2])]
      BY <3>1, Zenon
    <3>3. QED
      BY <2>5, <3>2, Zenon DEF OptionsAre
  <2>7. CASE m # 0
    <3>1. m - 1 \in Nat /\ m - 1 < n /\ ~(m <= m - 1) /\ n + 2 - (m - 1) = a + 1
      BY <2>3, <2>4, <2>7
    <3>2. PICK g : OptionsAre(given, g, a + 1)
      BY <2>2, <3>1, Zenon
    <3> DEFINE h == [k \in a .. n + 2 |-> IF k = a THEN OptionAt(given, a, g[a + 1], g[a + 2])
                                          ELSE g[k]]
    <3>3. ASSUME NEW k \in a .. n + 2
          PROVE  h[k] = OptionAt(given, k, h[k + 1], h[k + 2])
      <4>1. h[k] = OptionAt(given, k, g[k + 1], g[k + 2])
        <5>1. CASE k = a
          BY <5>1, Zenon
        <5>2. CASE k # a
          <6>1. k \in a + 1 .. n + 2
            BY <2>4, <5>2
          <6>2. h[k] = g[k]
            BY <5>2, Zenon
          <6>3. QED
            BY <3>2, <6>1, <6>2, Zenon DEF OptionsAre
        <5>3. QED
          BY <5>1, <5>2
      <4>2. CASE k > n
        <5>1. k \in Int
          BY <2>4
        <5>2. \A x1, x2 : OptionAt(given, k, x1, x2) = OK0
          BY <4>2, <5>1, NoOptionsLeft
        <5> HIDE DEF h
        <5>3. QED
          BY <4>1, <5>2, Zenon
      <4>3. CASE k <= n
        <5>1. k + 1 \in a .. n + 2 /\ k + 2 \in a .. n + 2 /\ k + 1 # a /\ k + 2 # a
          BY <2>4, <4>3
        <5>2. h[k + 1] = g[k + 1] /\ h[k + 2] = g[k + 2]
          BY <5>1, Zenon
        <5>3. QED
          BY <4>1, <5>2, Zenon
      <4>4. QED
        BY <2>4, <4>2, <4>3
    <3>4. h = [k \in a .. n + 2 |-> OptionAt(given, k, h[k + 1], h[k + 2])]
      BY <3>3, Zenon
    <3>5. QED
      BY <2>5, <3>4, Zenon DEF OptionsAre
  <2>8. QED
    BY <2>6, <2>7
<1>2. \E g : OptionsAre(given, g, 3)
  <2>1. n - 1 \in Nat /\ n - 1 < n /\ n + 2 - (n - 1) = 3
    OBVIOUS
  <2>2. QED
    BY <1>1, <2>1, Zenon
<1>3. C!Options(given) = (CHOOSE g : OptionsAre(given, g, 3))[3]
  BY Zenon DEF C!Options, OptionsAre, OptionAt, After, OK0
<1>4. QED
  BY <1>2, <1>3, Zenon

\* The pair of an option and its amount; pairs from place k on, to the end.
PairAt(given, i) ==
  /\ IsWordAt(given, i) /\ i < Len(given)
  /\ C!IsInt(given[i + 1]) /\ Spelled[given[i + 1]] > 0
PairsFrom(given, k) ==
  \A i \in k .. Len(given) : (i - k) % 2 = 0 => PairAt(given, i)

LEMMA PairsFromNext ==
  ASSUME NEW given, NEW n \in Nat, n = Len(given), NEW k \in Nat
  PROVE  /\ k > n => PairsFrom(given, k)
         /\ k <= n => (PairsFrom(given, k) <=> PairAt(given, k) /\ PairsFrom(given, k + 2))
<1>1. k > n => PairsFrom(given, k)
  <2>1. ASSUME k > n, NEW i \in k .. n
        PROVE  FALSE
    BY <2>1
  <2>2. QED
    BY <2>1, Zenon DEF PairsFrom
<1>2. ASSUME k <= n
      PROVE  PairsFrom(given, k) <=> PairAt(given, k) /\ PairsFrom(given, k + 2)
  <2>1. k \in k .. n /\ (k - k) % 2 = 0
    BY <1>2
  <2>2. \A i \in k + 2 .. n : i \in k .. n /\ ((i - (k + 2)) % 2 = 0 => (i - k) % 2 = 0)
    BY SMT
  <2>3. \A i \in k .. n : (i - k) % 2 = 0 =>
          i = k \/ (i \in k + 2 .. n /\ (i - (k + 2)) % 2 = 0)
    BY SMT
  <2>4. QED
    BY <2>1, <2>2, <2>3, Zenon DEF PairsFrom
<1>3. QED
  BY <1>1, <1>2

\* Seconds are no fewer than asked, and not one too many.
Millis(word, amount) == amount * (IF word \in PxWords THEN 1 ELSE 1000)

FewestSeconds(s, word, amount) ==
  /\ s \in Nat \ {0} /\ s <= amount
  /\ 1000 * s >= Millis(word, amount) /\ 1000 * (s - 1) < Millis(word, amount)

LEMMA SecondsIs ==
  ASSUME NEW word, NEW amount \in Nat \ {0}
  PROVE  FewestSeconds(C!Seconds(word, amount), word, amount)
<1>1. CASE word \in PxWords
  <2>1. PICK s : s = amount \div 1000 + (IF amount % 1000 # 0 THEN 1 ELSE 0)
    OBVIOUS
  <2>2. s \in Nat \ {0} /\ s <= amount /\ 1000 * s >= amount /\ 1000 * (s - 1) < amount
    BY <2>1, SMTT(30)
  <2>3. C!Seconds(word, amount) = s
    <3>1. C!Seconds(word, amount) = C!FromMillis(amount)
      BY <1>1 DEF C!Seconds
    <3>2. QED
      BY <2>1, <3>1 DEF C!FromMillis
  <2>4. Millis(word, amount) = amount
    BY <1>1 DEF Millis
  <2>5. FewestSeconds(s, word, amount)
    BY <2>2, <2>4, ZenonT(30) DEF FewestSeconds
  <2>6. QED
    BY <2>3, <2>5, Zenon
<1>2. CASE word \notin PxWords
  <2>1. C!Seconds(word, amount) = amount /\ Millis(word, amount) = amount * 1000
    BY <1>2 DEF C!Seconds, Millis
  <2>2. 1000 * amount >= amount * 1000 /\ 1000 * (amount - 1) < amount * 1000 /\ amount <= amount
    OBVIOUS
  <2>3. FewestSeconds(amount, word, amount)
    BY <2>1, <2>2 DEF FewestSeconds
  <2>4. QED
    BY <2>1, <2>3, ZenonT(30)
<1>3. QED
  BY <1>1, <1>2, Zenon

\* A reply to a client.
ReplyTexts ==
  C!Errors \cup {"OK", "one", "zero", "nil", "bulk", "PONG", "metrics", "bad_alloc", "none"}
IsReply(reply) == reply \in [text : ReplyTexts, blob : SUBSET Args, lines : Nat]
OptionErrors == {"syntax", "invalid_expire", "unsupported"}
Refuses(reply) == reply.text \in OptionErrors /\ IsReply(reply)

\* What the loop ends with from place k on, when the old TTL is not at k: an error,
\* or the time of the last pair.
LastOf(given, n) == C!Seconds(given[n - 1], Spelled[given[n]])
EndsWith(given, n, k, o) ==
  /\ PairsFrom(given, k) =>
       \/ k > n /\ o = OK0
       \/ /\ k < n /\ (n - 1 - k) % 2 = 0 /\ PairAt(given, n - 1)
          /\ o = C!Outcome(C!Reply("OK"), LastOf(given, n))
  /\ ~PairsFrom(given, k) => Refuses(o.reply)

LEMMA OutcomeIs ==
  ASSUME NEW reply, NEW ttl
  PROVE  C!Outcome(reply, ttl).reply = reply /\ C!Outcome(reply, ttl).ttl = ttl
BY DEF C!Outcome

LEMMA RepliedIs ==
  ASSUME NEW text, NEW ttl, NEW o, o = C!Outcome(C!Reply(text), ttl)
  PROVE  o.reply = C!Reply(text) /\ o.reply.text = text /\ o.ttl = ttl
BY DEF C!Outcome, C!Reply

LEMMA RepliesAre ==
  /\ \A text \in ReplyTexts : IsReply(C!Reply(text))
  /\ \A text \in ReplyTexts, arg \in Args :
       C!Quoting(text, arg).text = text /\ IsReply(C!Quoting(text, arg))
<1>1. ASSUME NEW text \in ReplyTexts
      PROVE  IsReply(C!Reply(text))
  BY DEF IsReply, C!Reply
<1>2. ASSUME NEW text \in ReplyTexts, NEW arg \in Args
      PROVE  C!Quoting(text, arg).text = text /\ IsReply(C!Quoting(text, arg))
  <2>1. PICK n \in Nat : n = 1 + LineEnds[arg]
    BY ProtocolAssumption DEF C!CommandsAssumption
  <2>2. C!Quoting(text, arg) = [text |-> text, blob |-> {}, lines |-> n]
    BY <2>1 DEF C!Quoting, C!Reply
  <2>3. QED
    BY <2>2 DEF IsReply
<1>3. QED
  BY <1>1, <1>2

LEMMA RefusesIs ==
  ASSUME NEW text \in OptionErrors, NEW ttl, NEW o, o = C!Outcome(C!Reply(text), ttl)
  PROVE  Refuses(o.reply)
<1>1. o.reply = C!Reply(text) /\ o.reply.text = text
  BY RepliedIs
<1>2. IsReply(C!Reply(text))
  <2>1. text \in ReplyTexts
    BY DEF OptionErrors, ReplyTexts, C!Errors
  <2>2. QED
    BY <2>1, RepliesAre, Zenon
<1>3. QED
  BY <1>1, <1>2, Zenon DEF Refuses

\* An amount that is accepted is a positive integer.
LEMMA AmountIs ==
  ASSUME NEW arg, C!IsInt(arg), Spelled[arg] > 0
  PROVE  Spelled[arg] \in Nat \ {0} /\ Spelled[arg] <= MaxInt
<1>1. Spelled[arg] \in Int /\ MaxInt \in Nat /\ Spelled[arg] \in -MaxInt - 1 .. MaxInt
  BY ProtocolAssumption DEF C!CommandsAssumption, C!IsInt
<1>2. PICK v, x : v = Spelled[arg] /\ x = MaxInt
  OBVIOUS
<1>3. v \in Int /\ x \in Nat /\ v \in -x - 1 .. x /\ v > 0
  BY <1>1, <1>2, Zenon
<1>4. v \in Nat \ {0} /\ v <= x
  BY <1>3
<1>5. QED
  BY <1>2, <1>4, Zenon

LEMMA OptionStep ==
  ASSUME NEW given \in Seq(Args), NEW n \in Nat, n = Len(given), n >= 2,
         NEW k \in 3 .. n + 2, k <= n => ~C!Legacy(given, k),
         NEW x1, NEW x2, k <= n => EndsWith(given, n, k + 2, x2),
         NEW o, o = OptionAt(given, k, x1, x2)
  PROVE  EndsWith(given, n, k, o)
<1>1. k \in Nat /\ k \in Int
  OBVIOUS
<1>2. CASE k > n
  <2>1. o = OK0
    BY <1>1, <1>2, NoOptionsLeft, Zenon
  <2>2. PairsFrom(given, k)
    BY <1>1, <1>2, PairsFromNext
  <2>3. QED
    BY <1>2, <2>1, <2>2, Zenon DEF EndsWith
<1>3. CASE k <= n /\ ~IsWordAt(given, k)
  <2>1. o = C!Outcome(C!Quoting("unsupported", given[k]), 0)
    BY <1>1, <1>3, OptionAtIs
  <2>2. Refuses(o.reply)
    <3>1. given[k] \in Args
      BY <1>1, <1>3, SeqIsFunction
    <3>2. o.reply = C!Quoting("unsupported", given[k])
      BY <2>1, OutcomeIs
    <3>3. o.reply.text = "unsupported" /\ IsReply(o.reply)
      <4>1. "unsupported" \in ReplyTexts
        BY DEF ReplyTexts, C!Errors
      <4>2. QED
        BY <3>1, <3>2, <4>1, RepliesAre, Zenon
    <3>4. QED
      BY <3>3 DEF Refuses, OptionErrors
  <2>3. ~PairsFrom(given, k)
    BY <1>1, <1>3, PairsFromNext DEF PairAt
  <2>4. QED
    BY <2>2, <2>3, Zenon DEF EndsWith
<1>4. CASE k <= n /\ IsWordAt(given, k)
  <2>1. o = IF k = n THEN C!Outcome(C!Reply("syntax"), 0)
            ELSE IF ~C!IsInt(given[k + 1]) \/ Spelled[given[k + 1]] <= 0
            THEN C!Outcome(C!Reply("invalid_expire"), 0)
            ELSE After(x2, C!Seconds(given[k], Spelled[given[k + 1]]))
    BY <1>1, <1>4, OptionAtIs
  <2>2. PairsFrom(given, k) <=> PairAt(given, k) /\ PairsFrom(given, k + 2)
    BY <1>1, <1>4, PairsFromNext
  <2>3. CASE k = n
    <3>1. o = C!Outcome(C!Reply("syntax"), 0)
      BY <2>1, <2>3, Zenon
    <3>2. Refuses(o.reply)
      BY <3>1, RefusesIs DEF OptionErrors
    <3>3. ~(k < n)
      BY <1>1, <2>3
    <3>4. ~PairsFrom(given, k)
      BY <2>2, <3>3, Zenon DEF PairAt
    <3>5. QED
      BY <3>2, <3>4, Zenon DEF EndsWith
  <2>4. CASE k # n /\ (~C!IsInt(given[k + 1]) \/ Spelled[given[k + 1]] <= 0)
    <3>1. o = C!Outcome(C!Reply("invalid_expire"), 0)
      BY <2>1, <2>4, Zenon
    <3>2. Refuses(o.reply)
      BY <3>1, RefusesIs DEF OptionErrors
    <3>3. ~(C!IsInt(given[k + 1]) /\ Spelled[given[k + 1]] > 0)
      <4>1. SUFFICES ASSUME C!IsInt(given[k + 1]), Spelled[given[k + 1]] > 0
                     PROVE  FALSE
        BY Zenon
      <4>2. PICK v : v = Spelled[given[k + 1]]
        OBVIOUS
      <4>3. v \in Nat \ {0} /\ v <= 0
        BY <2>4, <4>1, <4>2, AmountIs, Zenon
      <4>4. QED
        BY <4>3
    <3>4. ~PairsFrom(given, k)
      BY <2>2, <3>3, Zenon DEF PairAt
    <3>5. QED
      BY <3>2, <3>4, Zenon DEF EndsWith
  <2>5. CASE k # n /\ C!IsInt(given[k + 1]) /\ ~(Spelled[given[k + 1]] <= 0)
    <3>1. o = After(x2, C!Seconds(given[k], Spelled[given[k + 1]]))
      BY <2>1, <2>5, Zenon
    <3>2. PairAt(given, k)
      <4>1. k < n
        BY <1>1, <1>4, <2>5
      <4>2. Spelled[given[k + 1]] > 0
        <5>1. PICK v : v = Spelled[given[k + 1]]
          OBVIOUS
        <5>2. v \in Int /\ ~(v <= 0)
          BY <2>5, <5>1, ProtocolAssumption, Zenon DEF C!CommandsAssumption, C!IsInt
        <5>3. v > 0
          BY <5>2
        <5>4. QED
          BY <5>1, <5>3, Zenon
      <4>3. QED
        BY <1>4, <2>5, <4>1, <4>2, Zenon DEF PairAt
    <3>3. EndsWith(given, n, k + 2, x2)
      BY <1>4
    <3>4. CASE ~PairsFrom(given, k + 2)
      <4>1. Refuses(x2.reply)
        BY <3>3, <3>4, Zenon DEF EndsWith
      <4>2. OK0.reply.text = "OK"
        BY RepliedIs DEF OK0
      <4>3. x2 # OK0
        BY <4>1, <4>2 DEF Refuses, OptionErrors
      <4>4. o = x2
        BY <3>1, <4>3, Zenon DEF After
      <4>5. QED
        BY <2>2, <3>4, <4>1, <4>4, Zenon DEF EndsWith
    <3>5. CASE PairsFrom(given, k + 2) /\ k + 2 > n
      <4>1. n - 1 = k /\ k + 1 = n /\ k < n /\ (n - 1 - k) % 2 = 0 /\ ~(k + 2 < n)
        BY <1>1, <1>4, <2>5, <3>5
      <4>2. x2 = OK0
        BY <3>3, <3>5, <4>1, Zenon DEF EndsWith
      <4>3. o = C!Outcome(C!Reply("OK"), LastOf(given, n))
        BY <3>1, <4>1, <4>2, Zenon DEF After, LastOf
      <4>4. QED
        BY <2>2, <3>2, <3>5, <4>1, <4>3, Zenon DEF EndsWith
    <3>6. CASE PairsFrom(given, k + 2) /\ ~(k + 2 > n)
      <4>1. /\ k + 2 < n /\ (n - 1 - (k + 2)) % 2 = 0 /\ PairAt(given, n - 1)
            /\ x2 = C!Outcome(C!Reply("OK"), LastOf(given, n))
        BY <3>3, <3>6, Zenon DEF EndsWith
      <4>2. k < n /\ (n - 1 - k) % 2 = 0 /\ (n - 1) + 1 = n
        <5>1. k + 2 < n /\ (n - 1 - (k + 2)) % 2 = 0
          BY <4>1, Zenon
        <5>2. QED
          BY <1>1, <5>1, SMT
      <4>3. LastOf(given, n) # 0
        <5>1. PICK v : v = Spelled[given[n]]
          OBVIOUS
        <5>2. v \in Nat \ {0}
          BY <4>1, <4>2, <5>1, AmountIs, Zenon DEF PairAt
        <5>3. LastOf(given, n) \in Nat \ {0}
          <6>1. FewestSeconds(C!Seconds(given[n - 1], v), given[n - 1], v)
            BY <5>2, SecondsIs
          <6>2. C!Seconds(given[n - 1], v) \in Nat \ {0}
            BY <6>1, ZenonT(30) DEF FewestSeconds
          <6>3. QED
            BY <5>1, <6>2, Zenon DEF LastOf
        <5>4. QED
          BY <5>3
      <4>4. x2 # OK0
        BY <4>1, <4>3, OutcomeIs DEF OK0
      <4>5. o = x2
        BY <3>1, <4>4, Zenon DEF After
      <4>6. QED
        BY <2>2, <3>2, <3>6, <4>1, <4>2, <4>5, Zenon DEF EndsWith
    <3>7. QED
      BY <3>4, <3>5, <3>6
  <2>6. QED
    BY <2>3, <2>4, <2>5
<1>5. QED
  BY <1>1, <1>2, <1>3, <1>4

LEMMA OptionsEnd ==
  ASSUME NEW given \in Seq(Args), NEW n \in Nat, n = Len(given), n >= 2,
         NEW g, OptionsAre(given, g, 3)
  PROVE  \A k \in 4 .. n + 2 : EndsWith(given, n, k, g[k])
<1> DEFINE Lost == {m \in Nat : m <= n - 2 /\ ~EndsWith(given, n, n + 2 - m, g[n + 2 - m])}
<1>1. Lost = {}
  <2>1. SUFFICES ASSUME Lost # {} PROVE FALSE
    OBVIOUS
  <2>2. PICK m \in Lost : \A i \in Lost : m <= i
    <3>1. Lost \in SUBSET Nat
      BY Zenon
    <3>2. QED
      BY <2>1, <3>1, LeastNatural, Zenon
  <2>3. PICK k : k = n + 2 - m
    OBVIOUS
  <2>4. m \in Nat /\ m <= n - 2
    BY <2>2, Zenon
  <2>5. k \in 3 .. n + 2 /\ k \in 4 .. n + 2 /\ k # 3
    BY <2>3, <2>4
  <2>6. ~EndsWith(given, n, k, g[k])
    BY <2>2, <2>3, Zenon
  <2>7. g[k] = OptionAt(given, k, g[k + 1], g[k + 2])
    BY <2>5, Zenon DEF OptionsAre
  <2>8. ASSUME k <= n
        PROVE  EndsWith(given, n, k + 2, g[k + 2])
    <3>1. m - 2 \in Nat /\ m - 2 <= n - 2 /\ ~(m <= m - 2) /\ n + 2 - (m - 2) = k + 2
      BY <2>3, <2>4, <2>8
    <3>2. m - 2 \notin Lost
      BY <2>2, <3>1, Zenon
    <3>3. QED
      BY <3>1, <3>2, Zenon
  <2>9. ~C!Legacy(given, k)
    BY <2>5, Zenon DEF C!Legacy
  <2> HIDE DEF Lost
  <2>10. EndsWith(given, n, k, g[k])
    BY <2>5, <2>7, <2>8, <2>9, OptionStep
  <2>11. QED
    BY <2>6, <2>10
<1>2. ASSUME NEW k \in 4 .. n + 2
      PROVE  EndsWith(given, n, k, g[k])
  <2>1. PICK m : m = n + 2 - k
    OBVIOUS
  <2>2. m \in Nat /\ m <= n - 2 /\ n + 2 - m = k
    BY <2>1
  <2>3. QED
    BY <1>1, <2>2, Zenon
<1>3. QED
  BY <1>2

\* The greatest element of a set, and of two.
LEMMA MaxIs ==
  ASSUME NEW T \in SUBSET Int, NEW m \in T, \A y \in T : m >= y
  PROVE  C!Max(T) = m
<1>1. PICK x : x = C!Max(T)
  OBVIOUS
<1>2. x \in T /\ \A y \in T : x >= y
  BY <1>1, Zenon DEF C!Max
<1>3. x >= m /\ m >= x /\ x \in Int /\ m \in Int
  BY <1>2, Zenon
<1>4. x = m
  BY <1>3
<1>5. QED
  BY <1>1, <1>4

LEMMA MaxOfTwo ==
  ASSUME NEW x \in Int
  PROVE  C!Max({x, 0}) = (IF x > 0 THEN x ELSE 0) /\ C!Max({0, x}) = C!Max({x, 0})
<1>1. PICK m : m = (IF x > 0 THEN x ELSE 0)
  OBVIOUS
<1>2. {x, 0} \in SUBSET Int /\ m \in {x, 0} /\ \A y \in {x, 0} : m >= y
  BY <1>1
<1>3. C!Max({x, 0}) = m
  BY <1>2, MaxIs
<1>4. {0, x} = {x, 0}
  OBVIOUS
<1>5. QED
  BY <1>1, <1>3, <1>4, Zenon

\* The pairs are the grammar's, and the last of them is what was asked.
LEMMA PairsAre ==
  ASSUME NEW given, NEW n \in Nat, n = Len(given), NEW k \in Nat, k = C!OptionsFrom(given)
  PROVE  C!Grammatical(given) <=> PairsFrom(given, k)
BY Zenon DEF C!Grammatical, C!Pairs, PairsFrom, PairAt, IsWordAt

LEMMA AskedLast ==
  ASSUME NEW given, NEW n \in Nat, n = Len(given), NEW k \in Nat, k = C!OptionsFrom(given),
         k < n, (n - 1 - k) % 2 = 0, PairsFrom(given, k)
  PROVE  C!Asked(given) = Millis(given[n - 1], Spelled[given[n]])
<1>1. C!Pairs(given) = {i \in k .. n : (i - k) % 2 = 0}
  BY Zenon DEF C!Pairs
<1>2. n - 1 \in k .. n /\ (n - 1) + 1 = n
  OBVIOUS
<1>3. n - 1 \in C!Pairs(given)
  BY <1>1, <1>2, Zenon
<1>4. ASSUME NEW i \in C!Pairs(given)
      PROVE  n - 1 >= i
  <2>1. i \in k .. n /\ i < n
    BY <1>1, Zenon DEF PairsFrom, PairAt
  <2>2. QED
    BY <2>1
<1>5. C!Pairs(given) \in SUBSET Int
  BY <1>1
<1>6. C!Max(C!Pairs(given)) = n - 1
  BY <1>3, <1>4, <1>5, MaxIs
<1>7. PICK P, x : P = C!Pairs(given) /\ x = C!Max(P)
  OBVIOUS
<1>8. P # {} /\ x = n - 1 /\ x + 1 = n
  BY <1>2, <1>3, <1>6, <1>7, Zenon
<1>9. C!Asked(given) = Millis(given[x], Spelled[given[x + 1]])
  <2>1. PICK u : u = (IF given[x] \in PxWords THEN 1 ELSE 1000)
    OBVIOUS
  <2>2. C!Asked(given) = Spelled[given[x + 1]] * u
    <3>1. C!Asked(given) = Spelled[given[x + 1]] * (IF given[x] \in PxWords THEN 1 ELSE 1000)
      BY <1>7, <1>8, ZenonT(30) DEF C!Asked
    <3>2. CASE given[x] \in PxWords
      BY <2>1, <3>1, <3>2, Zenon
    <3>3. CASE given[x] \notin PxWords
      BY <2>1, <3>1, <3>3, Zenon
    <3>4. QED
      BY <3>2, <3>3
  <2>3. Millis(given[x], Spelled[given[x + 1]]) = Spelled[given[x + 1]] * u
    <3>1. CASE given[x] \in PxWords
      BY <2>1, <3>1, ZenonT(30) DEF Millis
    <3>2. CASE given[x] \notin PxWords
      BY <2>1, <3>2, ZenonT(30) DEF Millis
    <3>3. QED
      BY <3>1, <3>2
  <2>4. QED
    BY <2>2, <2>3, Zenon
<1>10. given[x + 1] = given[n] /\ given[x] = given[n - 1]
  BY <1>8, Zenon
<1>11. QED
  BY <1>9, <1>10, Zenon

\* A ttl that keeps a value as long as was asked, and less than a second longer.
KeptFor(kept, asked) ==
  kept \in Nat /\ 1000 * kept >= asked /\ 1000 * (kept - 1) < asked
Keeps(ttl, asked) ==
  ttl \in -MaxInt - 1 .. MaxInt /\ KeptFor(C!Max({ttl, 0}), asked)

LEMMA KeepsAmount ==
  ASSUME NEW ttl \in Nat \ {0}, ttl <= MaxInt, NEW asked,
         1000 * ttl >= asked, 1000 * (ttl - 1) < asked
  PROVE  Keeps(ttl, asked)
<1>1. MaxInt \in Nat
  BY ProtocolAssumption DEF C!CommandsAssumption
<1>2. ttl \in -MaxInt - 1 .. MaxInt /\ ttl \in Int /\ ttl > 0
  BY <1>1
<1>3. C!Max({ttl, 0}) = ttl
  BY <1>2, MaxOfTwo, ZenonT(30)
<1>4. KeptFor(ttl, asked)
  BY DEF KeptFor
<1>5. QED
  BY <1>2, <1>3, <1>4, ZenonT(30) DEF Keeps

LEMMA KeepsOld ==
  ASSUME NEW ttl \in -MaxInt - 1 .. MaxInt
  PROVE  Keeps(ttl, C!Max({0, ttl}) * 1000)
<1>1. ttl \in Int
  BY ProtocolAssumption DEF C!CommandsAssumption
<1>2. PICK m : m = C!Max({ttl, 0})
  OBVIOUS
<1>3. m \in Nat /\ C!Max({0, ttl}) = m
  <2>1. m = (IF ttl > 0 THEN ttl ELSE 0) /\ C!Max({0, ttl}) = m
    BY <1>1, <1>2, MaxOfTwo
  <2>2. QED
    BY <1>1, <2>1
<1>4. KeptFor(m, m * 1000)
  BY <1>3 DEF KeptFor
<1>5. QED
  BY <1>2, <1>3, <1>4, ZenonT(30) DEF Keeps

\* No option at all.
LEMMA KeepsNone == Keeps(0, 0)
<1>1. 0 \in -MaxInt - 1 .. MaxInt /\ 0 \in Int
  BY ProtocolAssumption DEF C!CommandsAssumption
<1>2. C!Max({0, 0}) = 0
  BY <1>1, MaxOfTwo
<1>3. KeptFor(0, 0)
  BY DEF KeptFor
<1>4. QED
  BY <1>1, <1>2, <1>3, Zenon DEF Keeps

\* The time of the last pair is what was asked.
LEMMA KeepsLast ==
  ASSUME NEW given, NEW n \in Nat, n = Len(given), NEW k \in Nat, k = C!OptionsFrom(given),
         k < n, (n - 1 - k) % 2 = 0, PairsFrom(given, k), PairAt(given, n - 1)
  PROVE  Keeps(LastOf(given, n), C!Asked(given)) /\ LastOf(given, n) # 0
<1>1. PICK v, s : v = Spelled[given[n]] /\ s = LastOf(given, n)
  OBVIOUS
<1>2. (n - 1) + 1 = n
  OBVIOUS
<1>3. v \in Nat \ {0} /\ v <= MaxInt
  BY <1>1, <1>2, AmountIs, Zenon DEF PairAt
<1>4. FewestSeconds(s, given[n - 1], v)
  BY <1>1, <1>3, SecondsIs, Zenon DEF LastOf
<1>5. C!Asked(given) = Millis(given[n - 1], v)
  BY <1>1, AskedLast
<1>6. PICK w : w = Millis(given[n - 1], v)
  OBVIOUS
<1>7. s \in Nat \ {0} /\ s <= v /\ 1000 * s >= w /\ 1000 * (s - 1) < w
  BY <1>4, <1>6, ZenonT(30) DEF FewestSeconds
<1>8. s <= MaxInt
  <2>1. MaxInt \in Nat
    BY ProtocolAssumption DEF C!CommandsAssumption
  <2>2. QED
    BY <1>3, <1>7, <2>1
<1>9. Keeps(s, w)
  BY <1>7, <1>8, KeepsAmount
<1>10. s # 0
  BY <1>7
<1>11. QED
  BY <1>1, <1>5, <1>6, <1>9, <1>10, Zenon

\* What the loop over the options ends with: a time that keeps what was asked when
\* the options are the grammar's, an error otherwise.
Obeys(given, o) ==
  /\ C!Grammatical(given) =>
       \E ttl : o = C!Outcome(C!Reply("OK"), ttl) /\ Keeps(ttl, C!Asked(given))
  /\ ~C!Grammatical(given) => Refuses(o.reply)

LEMMA NotOldTtl ==
  ASSUME NEW given, NEW n \in Nat, n = Len(given), n >= 2,
         NEW k, k = C!OptionsFrom(given), k = 3, NEW o, EndsWith(given, n, 3, o)
  PROVE  Obeys(given, o)
<1>1. C!Grammatical(given) <=> PairsFrom(given, 3)
  BY PairsAre
<1>2. CASE ~PairsFrom(given, 3)
  BY <1>1, <1>2, Zenon DEF EndsWith, Obeys
<1>3. CASE PairsFrom(given, 3) /\ 3 > n
  <2>1. o = C!Outcome(C!Reply("OK"), 0)
    <3>1. ~(3 < n)
      BY <1>3
    <3>2. QED
      BY <1>3, <3>1, Zenon DEF EndsWith, OK0
  <2>2. C!Asked(given) = 0
    <3>1. ~(Len(given) > 2) /\ 3 .. Len(given) = {}
      BY <1>3
    <3>2. C!Pairs(given) = {}
      BY <3>1, Zenon DEF C!Pairs
    <3>3. QED
      BY <3>1, <3>2, ZenonT(30) DEF C!Asked
  <2>3. QED
    BY <1>1, <1>3, <2>1, <2>2, KeepsNone, Zenon DEF Obeys
<1>4. CASE PairsFrom(given, 3) /\ ~(3 > n)
  <2>1. /\ 3 < n /\ (n - 1 - 3) % 2 = 0 /\ PairAt(given, n - 1)
        /\ o = C!Outcome(C!Reply("OK"), LastOf(given, n))
    BY <1>4, Zenon DEF EndsWith
  <2>2. Keeps(LastOf(given, n), C!Asked(given))
    BY <1>4, <2>1, KeepsLast
  <2>3. QED
    BY <1>1, <1>4, <2>1, <2>2, Zenon DEF Obeys
<1>5. QED
  BY <1>2, <1>3, <1>4

LEMMA OldTtl ==
  ASSUME NEW given, NEW n \in Nat, n = Len(given), n >= 3, C!IsInt(given[3]),
         NEW x, EndsWith(given, n, 4, x), NEW o, o = After(x, Spelled[given[3]])
  PROVE  Obeys(given, o)
<1>1. C!OptionsFrom(given) = 4 /\ Len(given) > 2
  <2>1. Len(given) > 2
    OBVIOUS
  <2>2. QED
    BY <2>1, Zenon DEF C!OptionsFrom
<1>2. C!Grammatical(given) <=> PairsFrom(given, 4)
  BY <1>1, PairsAre
<1>3. CASE ~PairsFrom(given, 4)
  <2>1. Refuses(x.reply)
    BY <1>3, Zenon DEF EndsWith
  <2>2. OK0.reply.text = "OK"
    BY RepliedIs DEF OK0
  <2>3. x # OK0
    BY <2>1, <2>2 DEF Refuses, OptionErrors
  <2>4. o = x
    BY <2>3, Zenon DEF After
  <2>5. QED
    BY <1>2, <1>3, <2>1, <2>4, Zenon DEF Obeys
<1>4. CASE PairsFrom(given, 4) /\ 4 > n
  <2>1. x = OK0
    <3>1. ~(4 < n)
      BY <1>4
    <3>2. QED
      BY <1>4, <3>1, Zenon DEF EndsWith
  <2>2. PICK ttl : ttl = Spelled[given[3]]
    OBVIOUS
  <2>3. o = C!Outcome(C!Reply("OK"), ttl)
    BY <2>1, <2>2, Zenon DEF After
  <2>4. C!Asked(given) = C!Max({0, ttl}) * 1000
    <3>1. 4 .. Len(given) = {}
      BY <1>4
    <3>2. C!Pairs(given) = {}
      BY <1>1, <3>1, Zenon DEF C!Pairs
    <3>3. QED
      BY <1>1, <2>2, <3>2, ZenonT(30) DEF C!Asked
  <2>5. Keeps(ttl, C!Asked(given))
    <3>1. ttl \in -MaxInt - 1 .. MaxInt
      BY <2>2, Zenon DEF C!IsInt
    <3>2. QED
      BY <2>4, <3>1, KeepsOld, ZenonT(30)
  <2>6. QED
    BY <1>2, <1>4, <2>3, <2>5, Zenon DEF Obeys
<1>5. CASE PairsFrom(given, 4) /\ ~(4 > n)
  <2>1. /\ 4 < n /\ (n - 1 - 4) % 2 = 0 /\ PairAt(given, n - 1)
        /\ x = C!Outcome(C!Reply("OK"), LastOf(given, n))
    BY <1>5, Zenon DEF EndsWith
  <2>2. Keeps(LastOf(given, n), C!Asked(given)) /\ LastOf(given, n) # 0
    BY <1>1, <1>5, <2>1, KeepsLast
  <2>3. x # OK0
    BY <2>1, <2>2, OutcomeIs DEF OK0
  <2>4. o = x
    BY <2>3, Zenon DEF After
  <2>5. QED
    BY <1>2, <1>5, <2>1, <2>2, <2>4, Zenon DEF Obeys
<1>6. QED
  BY <1>3, <1>4, <1>5

LEMMA OptionsObey ==
  ASSUME NEW given \in Seq(Args), NEW n \in Nat, n = Len(given), n >= 2
  PROVE  Obeys(given, C!Options(given))
<1>1. PICK g : OptionsAre(given, g, 3) /\ C!Options(given) = g[3]
  BY OptionsFunction
<1>2. /\ 3 \in 3 .. n + 2 /\ 4 \in 4 .. n + 2 /\ 3 + 1 = 4 /\ 3 + 2 = 5
      /\ 3 <= n => 5 \in 4 .. n + 2
  OBVIOUS
<1>3. g[3] = OptionAt(given, 3, g[4], g[5])
  BY <1>1, <1>2, Zenon DEF OptionsAre
<1>4. \A k \in 4 .. n + 2 : EndsWith(given, n, k, g[k])
  BY <1>1, OptionsEnd
<1>5. CASE 3 <= n /\ C!IsInt(given[3])
  <2>1. C!Legacy(given, 3)
    BY <1>5, Zenon DEF C!Legacy
  <2>2. ~IsWordAt(given, 3)
    BY <1>5, ProtocolAssumption, Zenon DEF C!CommandsAssumption, C!IsInt, IsWordAt
  <2>3. g[3] = After(g[4], Spelled[given[3]])
    BY <1>3, <1>5, <2>1, <2>2, OptionAtIs
  <2>4. EndsWith(given, n, 4, g[4])
    BY <1>2, <1>4, Zenon
  <2>5. n >= 3
    BY <1>5
  <2>6. QED
    BY <1>1, <1>5, <2>3, <2>4, <2>5, OldTtl
<1>6. CASE ~(3 <= n /\ C!IsInt(given[3]))
  <2>1. C!OptionsFrom(given) = 3
    <3>1. Len(given) > 2 => 3 <= n
      OBVIOUS
    <3>2. QED
      BY <1>6, <3>1, Zenon DEF C!OptionsFrom
  <2>2. 3 <= n => ~C!Legacy(given, 3)
    BY <1>6, Zenon DEF C!Legacy
  <2>3. 3 <= n => EndsWith(given, n, 5, g[5])
    BY <1>2, <1>4, Zenon
  <2>4. EndsWith(given, n, 3, g[3])
    BY <1>2, <1>3, <2>2, <2>3, OptionStep
  <2>5. QED
    BY <1>1, <2>1, <2>4, NotOldTtl
<1>7. QED
  BY <1>5, <1>6

\* SET is answered with OK, and a time that keeps what was asked, exactly when
\* the README's grammar and the limits have it so.
Checks(given, o) ==
  /\ C!Acceptable(given) =>
       \E ttl : o = C!Outcome(C!Reply("OK"), ttl) /\ Keeps(ttl, C!Asked(given))
  /\ ~C!Acceptable(given) => o.reply.text \in C!Errors /\ IsReply(o.reply)

LEMMA ErrorIs ==
  ASSUME NEW text \in C!Errors, NEW ttl, NEW o, o = C!Outcome(C!Reply(text), ttl)
  PROVE  o.reply.text \in C!Errors /\ IsReply(o.reply)
<1>1. o.reply = C!Reply(text) /\ o.reply.text = text
  BY RepliedIs
<1>2. IsReply(C!Reply(text))
  <2>1. text \in ReplyTexts
    BY DEF ReplyTexts
  <2>2. QED
    BY <2>1, RepliesAre, Zenon
<1>3. QED
  BY <1>1, <1>2, Zenon

LEMMA CheckedObeys ==
  ASSUME NEW given \in Seq(Args)
  PROVE  Checks(given, C!Checked(given))
<1>1. PICK n \in Nat : n = Len(given)
  BY SeqIsFunction
<1>2. PICK o : o = C!Checked(given)
  OBVIOUS
<1>3. CASE n < 2
  <2>1. ~(n >= 2)
    BY <1>3
  <2>2. o = C!Outcome(C!Reply("wrong_number"), 0)
    BY <1>1, <1>2, <1>3, <2>1, Zenon DEF C!Checked
  <2>3. o.reply.text \in C!Errors /\ IsReply(o.reply)
    BY <2>2, ErrorIs DEF C!Errors
  <2>4. QED
    BY <1>1, <1>2, <2>1, <2>3, Zenon DEF Checks, C!Acceptable
<1>4. CASE n >= 2
  <2>1. given[1] \in Args /\ given[2] \in Args
    BY <1>1, <1>4, SeqIsFunction
  <2>2. PICK sk, sv, km, vm :
          sk = Size[given[1]] /\ sv = Size[given[2]] /\ km = kMaxKeySize /\ vm = max_value_size
    OBVIOUS
  <2>3. /\ sk \in Nat /\ sv \in Nat /\ km \in Nat /\ vm \in Nat
        /\ ~(n < 2)
    <3>1. Size[given[1]] \in Nat /\ Size[given[2]] \in Nat /\ kMaxKeySize \in Nat
          /\ max_value_size \in Nat
      BY <2>1, ProtocolAssumption DEF C!CommandsAssumption
    <3>2. QED
      BY <1>4, <2>2, <3>1
  <2>4. (sk > km <=> ~(sk <= km)) /\ (sv > vm <=> ~(sv <= vm))
    BY <2>3
  <2>5. CASE sk > km
    <3>1. o = C!Outcome(C!Reply("key_too_large"), 0)
      BY <1>1, <1>2, <1>4, <2>2, <2>3, <2>4, <2>5, Zenon DEF C!Checked
    <3>2. o.reply.text \in C!Errors /\ IsReply(o.reply)
      BY <3>1, ErrorIs DEF C!Errors
    <3>3. ~C!Acceptable(given)
      BY <2>2, <2>4, <2>5, Zenon DEF C!Acceptable, C!can_store
    <3>4. QED
      BY <1>2, <3>2, <3>3, Zenon DEF Checks
  <2>6. CASE sk <= km /\ sv > vm
    <3>1. o = C!Outcome(C!Reply("value_too_large"), 0)
      BY <1>1, <1>2, <1>4, <2>2, <2>3, <2>4, <2>6, Zenon DEF C!Checked
    <3>2. o.reply.text \in C!Errors /\ IsReply(o.reply)
      BY <3>1, ErrorIs DEF C!Errors
    <3>3. ~C!Acceptable(given)
      BY <2>2, <2>4, <2>6, Zenon DEF C!Acceptable, C!can_store
    <3>4. QED
      BY <1>2, <3>2, <3>3, Zenon DEF Checks
  <2>7. CASE sk <= km /\ sv <= vm
    <3>1. PICK x : x = C!Options(given) /\ Obeys(given, x)
      BY <1>1, <1>4, OptionsObey
    <3>2. o = IF x.reply.text = "OK" /\ ~C!can_store(given[1], given[2])
              THEN C!Outcome(C!Reply("no_room"), 0) ELSE x
      BY <1>1, <1>2, <1>4, <2>2, <2>3, <2>4, <2>7, <3>1, Zenon DEF C!Checked
    <3>3. CASE ~C!Grammatical(given)
      <4>1. Refuses(x.reply)
        BY <3>1, <3>3, Zenon DEF Obeys
      <4>2. x.reply.text \in C!Errors /\ x.reply.text # "OK" /\ IsReply(x.reply)
        BY <4>1 DEF Refuses, OptionErrors, C!Errors
      <4>3. o = x
        BY <3>2, <4>2, Zenon
      <4>4. QED
        BY <1>2, <3>3, <4>2, <4>3, Zenon DEF Checks, C!Acceptable
    <3>4. CASE C!Grammatical(given)
      <4>1. PICK ttl : x = C!Outcome(C!Reply("OK"), ttl) /\ Keeps(ttl, C!Asked(given))
        BY <3>1, <3>4, Zenon DEF Obeys
      <4>2. x.reply.text = "OK"
        BY <4>1, RepliedIs
      <4>3. CASE C!can_store(given[1], given[2])
        <5>1. o = x
          BY <3>2, <4>3, Zenon
        <5>2. C!Acceptable(given)
          BY <1>1, <1>4, <3>4, <4>3, Zenon DEF C!Acceptable
        <5>3. QED
          BY <1>2, <4>1, <5>1, <5>2, Zenon DEF Checks
      <4>4. CASE ~C!can_store(given[1], given[2])
        <5>1. o = C!Outcome(C!Reply("no_room"), 0)
          BY <3>2, <4>2, <4>4, Zenon
        <5>2. o.reply.text \in C!Errors /\ IsReply(o.reply)
          BY <5>1, ErrorIs DEF C!Errors
        <5>3. QED
          BY <1>2, <4>4, <5>2, Zenon DEF Checks, C!Acceptable
      <4>5. QED
        BY <4>3, <4>4
    <3>5. QED
      BY <3>3, <3>4
  <2>8. QED
    BY <2>4, <2>5, <2>6, <2>7
<1>5. QED
  BY <1>1, <1>3, <1>4

\* Storage, the log and the reply: what is in them.
StoreOK ==
  DOMAIN store \subseteq Args /\ \A k \in DOMAIN store : store[k] \in [value : Args, ttl : Nat]
Records ==
  [cmd : {"SET"}, key : Args, value : Args, ttl : -MaxInt - 1 .. MaxInt]
  \cup [cmd : {"DEL"}, key : Args]
CommandInv ==
  StoreOK /\ log \in Seq(Records) /\ ran \in 0 .. MaxCommands /\ IsReply(latest.reply)

LEMMA CommandTypes == CommandInv => C!TypeOK
BY DEF CommandInv, StoreOK, Records, IsReply, ReplyTexts, C!TypeOK

LEMMA CommandInit == C!Init => CommandInv
<1>1. SUFFICES ASSUME C!Init PROVE CommandInv
  OBVIOUS
<1>2. MaxCommands \in Nat /\ "none" \in ReplyTexts
  BY ProtocolAssumption DEF C!CommandsAssumption, ReplyTexts
<1>3. DOMAIN store = {} /\ log = <<>> /\ ran = 0 /\ latest.reply = C!Reply("none")
  BY <1>1 DEF C!Init
<1>4. IsReply(latest.reply)
  BY <1>2, <1>3, RepliesAre
<1>5. QED
  BY <1>2, <1>3, <1>4 DEF CommandInv, StoreOK

\* The arguments of a command.
LEMMA ArgumentsAre ==
  ASSUME NEW cmd \in Inputs
  PROVE  /\ cmd.args \in Seq(Args)
         /\ cmd.args # <<>> => cmd.args[1] \in Args
         /\ Len(cmd.args) >= 2 => cmd.args[1] \in Args /\ cmd.args[2] \in Args
<1>1. PICK given : given = cmd.args
  OBVIOUS
<1>2. given \in Seq(Args)
  BY <1>1, ProtocolAssumption DEF C!CommandsAssumption
<1>3. given # <<>> => 1 \in 1 .. Len(given)
  BY <1>2, SeqIsFunction
<1>4. Len(given) >= 2 => 1 \in 1 .. Len(given) /\ 2 \in 1 .. Len(given)
  BY <1>2, SeqIsFunction
<1>5. \A i \in 1 .. Len(given) : given[i] \in Args
  BY <1>2, SeqIsFunction
<1>6. QED
  BY <1>1, <1>2, <1>3, <1>4, <1>5, Zenon

\* A value stored, and a key that leaves.
LEMMA StoredIs ==
  ASSUME StoreOK, NEW given, given[1] \in Args, given[2] \in Args, NEW ttl,
         C!Max({ttl, 0}) \in Nat, store' = C!Stored(given, ttl)
  PROVE  StoreOK' /\ store'[given[1]] = [value |-> given[2], ttl |-> C!Max({ttl, 0})]
<1>1. PICK key, value, kept : key = given[1] /\ value = given[2] /\ kept = C!Max({ttl, 0})
  OBVIOUS
<1>2. store' = [k \in DOMAIN store \cup {key} |->
                  IF k = key THEN [value |-> value, ttl |-> kept] ELSE store[k]]
  BY <1>1, Zenon DEF C!Stored
<1>3. key \in Args /\ value \in Args /\ kept \in Nat
  BY <1>1
<1>4. StoreOK'
  BY <1>2, <1>3, SMT DEF StoreOK
<1>5. store'[key] = [value |-> value, ttl |-> kept]
  BY <1>2
<1>6. QED
  BY <1>1, <1>4, <1>5, ZenonT(30)

LEMMA WithoutIs ==
  ASSUME StoreOK, NEW key, store' = C!Without(key)
  PROVE  StoreOK'
<1>1. store' = [k \in DOMAIN store \ {key} |-> store[k]]
  BY DEF C!Without, C!Restrict
<1>2. QED
  BY <1>1 DEF StoreOK

\* What is kept of a ttl is a natural number.
LEMMA KeptIsNat ==
  ASSUME NEW ttl \in Int
  PROVE  C!Max({ttl, 0}) \in Nat
<1>1. C!Max({ttl, 0}) = (IF ttl > 0 THEN ttl ELSE 0)
  BY MaxOfTwo
<1>2. QED
  BY <1>1

LEMMA RecordIs ==
  ASSUME NEW given, given[1] \in Args, given[2] \in Args, NEW ttl \in -MaxInt - 1 .. MaxInt
  PROVE  C!SetRecord(given, ttl) \in Records /\ C!SetRecord(given, ttl).ttl = ttl
<1>1. PICK key \in Args, value \in Args : key = given[1] /\ value = given[2]
  OBVIOUS
<1>2. C!SetRecord(given, ttl) = [cmd |-> "SET", key |-> key, value |-> value, ttl |-> ttl]
  BY <1>1, Zenon DEF C!SetRecord
<1>3. QED
  BY <1>2 DEF Records

\* SET is taken when it is acceptable, and only then.
LEMMA TakenOrRefused ==
  ASSUME NEW cmd \in Inputs, NEW o, o = C!Checked(cmd.args)
  PROVE  \/ /\ o.reply.text = "OK" /\ IsReply(o.reply) /\ C!Acceptable(cmd.args)
            /\ Len(cmd.args) >= 2 /\ Keeps(o.ttl, C!Asked(cmd.args))
         \/ /\ o.reply.text \in C!Errors /\ o.reply.text # "OK" /\ IsReply(o.reply)
            /\ ~C!Acceptable(cmd.args)
<1>1. Checks(cmd.args, o)
  BY ArgumentsAre, CheckedObeys
<1>2. CASE C!Acceptable(cmd.args)
  <2>1. PICK ttl : o = C!Outcome(C!Reply("OK"), ttl) /\ Keeps(ttl, C!Asked(cmd.args))
    BY <1>1, <1>2, Zenon DEF Checks
  <2>2. o.reply = C!Reply("OK") /\ o.reply.text = "OK" /\ o.ttl = ttl
    BY <2>1, RepliedIs
  <2>3. IsReply(C!Reply("OK"))
    <3>1. "OK" \in ReplyTexts
      BY DEF ReplyTexts
    <3>2. QED
      BY <3>1, RepliesAre
  <2>4. Len(cmd.args) >= 2
    BY <1>2, Zenon DEF C!Acceptable
  <2>5. QED
    BY <1>2, <2>1, <2>2, <2>3, <2>4, Zenon
<1>3. CASE ~C!Acceptable(cmd.args)
  <2>1. o.reply.text \in C!Errors /\ IsReply(o.reply)
    BY <1>1, <1>3, Zenon DEF Checks
  <2>2. o.reply.text # "OK"
    BY <2>1, NoErrors
  <2>3. QED
    BY <1>3, <2>1, <2>2, Zenon
<1>4. QED
  BY <1>2, <1>3

\* The steps of a command.
LEMMA Serves ==
  ASSUME ran \in 0 .. MaxCommands, ran < MaxCommands,
         NEW cmd, NEW reply, IsReply(reply), C!Serve(cmd, reply)
  PROVE  ran' \in 0 .. MaxCommands /\ IsReply(latest'.reply)
<1>1. ran' = ran + 1 /\ latest'.reply = reply
  BY DEF C!Serve
<1>2. MaxCommands \in Nat
  BY ProtocolAssumption DEF C!CommandsAssumption
<1>3. ran' \in 0 .. MaxCommands
  BY <1>1, <1>2
<1>4. QED
  BY <1>1, <1>3

LEMMA BulkIs ==
  ASSUME NEW arg \in Args
  PROVE  IsReply(C!Bulk(arg))
BY DEF C!Bulk, C!Reply, IsReply, ReplyTexts

LEMMA CommandSet ==
  ASSUME CommandInv, ran < MaxCommands, NEW cmd \in Inputs,
         C!SetFails(cmd) \/ C!SetStores(cmd) \/ C!SetThrows(cmd)
  PROVE  CommandInv'
<1>1. PICK given : given = cmd.args
  OBVIOUS
<1>2. PICK set : set = C!Checked(given)
  OBVIOUS
<1>3. /\ StoreOK /\ log \in Seq(Records) /\ ran \in 0 .. MaxCommands
  BY DEF CommandInv
<1>4. \/ /\ set.reply.text = "OK" /\ IsReply(set.reply) /\ C!Acceptable(given)
         /\ Len(given) >= 2 /\ Keeps(set.ttl, C!Asked(given))
      \/ /\ set.reply.text \in C!Errors /\ set.reply.text # "OK" /\ IsReply(set.reply)
         /\ ~C!Acceptable(given)
  BY <1>1, <1>2, TakenOrRefused
<1>5. CASE C!SetFails(cmd)
  <2>1. C!Serve(cmd, set.reply) /\ UNCHANGED <<store, log>>
    BY <1>1, <1>2, <1>5, Zenon DEF C!SetFails
  <2>2. ran' \in 0 .. MaxCommands /\ IsReply(latest'.reply)
    BY <1>3, <1>4, <2>1, Serves
  <2>3. QED
    BY <1>3, <2>1, <2>2 DEF CommandInv, StoreOK
<1>6. ASSUME set.reply.text = "OK"
      PROVE  /\ given[1] \in Args /\ given[2] \in Args
             /\ set.ttl \in -MaxInt - 1 .. MaxInt /\ C!Max({set.ttl, 0}) \in Nat
             /\ IsReply(set.reply)
             /\ Append(log, C!SetRecord(given, set.ttl)) \in Seq(Records)
  <2>1. Len(given) >= 2 /\ Keeps(set.ttl, C!Asked(given)) /\ IsReply(set.reply)
    BY <1>4, <1>6, Zenon
  <2>2. given[1] \in Args /\ given[2] \in Args
    BY <1>1, <2>1, ArgumentsAre
  <2>3. set.ttl \in -MaxInt - 1 .. MaxInt /\ C!Max({set.ttl, 0}) \in Nat
    BY <2>1, ZenonT(30) DEF Keeps, KeptFor
  <2>4. C!SetRecord(given, set.ttl) \in Records
    BY <2>2, <2>3, RecordIs
  <2>5. Append(log, C!SetRecord(given, set.ttl)) \in Seq(Records)
    BY <1>3, <2>4
  <2>6. QED
    BY <2>1, <2>2, <2>3, <2>5, Zenon
<1>7. CASE C!SetStores(cmd)
  <2>1. /\ set.reply.text = "OK" /\ C!Serve(cmd, set.reply)
        /\ log' = Append(log, C!SetRecord(given, set.ttl))
        /\ store' = C!Stored(given, set.ttl)
    BY <1>1, <1>2, <1>7, Zenon DEF C!SetStores
  <2>2. StoreOK'
    BY <1>3, <1>6, <2>1, StoredIs
  <2>3. ran' \in 0 .. MaxCommands /\ IsReply(latest'.reply)
    BY <1>3, <1>6, <2>1, Serves
  <2>4. QED
    BY <1>6, <2>1, <2>2, <2>3, Zenon DEF CommandInv
<1>8. CASE C!SetThrows(cmd)
  <2>1. PICK left : left = IF given[1] \in DOMAIN store THEN store[given[1]].ttl ELSE 0
    OBVIOUS
  <2>2. /\ set.reply.text = "OK" /\ C!Serve(cmd, C!Reply("bad_alloc"))
        /\ \/ UNCHANGED <<store, log>>
           \/ /\ log' = Append(log, C!SetRecord(given, set.ttl))
              /\ UNCHANGED store \/ store' = C!Stored(given, left)
    BY <1>1, <1>2, <1>8, <2>1, Zenon DEF C!SetThrows
  <2>3. IsReply(C!Reply("bad_alloc"))
    <3>1. "bad_alloc" \in ReplyTexts
      BY DEF ReplyTexts
    <3>2. QED
      BY <3>1, RepliesAre
  <2>4. ran' \in 0 .. MaxCommands /\ IsReply(latest'.reply)
    BY <1>3, <2>2, <2>3, Serves
  <2>5. left \in Int
    BY <1>3, <2>1 DEF StoreOK
  <2>6. StoreOK'
    <3>1. CASE UNCHANGED store
      BY <1>3, <3>1 DEF StoreOK
    <3>2. CASE store' = C!Stored(given, left)
      BY <1>3, <1>6, <2>2, <2>5, <3>2, KeptIsNat, StoredIs
    <3>3. QED
      BY <2>2, <3>1, <3>2
  <2>7. log' \in Seq(Records)
    BY <1>3, <1>6, <2>2, Zenon
  <2>8. QED
    BY <2>4, <2>6, <2>7, Zenon DEF CommandInv
<1>9. QED
  BY <1>5, <1>7, <1>8

LEMMA CommandGet ==
  ASSUME CommandInv, ran < MaxCommands, NEW cmd \in Inputs, C!GET(cmd)
  PROVE  CommandInv'
<1>1. StoreOK /\ ran \in 0 .. MaxCommands
  BY DEF CommandInv
<1>2. PICK reply : C!Serve(cmd, reply) /\ IsReply(reply)
  <2>1. IsReply(C!Reply("wrong_number")) /\ IsReply(C!Reply("nil"))
    <3>1. "wrong_number" \in ReplyTexts /\ "nil" \in ReplyTexts
      BY DEF ReplyTexts, C!Errors
    <3>2. QED
      BY <3>1, RepliesAre
  <2>2. ASSUME NEW k \in DOMAIN store
        PROVE  IsReply(C!Bulk(store[k].value))
    <3>1. store[k].value \in Args
      BY <1>1 DEF StoreOK
    <3>2. QED
      BY <3>1, BulkIs
  <2>3. QED
    BY <2>1, <2>2, Zenon DEF C!GET
<1>3. UNCHANGED <<store, log>>
  BY DEF C!GET
<1>4. ran' \in 0 .. MaxCommands /\ IsReply(latest'.reply)
  BY <1>1, <1>2, Serves
<1>5. QED
  BY <1>3, <1>4 DEF CommandInv, StoreOK

LEMMA CommandDel ==
  ASSUME CommandInv, ran < MaxCommands, NEW cmd \in Inputs, C!DelFails(cmd) \/ C!DEL(cmd)
  PROVE  CommandInv'
<1>1. StoreOK /\ log \in Seq(Records) /\ ran \in 0 .. MaxCommands
  BY DEF CommandInv
<1>2. IsReply(C!Reply("wrong_number")) /\ IsReply(C!Reply("one")) /\ IsReply(C!Reply("zero"))
  <2>1. "wrong_number" \in ReplyTexts /\ "one" \in ReplyTexts /\ "zero" \in ReplyTexts
    BY DEF ReplyTexts, C!Errors
  <2>2. QED
    BY <2>1, RepliesAre
<1>3. CASE C!DelFails(cmd)
  <2>1. C!Serve(cmd, C!Reply("wrong_number")) /\ UNCHANGED <<store, log>>
    BY <1>3, Zenon DEF C!DelFails
  <2>2. ran' \in 0 .. MaxCommands /\ IsReply(latest'.reply)
    BY <1>1, <1>2, <2>1, Serves
  <2>3. QED
    BY <1>1, <2>1, <2>2 DEF CommandInv, StoreOK
<1>4. CASE C!DEL(cmd)
  <2>1. PICK key : key = cmd.args[1]
    OBVIOUS
  <2>2. PICK text \in {"one", "zero"} : C!Serve(cmd, C!Reply(text))
    BY <1>4, Zenon DEF C!DEL
  <2>3. /\ store' = C!Without(key)
        /\ log' = log \/ log' = Append(log, [cmd |-> "DEL", key |-> key])
        /\ cmd.args # <<>>
    BY <1>4, <2>1, Zenon DEF C!DEL
  <2>4. IsReply(C!Reply(text))
    BY <1>2, <2>2
  <2>5. ran' \in 0 .. MaxCommands /\ IsReply(latest'.reply)
    BY <1>1, <2>2, <2>4, Serves
  <2>6. StoreOK'
    BY <1>1, <2>3, WithoutIs
  <2>7. log' \in Seq(Records)
    <3>1. key \in Args
      BY <2>1, <2>3, ArgumentsAre
    <3>2. [cmd |-> "DEL", key |-> key] \in Records
      BY <3>1 DEF Records
    <3>3. QED
      BY <1>1, <2>3, <3>2
  <2>8. QED
    BY <2>5, <2>6, <2>7, Zenon DEF CommandInv
<1>5. QED
  BY <1>3, <1>4

LEMMA CommandOther ==
  ASSUME CommandInv, ran < MaxCommands, NEW cmd \in Inputs, C!Others(cmd) \/ C!PingThrows(cmd)
  PROVE  CommandInv'
<1>1. StoreOK /\ ran \in 0 .. MaxCommands
  BY DEF CommandInv
<1>2. /\ IsReply(C!Reply("OK")) /\ IsReply(C!Reply("PONG")) /\ IsReply(C!Reply("metrics"))
      /\ IsReply(C!Reply("bad_alloc"))
  <2>1. {"OK", "PONG", "metrics", "bad_alloc"} \subseteq ReplyTexts
    BY DEF ReplyTexts
  <2>2. QED
    BY <2>1, RepliesAre
<1>3. UNCHANGED <<store, log>>
  BY Zenon DEF C!Others, C!PingThrows
<1>4. PICK reply : C!Serve(cmd, reply) /\ IsReply(reply)
  <2>1. CASE C!PingThrows(cmd)
    BY <1>2, <2>1, Zenon DEF C!PingThrows
  <2>2. CASE C!Others(cmd) /\ cmd.type = "PING"
    <3>1. PICK reply : C!Serve(cmd, reply)
                       /\ reply = IF cmd.args = <<>> THEN C!Reply("PONG") ELSE C!Bulk(cmd.args[1])
      BY <2>2 DEF C!Others
    <3>2. cmd.args # <<>> => IsReply(C!Bulk(cmd.args[1]))
      BY ArgumentsAre, BulkIs
    <3>3. QED
      BY <1>2, <3>1, <3>2, Zenon
  <2>3. CASE C!Others(cmd) /\ cmd.type = "SELECT"
    <3>1. C!Serve(cmd, C!Reply("OK"))
      BY <2>3 DEF C!Others
    <3>2. QED
      BY <1>2, <3>1
  <2>4. CASE C!Others(cmd) /\ cmd.type = "METRICS"
    <3>1. C!Serve(cmd, C!Reply("metrics"))
      BY <2>4 DEF C!Others
    <3>2. QED
      BY <1>2, <3>1
  <2>5. CASE C!Others(cmd) /\ cmd.type = "UNKNOWN"
    <3>1. C!Serve(cmd, C!Quoting("unknown", cmd.verb))
      BY <2>5 DEF C!Others
    <3>2. cmd.verb \in Args
      BY <2>5, ProtocolAssumption, Zenon DEF C!CommandsAssumption
    <3>3. "unknown" \in ReplyTexts
      BY DEF ReplyTexts, C!Errors
    <3>4. QED
      BY <3>1, <3>2, <3>3, RepliesAre
  <2>6. QED
    BY <2>1, <2>2, <2>3, <2>4, <2>5 DEF C!Others
<1>5. ran' \in 0 .. MaxCommands /\ IsReply(latest'.reply)
  BY <1>1, <1>4, Serves
<1>6. QED
  BY <1>3, <1>5 DEF CommandInv, StoreOK

LEMMA CommandNext == CommandInv /\ [C!Next]_C!vars => CommandInv'
<1>1. ASSUME CommandInv, C!Next
      PROVE  CommandInv'
  <2>1. ASSUME NEW key, C!Leaves(key)
        PROVE  CommandInv'
    <3>1. store' = C!Without(key) /\ UNCHANGED <<log, latest, ran>>
      BY <2>1 DEF C!Leaves
    <3>2. StoreOK'
      BY <1>1, <3>1, WithoutIs DEF CommandInv
    <3>3. QED
      BY <1>1, <3>1, <3>2 DEF CommandInv
  <2>2. QED
    BY <1>1, <2>1, CommandSet, CommandGet, CommandDel, CommandOther, Zenon DEF C!Next
<1>2. ASSUME CommandInv, UNCHANGED C!vars
      PROVE  CommandInv'
  BY <1>2 DEF C!vars, CommandInv, StoreOK
<1>3. QED
  BY <1>1, <1>2

LEMMA AlwaysCommandInv == C!Spec => []CommandInv
BY CommandInit, CommandNext, PTL DEF C!Spec

\* execute_command keeps keys, values and times in Storage, and records in the
\* log, of the types they have, for every command that may be sent.
THEOREM CommandsTypeCorrect == C!Spec => []C!TypeOK
BY AlwaysCommandInv, CommandTypes, PTL

\* A step that takes a SET as the README has it.
AsDocumented ==
  (ran' # ran /\ latest'.cmd.type = "SET" /\ latest'.reply.text # "bad_alloc") =>
    LET given == latest'.cmd.args
        kept == store'[given[1]]
    IN  IF C!Acceptable(given)
        THEN /\ latest'.reply.text = "OK"
             /\ kept.value = given[2]
             /\ 1000 * kept.ttl >= C!Asked(given)
             /\ 1000 * (kept.ttl - 1) < C!Asked(given)
             /\ C!Max({log'[Len(log')].ttl, 0}) = kept.ttl
        ELSE latest'.reply.text \in C!Errors

LEMMA StoredAsDocumented ==
  ASSUME CommandInv, NEW cmd \in Inputs, C!SetStores(cmd)
  PROVE  AsDocumented
<1>1. PICK given, set : given = cmd.args /\ set = C!Checked(given)
  OBVIOUS
<1>2. /\ set.reply.text = "OK" /\ C!Serve(cmd, set.reply)
      /\ log' = Append(log, C!SetRecord(given, set.ttl))
      /\ store' = C!Stored(given, set.ttl)
  BY <1>1, Zenon DEF C!SetStores
<1>3. latest'.cmd = cmd /\ latest'.reply = set.reply
  BY <1>2, Answered
<1>4. Len(given) >= 2 /\ Keeps(set.ttl, C!Asked(given)) /\ C!Acceptable(given)
  BY <1>1, <1>2, TakenOrRefused
<1>5. given[1] \in Args /\ given[2] \in Args
  BY <1>1, <1>4, ArgumentsAre
<1>6. PICK kept, asked, ttl : kept = C!Max({ttl, 0}) /\ asked = C!Asked(given) /\ ttl = set.ttl
  OBVIOUS
<1>7. /\ ttl \in -MaxInt - 1 .. MaxInt /\ kept \in Nat
      /\ 1000 * kept >= asked /\ 1000 * (kept - 1) < asked
  <2>1. Keeps(ttl, asked)
    BY <1>4, <1>6, Zenon
  <2>2. ttl \in -MaxInt - 1 .. MaxInt /\ KeptFor(C!Max({ttl, 0}), asked)
    BY <2>1, Zenon DEF Keeps
  <2>3. KeptFor(kept, asked)
    BY <1>6, <2>2, Zenon
  <2>4. QED
    BY <2>2, <2>3, ZenonT(30) DEF KeptFor
<1>8. store'[given[1]] = [value |-> given[2], ttl |-> kept]
  BY <1>2, <1>5, <1>6, <1>7, StoredIs, ZenonT(30) DEF CommandInv
<1>9. log'[Len(log')].ttl = ttl
  <2>1. PICK r \in Records : r = C!SetRecord(given, ttl) /\ r.ttl = ttl
    BY <1>5, <1>7, RecordIs
  <2>2. log \in Seq(Records) /\ log' = Append(log, r)
    BY <1>2, <1>6, <2>1 DEF CommandInv
  <2>3. log'[Len(log')] = r
    BY <2>2
  <2>4. QED
    BY <2>1, <2>3
<1>10. store'[given[1]].value = given[2] /\ store'[given[1]].ttl = kept
  BY <1>8
<1>11. latest'.cmd.args = given /\ latest'.reply.text = "OK"
  BY <1>1, <1>2, <1>3
<1>12. /\ C!Acceptable(latest'.cmd.args)
       /\ C!Asked(latest'.cmd.args) = asked
       /\ store'[latest'.cmd.args[1]].value = latest'.cmd.args[2]
       /\ store'[latest'.cmd.args[1]].ttl = kept
       /\ C!Max({log'[Len(log')].ttl, 0}) = kept
  BY <1>4, <1>6, <1>9, <1>10, <1>11, Zenon
<1>13. /\ 1000 * store'[latest'.cmd.args[1]].ttl >= C!Asked(latest'.cmd.args)
       /\ 1000 * (store'[latest'.cmd.args[1]].ttl - 1) < C!Asked(latest'.cmd.args)
       /\ C!Max({log'[Len(log')].ttl, 0}) = store'[latest'.cmd.args[1]].ttl
  <2>1. PICK t, q : t = store'[latest'.cmd.args[1]].ttl /\ q = C!Asked(latest'.cmd.args)
    OBVIOUS
  <2>2. t = kept /\ q = asked
    BY <1>12, <2>1, Zenon
  <2>3. 1000 * t >= q /\ 1000 * (t - 1) < q
    BY <1>7, <2>2, ZenonT(30)
  <2>4. /\ 1000 * store'[latest'.cmd.args[1]].ttl >= C!Asked(latest'.cmd.args)
        /\ 1000 * (store'[latest'.cmd.args[1]].ttl - 1) < C!Asked(latest'.cmd.args)
    BY <2>1, <2>3
  <2>5. C!Max({log'[Len(log')].ttl, 0}) = store'[latest'.cmd.args[1]].ttl
    BY <1>12, Zenon
  <2>6. QED
    BY <2>4, <2>5
<1>14. QED
  BY <1>11, <1>12, <1>13, ZenonT(30) DEF AsDocumented

LEMMA RefusedAsDocumented ==
  ASSUME NEW cmd \in Inputs, C!SetFails(cmd)
  PROVE  AsDocumented
<1>1. PICK given, set : given = cmd.args /\ set = C!Checked(given)
  OBVIOUS
<1>2. set.reply.text # "OK" /\ C!Serve(cmd, set.reply)
  BY <1>1, Zenon DEF C!SetFails
<1>3. latest'.cmd = cmd /\ latest'.reply = set.reply
  BY <1>2, Answered
<1>4. set.reply.text \in C!Errors /\ ~C!Acceptable(given)
  BY <1>1, <1>2, TakenOrRefused
<1>5. latest'.cmd.args = given /\ latest'.reply.text \in C!Errors
  BY <1>1, <1>3, <1>4
<1>6. QED
  BY <1>4, <1>5, Zenon DEF AsDocumented

\* execute_command takes a SET exactly when README's grammar and the limits do,
\* however many options it has, and keeps the value, in Storage and in the log,
\* for the fewest seconds that are not less than what was asked.
THEOREM SetObeysReadme == C!Spec => SetAsDocumented
<1>1. ASSUME CommandInv, C!Next, ran' # ran
      PROVE  AsDocumented
  <2>1. ASSUME NEW cmd \in Inputs, C!SetThrows(cmd)
        PROVE  AsDocumented
    <3>1. C!Serve(cmd, C!Reply("bad_alloc"))
      BY <2>1, Zenon DEF C!SetThrows
    <3>2. latest'.reply.text = "bad_alloc"
      BY <3>1, Answered, ReplyText, Zenon
    <3>3. QED
      BY <3>2, Zenon DEF AsDocumented
  <2>2. ASSUME NEW cmd \in Inputs,
               C!GET(cmd) \/ C!DelFails(cmd) \/ C!DEL(cmd) \/ C!Others(cmd) \/ C!PingThrows(cmd)
        PROVE  AsDocumented
    <3>1. cmd.type # "SET"
      BY <2>2 DEF C!GET, C!DelFails, C!DEL, C!Others, C!PingThrows
    <3>2. latest'.cmd = cmd
      BY <2>2, Answered, Zenon DEF C!GET, C!DelFails, C!DEL, C!Others, C!PingThrows
    <3>3. QED
      BY <3>1, <3>2, Zenon DEF AsDocumented
  <2>3. ASSUME NEW key, C!Leaves(key)
        PROVE  FALSE
    BY <1>1, <2>3, Zenon DEF C!Leaves
  <2>4. QED
    BY <1>1, <2>1, <2>2, <2>3, StoredAsDocumented, RefusedAsDocumented, Zenon DEF C!Next
<1>2. ASSUME CommandInv, [C!Next]_C!vars
      PROVE  [AsDocumented]_C!vars
  <2>1. CASE C!Next
    <3>1. ran' = ran => AsDocumented
      BY Zenon DEF AsDocumented
    <3>2. QED
      BY <1>1, <1>2, <2>1, <3>1, Zenon
  <2>2. QED
    BY <1>2, <2>1, Zenon
<1>3. QED
  BY <1>2, AlwaysCommandInv, PTL DEF C!Spec, SetAsDocumented, C!SetAsDocumented, AsDocumented
=============================================================================
