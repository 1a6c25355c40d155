---------------------------- MODULE ServerProofs ----------------------------
(***************************************************************************)
(* The safety theorems about the client event loop, for any descriptors,   *)
(* any limit on the queued chunks, any size of the socket buffers and any  *)
(* number of commands and connections.                                     *)
(*                                                                         *)
(* That the replies go out in order is an agreement of three things about  *)
(* a connection: the commands executed (e), the chunks queued (q) and the  *)
(* bytes sent (w).  The queue holds the last of the executed commands'     *)
(* replies, and the last byte sent is the one before what the head of the  *)
(* queue has left.  The first part of the module says what the operations  *)
(* on a queue do to that agreement, without the state machine; the second  *)
(* part is the inductive invariant.                                        *)
(***************************************************************************)
EXTENDS Server, TLAPS, SequenceTheorems

Answered == {"short", "blob"}

\* What a sequence is, as a function, and conversely.
LEMMA SeqIsFunction ==
  ASSUME NEW S, NEW s \in Seq(S)
  PROVE  /\ Len(s) \in Nat
         /\ DOMAIN s = 1 .. Len(s)
         /\ \A i \in 1 .. Len(s) : s[i] \in S
         /\ s = <<>> <=> Len(s) = 0
OBVIOUS

LEMMA FunctionIsSeq ==
  ASSUME NEW S, NEW n \in Nat, NEW s \in [1 .. n -> S]
  PROVE  s \in Seq(S) /\ Len(s) = n
OBVIOUS

\* The sizes of a reply's parts, and of all of it.
LEMMA Sizes ==
  ASSUME NEW c \in Answered
  PROVE  /\ SizeOf(c) = <<1, 2, 1>> \/ SizeOf(c) = <<1, 0, 0>>
         /\ SizeOf(c) \in {SizeOf(d) : d \in Commands}
         /\ Length(c) = SizeOf(c)[1] + SizeOf(c)[2] + SizeOf(c)[3]
         /\ Length(c) \in Nat \ {0}
BY DEF SizeOf, Length, Answered, Commands

\* A chunk's sizes and what has been sent of it, part by part,
LEMMA ChunkParts ==
  ASSUME NEW chunk \in Chunk
  PROVE  /\ chunk.reply \in Nat
         /\ chunk.size = <<1, 2, 1>> \/ chunk.size = <<1, 0, 0>>
         /\ chunk.sent[1] \in 0 .. 1 /\ chunk.sent[2] \in 0 .. 2
         /\ chunk.sent[3] \in 0 .. 1
BY DEF Chunk, SizeOf, Commands

\* which are natural numbers.
LEMMA PartNats ==
  ASSUME NEW chunk \in Chunk
  PROVE  \A p \in 1 .. 3 : chunk.size[p] \in Nat /\ chunk.sent[p] \in Nat
BY ChunkParts

\* What a chunk has sent changes part by part.
LEMMA PartSent ==
  ASSUME NEW chunk \in Chunk, NEW p \in 1 .. 3, NEW n \in Nat,
         chunk.sent[p] + n <= chunk.size[p]
  PROVE  LET more == [chunk EXCEPT !.sent[p] = @ + n]
         IN  /\ more \in Chunk
             /\ more.reply = chunk.reply /\ more.size = chunk.size
             /\ more.sent[p] = chunk.sent[p] + n
             /\ \A q \in 1 .. 3 : q # p => more.sent[q] = chunk.sent[q]
<1>1. chunk.sent \in (0 .. 1) \X (0 .. 2) \X (0 .. 1)
  BY DEF Chunk
<1> DEFINE t == chunk.sent
           u == [t EXCEPT ![p] = @ + n]
           more == [chunk EXCEPT !.sent[p] = @ + n]
<1>2. DOMAIN t = 1 .. 3
  BY <1>1
<1>3. /\ u[p] = t[p] + n
      /\ \A q \in 1 .. 3 : q # p => u[q] = t[q]
  BY <1>2
<1>4. u = <<u[1], u[2], u[3]>>
  BY <1>1, <1>2
<1>5. QED
  BY <1>3, <1>4, ChunkParts DEF Chunk
-----------------------------------------------------------------------------
(***************************************************************************)
(* Chunks.                                                                 *)
(***************************************************************************)
\* A part of a chunk is begun when those before it are done.
WellCut(chunk) ==
  \A p \in 1 .. 3 :
     /\ chunk.sent[p] <= chunk.size[p]
     /\ chunk.sent[p] > 0 => \A q \in 1 .. p - 1 : chunk.sent[q] = chunk.size[q]

SentOf(chunk) == chunk.sent[1] + chunk.sent[2] + chunk.sent[3]
AllOf(chunk)  == chunk.size[1] + chunk.size[2] + chunk.size[3]

\* The part to send next: those before it are done, those after it not begun.
LEMMA PartIs ==
  ASSUME NEW chunk \in Chunk, WellCut(chunk)
  PROVE  LET p == Part(chunk)
         IN  /\ p \in 1 .. 4
             /\ p < 4 => chunk.sent[p] < chunk.size[p]
             /\ \A q \in 1 .. p - 1 : chunk.sent[q] = chunk.size[q]
             /\ \A q \in p + 1 .. 3 : chunk.sent[q] = 0
<1> DEFINE Is(p) == /\ p < 4 => chunk.sent[p] < chunk.size[p]
                    /\ \A q \in 1 .. p - 1 : chunk.sent[q] = chunk.size[q]
<1>1. \A i \in 1 .. 3 : /\ chunk.sent[i] \in Nat /\ chunk.size[i] \in Nat
                        /\ chunk.sent[i] <= chunk.size[i]
  BY ChunkParts DEF WellCut
<1>2. \E p \in 1 .. 4 : Is(p)
  <2>1. CASE chunk.sent[1] # chunk.size[1]
    <3>1. Is(1)
      BY <1>1, <2>1
    <3>2. QED
      BY <3>1
  <2>2. CASE chunk.sent[1] = chunk.size[1] /\ chunk.sent[2] # chunk.size[2]
    <3>1. Is(2)
      BY <1>1, <2>2
    <3>2. QED
      BY <3>1
  <2>3. CASE /\ chunk.sent[1] = chunk.size[1] /\ chunk.sent[2] = chunk.size[2]
             /\ chunk.sent[3] # chunk.size[3]
    <3>1. Is(3)
      BY <1>1, <2>3
    <3>2. QED
      BY <3>1
  <2>4. CASE \A i \in 1 .. 3 : chunk.sent[i] = chunk.size[i]
    <3>1. Is(4)
      BY <2>4
    <3>2. QED
      BY <3>1
  <2>5. QED
    BY <2>1, <2>2, <2>3, <2>4
<1>3. Part(chunk) \in 1 .. 4 /\ Is(Part(chunk))
  BY <1>2 DEF Part
<1>4. ASSUME NEW q \in Part(chunk) + 1 .. 3
      PROVE  chunk.sent[q] = 0
  <2>1. Part(chunk) \in 1 .. q - 1 /\ q \in 1 .. 3 /\ Part(chunk) < 4
    BY <1>3
  <2>2. chunk.sent[Part(chunk)] # chunk.size[Part(chunk)]
    BY <1>1, <1>3, <2>1
  <2>3. QED
    BY <1>1, <2>1, <2>2 DEF WellCut
<1>5. QED
  BY <1>3, <1>4

\* How many bytes of a chunk lie before each of its parts.
LEMMA BeforeIs ==
  ASSUME NEW chunk \in Chunk
  PROVE  /\ Before(chunk, 1) = 0
         /\ Before(chunk, 2) = chunk.size[1]
         /\ Before(chunk, 3) = chunk.size[1] + chunk.size[2]
<1> DEFINE Eq(u) == u = [q \in 0 .. 3 |-> IF q = 0 THEN 0
                                          ELSE u[q - 1] + chunk.size[q]]
           g == [q \in 0 .. 3 |->
                   CASE q = 0 -> 0
                     [] q = 1 -> chunk.size[1]
                     [] q = 2 -> chunk.size[1] + chunk.size[2]
                     [] q = 3 -> chunk.size[1] + chunk.size[2] + chunk.size[3]]
           u == CHOOSE f : Eq(f)
<1>1. \A i \in 1 .. 3 : chunk.size[i] \in Nat
  BY ChunkParts
<1>2. Eq(g)
  BY <1>1
<1>3. Eq(u)
  BY <1>2
<1>4. \A p \in 1 .. 3 : Before(chunk, p) = u[p - 1]
  BY DEF Before
<1> HIDE DEF u
<1>5. u[0] = 0 /\ u[1] = u[0] + chunk.size[1] /\ u[2] = u[1] + chunk.size[2]
  BY <1>3
<1>6. QED
  BY <1>1, <1>4, <1>5

\* Where in its reply the next byte of a chunk is, and when the reply is out.
LEMMA NextByte ==
  ASSUME NEW chunk \in Chunk, WellCut(chunk)
  PROVE  /\ SentOf(chunk) \in Nat /\ AllOf(chunk) \in Nat
         /\ Part(chunk) < 4 =>
              /\ Part(chunk) \in 1 .. 3
              /\ Before(chunk, Part(chunk)) + chunk.sent[Part(chunk)] = SentOf(chunk)
              /\ SentOf(chunk)
                   + (chunk.size[Part(chunk)] - chunk.sent[Part(chunk)]) <= AllOf(chunk)
         /\ Part(chunk) = 4 => SentOf(chunk) = AllOf(chunk)
<1>1. \A i \in 1 .. 3 : /\ chunk.sent[i] \in Nat /\ chunk.size[i] \in Nat
                        /\ chunk.sent[i] <= chunk.size[i]
  BY ChunkParts DEF WellCut
<1>2. SentOf(chunk) \in Nat /\ AllOf(chunk) \in Nat
  BY <1>1 DEF SentOf, AllOf
<1>3. CASE Part(chunk) = 1
  BY <1>1, <1>2, <1>3, PartIs, BeforeIs DEF SentOf, AllOf
<1>4. CASE Part(chunk) = 2
  BY <1>1, <1>2, <1>4, PartIs, BeforeIs DEF SentOf, AllOf
<1>5. CASE Part(chunk) = 3
  BY <1>1, <1>2, <1>5, PartIs, BeforeIs DEF SentOf, AllOf
<1>6. CASE Part(chunk) = 4
  BY <1>1, <1>2, <1>6, PartIs DEF SentOf, AllOf
<1>7. QED
  BY <1>3, <1>4, <1>5, <1>6, PartIs

\* send took n bytes of the part.
LEMMA MoreSent ==
  ASSUME NEW chunk \in Chunk, WellCut(chunk), Part(chunk) < 4,
         NEW n \in 1 .. chunk.size[Part(chunk)] - chunk.sent[Part(chunk)]
  PROVE  LET more == [chunk EXCEPT !.sent[Part(chunk)] = @ + n]
         IN  /\ more \in Chunk /\ WellCut(more)
             /\ more.reply = chunk.reply /\ more.size = chunk.size
             /\ SentOf(more) = SentOf(chunk) + n
<1> DEFINE p == Part(chunk)
           more == [chunk EXCEPT !.sent[p] = @ + n]
<1>1. p \in 1 .. 3
  BY PartIs
<1>2. \A i \in 1 .. 3 : /\ chunk.sent[i] \in Nat /\ chunk.size[i] \in Nat
                        /\ chunk.sent[i] <= chunk.size[i]
  BY ChunkParts DEF WellCut
<1>3. n \in Nat /\ n > 0 /\ chunk.sent[p] + n <= chunk.size[p]
  BY <1>1, <1>2
<1>4. /\ more \in Chunk
      /\ more.reply = chunk.reply /\ more.size = chunk.size
      /\ more.sent[p] = chunk.sent[p] + n
      /\ \A q \in 1 .. 3 : q # p => more.sent[q] = chunk.sent[q]
  BY <1>1, <1>3, PartSent
<1>5. /\ \A q \in 1 .. p - 1 : chunk.sent[q] = chunk.size[q]
      /\ \A q \in p + 1 .. 3 : chunk.sent[q] = 0
  BY PartIs
<1> HIDE DEF p, more
<1>6. WellCut(more)
  <2>1. ASSUME NEW i \in 1 .. 3
        PROVE  /\ more.sent[i] <= more.size[i]
               /\ more.sent[i] > 0 => \A q \in 1 .. i - 1 : more.sent[q] = more.size[q]
    <3>1. more.sent[i] <= more.size[i]
      BY <1>1, <1>2, <1>3, <1>4
    <3>2. ASSUME more.sent[i] > 0, NEW q \in 1 .. i - 1
          PROVE  more.sent[q] = more.size[q]
      <4>1. i <= p
        BY <1>1, <1>4, <1>5, <3>2
      <4>2. q \in 1 .. p - 1 /\ q \in 1 .. 3 /\ q # p
        BY <1>1, <4>1
      <4>3. QED
        BY <1>4, <1>5, <4>2
    <3>3. QED
      BY <3>1, <3>2
  <2>2. QED
    BY <2>1 DEF WellCut
<1>7. SentOf(more) = SentOf(chunk) + n
  BY <1>1, <1>2, <1>3, <1>4 DEF SentOf
<1>8. QED
  BY <1>4, <1>6, <1>7 DEF p, more
-----------------------------------------------------------------------------
(***************************************************************************)
(* Queues and replies.                                                     *)
(***************************************************************************)
\* The queue holds the replies to the last commands, in their order, and only
\* the first of them is begun.
QueueFits(q, e) ==
  /\ Len(q) <= Len(e)
  /\ \A i \in 1 .. Len(q) :
        LET n == Len(e) - Len(q) + i
        IN  /\ q[i].reply = n
            /\ q[i].size = SizeOf(e[n])
            /\ WellCut(q[i])
            /\ i > 1 => SentOf(q[i]) = 0

\* The last byte that should be out, <<0, 0>> when there is none.
LastByte(q, e) ==
  LET n == Len(e) - Len(q)
  IN  IF q # <<>> /\ SentOf(q[1]) > 0 THEN <<n + 1, SentOf(q[1])>>
      ELSE IF n > 0 THEN <<n, Length(e[n])>> ELSE <<0, 0>>

\* It is the last byte of what was sent.
WireFits(w, q, e) ==
  IF LastByte(q, e) = <<0, 0>> THEN w = <<>>
  ELSE w # <<>> /\ w[Len(w)] = LastByte(q, e)

\* RepliesInOrder, of one connection.
After(e, byte) ==
  IF byte[2] < Length(e[byte[1]]) THEN <<byte[1], byte[2] + 1>>
                                  ELSE <<byte[1] + 1, 1>>
InOrder(w, e) ==
  \A i \in 1 .. Len(w) :
     IF i = 1 THEN w[1] \in {<<1, 1>>, ErrorByte}
     ELSE w[i - 1] # ErrorByte /\ w[i] \in {After(e, w[i - 1]), ErrorByte}

\* No reply is sent that there was no command for.
Asked(w, e) == \A i \in 1 .. Len(w) : w[i] # ErrorByte => w[i][1] \in 1 .. Len(e)

Bytes == Seq(Nat \X Nat)

\* The last byte is in the head of the queue, if that is begun,
LEMMA LastOfHead ==
  ASSUME NEW q, NEW e, q # <<>>, SentOf(q[1]) > 0,
         NEW n, n = Len(e) - Len(q)
  PROVE  LastByte(q, e) = <<n + 1, SentOf(q[1])>>
BY DEF LastByte

\* and otherwise ends the reply before the queue.
LEMMA LastOfSent ==
  ASSUME NEW q, NEW e, q = <<>> \/ ~(SentOf(q[1]) > 0),
         NEW n, n = Len(e) - Len(q)
  PROVE  LastByte(q, e) = IF n > 0 THEN <<n, Length(e[n])>> ELSE <<0, 0>>
BY DEF LastByte

\* The byte after another, by the number of its reply and its place in it.
LEMMA ByteAfter ==
  ASSUME NEW e, NEW m, NEW x
  PROVE  /\ x < Length(e[m]) => After(e, <<m, x>>) = <<m, x + 1>>
         /\ ~(x < Length(e[m])) => After(e, <<m, x>>) = <<m + 1, 1>>
BY DEF After

\* A command is executed and its reply queued.
LEMMA QueueAppends ==
  ASSUME NEW w \in Bytes, NEW q \in Seq(Chunk), NEW e \in Seq(Answered),
         NEW c \in Answered,
         QueueFits(q, e), WireFits(w, q, e), InOrder(w, e), Asked(w, e)
  PROVE  LET f == Append(e, c)
             r == Append(q, [reply |-> Len(e) + 1, size |-> SizeOf(c),
                             sent |-> <<0, 0, 0>>])
         IN  /\ r \in Seq(Chunk) /\ f \in Seq(Answered)
             /\ QueueFits(r, f) /\ WireFits(w, r, f) /\ InOrder(w, f) /\ Asked(w, f)
<1> DEFINE new == [reply |-> Len(e) + 1, size |-> SizeOf(c), sent |-> <<0, 0, 0>>]
           f == Append(e, c)
           r == Append(q, new)
<1>1. /\ Len(e) \in Nat /\ Len(q) \in Nat /\ Len(w) \in Nat
      /\ Len(q) <= Len(e)
  BY SeqIsFunction DEF QueueFits, Bytes
<1>2. new \in Chunk /\ WellCut(new) /\ SentOf(new) = 0
  BY <1>1, Sizes, SMTT(30) DEF Chunk, WellCut, SentOf
<1>3. /\ f \in Seq(Answered) /\ Len(f) = Len(e) + 1 /\ f[Len(e) + 1] = c
      /\ \A i \in 1 .. Len(e) : f[i] = e[i]
  BY <1>1
<1>4. new.reply = Len(e) + 1 /\ new.size = SizeOf(c)
  OBVIOUS
<1> HIDE DEF new, f
<1>5. /\ r \in Seq(Chunk) /\ Len(r) = Len(q) + 1 /\ r[Len(q) + 1] = new
      /\ \A i \in 1 .. Len(q) : r[i] = q[i]
  BY <1>1, <1>2
<1> HIDE DEF r
<1>6. QueueFits(r, f)
  <2>1. ASSUME NEW i \in 1 .. Len(r)
        PROVE  LET n == Len(f) - Len(r) + i
               IN  /\ r[i].reply = n
                   /\ r[i].size = SizeOf(f[n])
                   /\ WellCut(r[i])
                   /\ i > 1 => SentOf(r[i]) = 0
    <3>1. CASE i = Len(q) + 1
      BY <1>1, <1>2, <1>3, <1>4, <1>5, <3>1
    <3>2. CASE i \in 1 .. Len(q)
      <4>1. Len(f) - Len(r) + i = Len(e) - Len(q) + i
        BY <1>1, <1>3, <1>5, <3>2
      <4>2. Len(e) - Len(q) + i \in 1 .. Len(e)
        BY <1>1, <3>2
      <4>3. QED
        BY <1>3, <1>5, <3>2, <4>1, <4>2 DEF QueueFits
    <3>3. QED
      BY <1>1, <1>5, <3>1, <3>2
  <2>2. Len(r) <= Len(f)
    BY <1>1, <1>3, <1>5
  <2>3. QED
    BY <2>1, <2>2 DEF QueueFits
<1>7. WireFits(w, r, f)
  <2>1. LastByte(r, f) = LastByte(q, e)
    <3>1. Len(f) - Len(r) = Len(e) - Len(q) /\ r # <<>>
      BY <1>1, <1>3, <1>5
    <3> DEFINE k == Len(e) - Len(q)
    <3>2. k > 0 => f[k] = e[k]
      <4>1. k > 0 => k \in 1 .. Len(e)
        BY <1>1
      <4>2. QED
        BY <1>3, <4>1
    <3>3. CASE q = <<>>
      <4>1. ~(SentOf(r[1]) > 0)
        BY <1>2, <1>5, <3>3
      <4>2. LastByte(r, f) = IF k > 0 THEN <<k, Length(f[k])>> ELSE <<0, 0>>
        BY <3>1, <4>1, LastOfSent
      <4>3. LastByte(q, e) = IF k > 0 THEN <<k, Length(e[k])>> ELSE <<0, 0>>
        BY <3>3, LastOfSent
      <4>4. QED
        BY <3>2, <4>2, <4>3
    <3>4. CASE q # <<>>
      <4>1. r[1] = q[1]
        BY <1>1, <1>5, <3>4
      <4>2. QED
        BY <3>1, <3>2, <3>4, <4>1 DEF LastByte
    <3>5. QED
      BY <3>3, <3>4
  <2>2. QED
    BY <2>1 DEF WireFits
<1>8. Asked(w, f)
  BY <1>1, <1>3 DEF Asked
<1>9. InOrder(w, f)
  <2>1. ASSUME NEW i \in 1 .. Len(w), i # 1
        PROVE  w[i - 1] # ErrorByte /\ w[i] \in {After(f, w[i - 1]), ErrorByte}
    <3>1. i - 1 \in 1 .. Len(w)
      BY <1>1, <2>1
    <3>2. w[i - 1] # ErrorByte /\ w[i] \in {After(e, w[i - 1]), ErrorByte}
      BY <2>1 DEF InOrder
    <3>3. w[i - 1][1] \in 1 .. Len(e)
      BY <3>1, <3>2 DEF Asked
    <3>4. QED
      BY <1>3, <3>2, <3>3 DEF After
  <2>2. QED
    BY <2>1 DEF InOrder
<1>10. QED
  BY <1>3, <1>5, <1>6, <1>7, <1>8, <1>9 DEF f, r, new

\* The reply at the head of the queue, and what of it is out.
LEMMA HeadOf ==
  ASSUME NEW q \in Seq(Chunk), NEW e \in Seq(Answered), q # <<>>, QueueFits(q, e)
  PROVE  LET n == Len(e) - Len(q)
         IN  /\ n \in Nat /\ n + 1 \in 1 .. Len(e) /\ Len(q) \in Nat \ {0}
             /\ q[1] \in Chunk /\ WellCut(q[1])
             /\ q[1].reply = n + 1
             /\ AllOf(q[1]) = Length(e[n + 1])
             /\ Length(e[n + 1]) \in Nat \ {0}
             /\ n > 0 => Length(e[n]) \in Nat \ {0}
<1> DEFINE n == Len(e) - Len(q)
<1>1. /\ Len(e) \in Nat /\ Len(q) \in Nat \ {0} /\ q[1] \in Chunk
      /\ \A i \in 1 .. Len(e) : e[i] \in Answered
  BY SeqIsFunction
<1>2. n \in Nat /\ n + 1 \in 1 .. Len(e) /\ (n > 0 => n \in 1 .. Len(e))
  BY <1>1 DEF QueueFits
<1>3. q[1].reply = n + 1 /\ q[1].size = SizeOf(e[n + 1]) /\ WellCut(q[1])
  BY <1>1 DEF QueueFits
<1>4. AllOf(q[1]) = Length(e[n + 1]) /\ Length(e[n + 1]) \in Nat \ {0}
  <2>1. e[n + 1] \in Answered
    BY <1>1, <1>2
  <2> HIDE DEF n
  <2>2. QED
    BY <1>3, <2>1, Sizes DEF AllOf
<1>5. n > 0 => Length(e[n]) \in Nat \ {0}
  BY <1>1, <1>2, Sizes, SMTT(30)
<1>6. QED
  BY <1>1, <1>2, <1>3, <1>4, <1>5

\* The reply at the head is out, and leaves the queue.
LEMMA QueuePops ==
  ASSUME NEW w \in Bytes, NEW q \in Seq(Chunk), NEW e \in Seq(Answered), q # <<>>,
         Part(Head(q)) = 4, QueueFits(q, e), WireFits(w, q, e)
  PROVE  /\ Tail(q) \in Seq(Chunk) /\ Len(Tail(q)) = Len(q) - 1
         /\ QueueFits(Tail(q), e) /\ WireFits(w, Tail(q), e)
<1> DEFINE r == Tail(q)
           n == Len(e) - Len(q)
<1>1. /\ n \in Nat /\ Len(e) \in Nat /\ Len(q) \in Nat \ {0}
      /\ q[1] \in Chunk /\ WellCut(q[1])
      /\ AllOf(q[1]) = Length(e[n + 1]) /\ Length(e[n + 1]) \in Nat \ {0}
  BY HeadOf, SeqIsFunction
<1>2. /\ r \in Seq(Chunk) /\ Len(r) = Len(q) - 1
      /\ \A i \in 1 .. Len(r) : r[i] = q[i + 1]
  BY <1>1
<1>3. SentOf(q[1]) = Length(e[n + 1])
  BY <1>1, NextByte
<1> HIDE DEF r
<1>4. QueueFits(r, e)
  <2>1. ASSUME NEW i \in 1 .. Len(r)
        PROVE  LET m == Len(e) - Len(r) + i
               IN  /\ r[i].reply = m
                   /\ r[i].size = SizeOf(e[m])
                   /\ WellCut(r[i])
                   /\ i > 1 => SentOf(r[i]) = 0
    <3> DEFINE j == i + 1
    <3>1. j \in 1 .. Len(q) /\ j > 1 /\ Len(e) - Len(q) + j = Len(e) - Len(r) + i
      BY <1>1, <1>2
    <3>2. r[i] = q[j]
      BY <1>2
    <3> HIDE DEF j
    <3>3. QED
      BY <3>1, <3>2 DEF QueueFits
  <2>2. QED
    BY <1>1, <1>2, <2>1 DEF QueueFits
<1>5. LastByte(q, e) = <<n + 1, Length(e[n + 1])>>
  BY <1>1, <1>3 DEF LastByte
<1>6. LastByte(r, e) = <<n + 1, Length(e[n + 1])>>
  <2>1. Len(e) - Len(r) = n + 1
    BY <1>1, <1>2
  <2>2. r # <<>> => SentOf(r[1]) = 0
    <3>1. SUFFICES ASSUME r # <<>> PROVE SentOf(r[1]) = 0
      OBVIOUS
    <3>2. 2 \in 1 .. Len(q) /\ r[1] = q[2]
      BY <1>1, <1>2, <3>1
    <3>3. QED
      BY <3>2 DEF QueueFits
  <2>3. QED
    BY <1>1, <2>1, <2>2 DEF LastByte
<1>7. QED
  BY <1>2, <1>4, <1>5, <1>6 DEF WireFits, r

\* send takes n bytes of the part at the head of the queue.
LEMMA QueueSends ==
  ASSUME NEW w \in Bytes, NEW q \in Seq(Chunk), NEW e \in Seq(Answered), q # <<>>,
         QueueFits(q, e), WireFits(w, q, e), InOrder(w, e), Asked(w, e),
         Part(q[1]) < 4,
         NEW n \in 1 .. q[1].size[Part(q[1])] - q[1].sent[Part(q[1])],
         NEW at, at = Before(q[1], Part(q[1])) + q[1].sent[Part(q[1])]
  PROVE  LET r == [q EXCEPT ![1].sent[Part(q[1])] = @ + n]
             v == w \o [i \in 1 .. n |-> <<q[1].reply, at + i>>]
         IN  /\ r \in Seq(Chunk) /\ Len(r) = Len(q) /\ v \in Bytes
             /\ QueueFits(r, e) /\ WireFits(v, r, e) /\ InOrder(v, e) /\ Asked(v, e)
<1> DEFINE more == [q[1] EXCEPT !.sent[Part(q[1])] = @ + n]
           r == [q EXCEPT ![1].sent[Part(q[1])] = @ + n]
           b == [i \in 1 .. n |-> <<q[1].reply, at + i>>]
           v == w \o b
           k == Len(e) - Len(q)
<1>1. /\ k \in Nat /\ k + 1 \in 1 .. Len(e) /\ Len(e) \in Nat /\ Len(q) \in Nat \ {0}
      /\ q[1] \in Chunk /\ WellCut(q[1]) /\ q[1].reply = k + 1
      /\ AllOf(q[1]) = Length(e[k + 1]) /\ Length(e[k + 1]) \in Nat \ {0}
      /\ k > 0 => Length(e[k]) \in Nat \ {0}
  BY HeadOf, SeqIsFunction
<1>2. /\ more \in Chunk /\ WellCut(more) /\ more.reply = k + 1
      /\ more.size = q[1].size /\ SentOf(more) = SentOf(q[1]) + n
  BY <1>1, MoreSent
<1>3. at = SentOf(q[1]) /\ at \in Nat /\ n \in Nat \ {0} /\ at + n <= Length(e[k + 1])
  <2>1. /\ SentOf(q[1]) \in Nat /\ Part(q[1]) \in 1 .. 3 /\ at = SentOf(q[1])
        /\ SentOf(q[1]) + (q[1].size[Part(q[1])] - q[1].sent[Part(q[1])])
             <= Length(e[k + 1])
    BY <1>1, NextByte
  <2>2. \A i \in 1 .. 3 : q[1].size[i] \in Nat /\ q[1].sent[i] \in Nat
    BY <1>1, PartNats
  <2>3. q[1].size[Part(q[1])] \in Nat /\ q[1].sent[Part(q[1])] \in Nat
    BY <2>1, <2>2
  <2>4. QED
    BY <1>1, <2>1, <2>3, SMTT(30)
<1>4. r = [q EXCEPT ![1] = more]
  OBVIOUS
<1> HIDE DEF more, r
<1>5. /\ r \in Seq(Chunk) /\ Len(r) = Len(q) /\ r[1] = more
      /\ \A i \in 1 .. Len(q) : i # 1 => r[i] = q[i]
  <2>1. q \in [1 .. Len(q) -> Chunk] /\ 1 \in 1 .. Len(q)
    BY <1>1
  <2>2. r \in [1 .. Len(q) -> Chunk]
    BY <1>2, <1>4, <2>1
  <2>3. r \in Seq(Chunk) /\ Len(r) = Len(q)
    BY <1>1, <2>2, FunctionIsSeq
  <2>4. QED
    BY <1>4, <2>1, <2>3
<1>6. QueueFits(r, e)
  <2>1. ASSUME NEW i \in 1 .. Len(r)
        PROVE  LET m == Len(e) - Len(r) + i
               IN  /\ r[i].reply = m
                   /\ r[i].size = SizeOf(e[m])
                   /\ WellCut(r[i])
                   /\ i > 1 => SentOf(r[i]) = 0
    <3>1. CASE i = 1
      BY <1>1, <1>2, <1>5, <3>1 DEF QueueFits
    <3>2. CASE i # 1
      BY <1>5, <3>2 DEF QueueFits
    <3>3. QED
      BY <3>1, <3>2
  <2>2. QED
    BY <1>1, <1>5, <2>1 DEF QueueFits
<1>7. /\ b \in Bytes /\ Len(b) = n
      /\ \A i \in 1 .. n : b[i] = <<k + 1, at + i>>
  <2>1. n \in Nat /\ k + 1 \in Nat /\ \A i \in 1 .. n : at + i \in Nat
    BY <1>1, <1>3, SMTT(30)
  <2>2. \A i \in 1 .. n : b[i] = <<k + 1, at + i>>
    BY <1>1
  <2>3. b \in [1 .. n -> Nat \X Nat]
    BY <1>1, <2>1
  <2>4. b \in Bytes /\ Len(b) = n
    BY <2>1, <2>3 DEF Bytes
  <2>5. QED
    BY <2>2, <2>4
<1> HIDE DEF b
<1>8. /\ v \in Bytes /\ Len(w) \in Nat /\ Len(v) = Len(w) + n
      /\ \A i \in 1 .. Len(w) : v[i] = w[i]
      /\ \A i \in 1 .. n : v[Len(w) + i] = <<k + 1, at + i>>
  <2>1. /\ v \in Bytes /\ Len(v) = Len(w) + Len(b)
        /\ \A i \in 1 .. Len(w) + Len(b) :
              v[i] = IF i <= Len(w) THEN w[i] ELSE b[i - Len(w)]
    BY <1>7, ConcatProperties DEF Bytes
  <2>2. Len(w) \in Nat /\ n \in Nat
    BY <1>3, SeqIsFunction DEF Bytes
  <2> HIDE DEF v
  <2>3. ASSUME NEW i \in 1 .. Len(w) PROVE v[i] = w[i]
    BY <1>7, <2>1, <2>2, SMTT(30)
  <2>4. ASSUME NEW i \in 1 .. n PROVE v[Len(w) + i] = <<k + 1, at + i>>
    <3> DEFINE j == Len(w) + i
    <3>1. j \in 1 .. Len(w) + n /\ ~(j <= Len(w)) /\ j - Len(w) = i
      BY <2>2
    <3> HIDE DEF j
    <3>2. v[j] = b[i]
      BY <1>7, <2>1, <3>1
    <3>3. QED
      BY <1>7, <3>2 DEF j
  <2>5. QED
    BY <1>7, <2>1, <2>2, <2>3, <2>4
<1> HIDE DEF v
<1>k. Len(e) - Len(q) = k
  OBVIOUS
<1> HIDE DEF k
<1>9. LastByte(r, e) = <<k + 1, at + n>>
  <2>1. r # <<>> /\ SentOf(r[1]) = at + n /\ Len(e) - Len(r) = k
    BY <1>1, <1>2, <1>3, <1>5, <1>k
  <2>2. SentOf(r[1]) > 0
    BY <1>3, <2>1
  <2>3. QED
    BY <2>1, <2>2, LastOfHead
<1>10. WireFits(v, r, e)
  <2>1. v # <<>> /\ v[Len(v)] = <<k + 1, at + n>>
    <3>1. n \in 1 .. n /\ Len(v) # 0
      BY <1>3, <1>8
    <3>2. v # <<>>
      BY <3>1
    <3>3. QED
      BY <1>8, <3>1, <3>2
  <2>2. <<k + 1, at + n>> # <<0, 0>>
    BY <1>1
  <2>3. QED
    BY <1>9, <2>1, <2>2 DEF WireFits
<1>11. Asked(v, e)
  <2>1. ASSUME NEW i \in 1 .. Len(v), v[i] # ErrorByte
        PROVE  v[i][1] \in 1 .. Len(e)
    <3>1. CASE i \in 1 .. Len(w)
      BY <1>8, <2>1, <3>1 DEF Asked
    <3>2. CASE i \notin 1 .. Len(w)
      <4>1. i - Len(w) \in 1 .. n /\ i = Len(w) + (i - Len(w))
        <5>1. Len(w) \in Nat /\ n \in Nat /\ i \in 1 .. Len(w) + n
          BY <1>3, <1>8
        <5> DEFINE l == Len(w)
        <5>2. l \in Nat /\ i \in 1 .. l + n /\ i \notin 1 .. l
          BY <3>2, <5>1
        <5> HIDE DEF l
        <5>3. i - l \in 1 .. n /\ i = l + (i - l)
          BY <5>1, <5>2
        <5>4. QED
          BY <5>3 DEF l
      <4>2. v[i] = <<k + 1, at + (i - Len(w))>>
        BY <1>8, <4>1
      <4>3. QED
        BY <1>1, <4>2
    <3>3. QED
      BY <3>1, <3>2
  <2>2. QED
    BY <2>1 DEF Asked
<1>12. InOrder(v, e)
  <2>1. w # <<>> => w[Len(w)] = LastByte(q, e) /\ LastByte(q, e) # ErrorByte
    BY DEF WireFits, ErrorByte
  <2>2. w = <<>> => LastByte(q, e) = <<0, 0>>
    BY DEF WireFits
  <2>3. LastByte(q, e) = IF at > 0 THEN <<k + 1, at>>
                         ELSE IF k > 0 THEN <<k, Length(e[k])>> ELSE <<0, 0>>
    BY <1>1, <1>3, <1>k DEF LastByte
  <2>4. ASSUME NEW i \in 1 .. Len(v)
        PROVE  IF i = 1 THEN v[1] \in {<<1, 1>>, ErrorByte}
               ELSE v[i - 1] # ErrorByte /\ v[i] \in {After(e, v[i - 1]), ErrorByte}
    <3>1. CASE i \in 1 .. Len(w)
      <4>1. i # 1 => i - 1 \in 1 .. Len(w)
        BY <1>8, <3>1
      <4>2. QED
        BY <1>8, <3>1, <4>1 DEF InOrder
    <3>2. CASE i = Len(w) + 1
      <4>1. v[i] = <<k + 1, at + 1>>
        <5>1. 1 \in 1 .. n
          BY <1>3
        <5>2. QED
          BY <1>8, <3>2, <5>1
      <4>2. CASE w = <<>>
        <5>1. i = 1
          BY <3>2, <4>2, SeqIsFunction DEF Bytes
        <5>2. k = 0 /\ at = 0
          BY <1>1, <1>3, <2>2, <2>3, <4>2, SMTT(30)
        <5>3. v[i] = <<1, 1>>
          BY <4>1, <5>2
        <5>4. QED
          BY <5>1, <5>3
      <4>3. CASE w # <<>>
        <5>1. i # 1 /\ i - 1 = Len(w) /\ Len(w) \in 1 .. Len(w)
          <6>1. Len(w) \in Nat \ {0}
            BY <1>8, <4>3, SeqIsFunction DEF Bytes
          <6>2. QED
            BY <3>2, <6>1
        <5>2. v[i - 1] = LastByte(q, e) /\ v[i - 1] # ErrorByte
          BY <1>8, <2>1, <4>3, <5>1
        <5>3. CASE at > 0
          <6>1. v[i - 1] = <<k + 1, at>>
            BY <2>3, <5>2, <5>3
          <6>2. at < Length(e[k + 1])
            BY <1>1, <1>3
          <6>3. After(e, v[i - 1]) = <<k + 1, at + 1>>
            BY <6>1, <6>2, ByteAfter
          <6>4. QED
            BY <4>1, <5>1, <5>2, <6>3
        <5>4. CASE at = 0
          <6>1. LastByte(q, e) = IF k > 0 THEN <<k, Length(e[k])>> ELSE <<0, 0>>
            BY <2>3, <5>4
          <6>2. k > 0
            BY <2>1, <4>3, <6>1 DEF ErrorByte
          <6>3. v[i - 1] = <<k, Length(e[k])>>
            BY <5>2, <6>1, <6>2
          <6>4. ~(Length(e[k]) < Length(e[k]))
            BY <1>1, <6>2
          <6>5. After(e, v[i - 1]) = <<k + 1, 1>>
            BY <6>3, <6>4, ByteAfter
          <6>6. QED
            BY <4>1, <5>1, <5>2, <5>4, <6>5
        <5>5. QED
          BY <1>3, <5>3, <5>4
      <4>4. QED
        BY <4>2, <4>3
    <3>3. CASE i > Len(w) + 1
      <4> DEFINE j == i - Len(w)
      <4>1. j \in 1 .. n /\ j - 1 \in 1 .. n /\ i # 1 /\ i \in Int
        <5>1. i \in 1 .. Len(w) + n /\ Len(w) \in Nat
          BY <1>8
        <5>2. n \in Nat
          BY <1>3
        <5>3. i \in Int /\ i <= Len(w) + n /\ i > Len(w) + 1
          BY <3>3, <5>1, <5>2
        <5>4. QED
          BY <5>1, <5>2, <5>3, SMTT(30)
      <4>2. v[i] = <<k + 1, at + j>> /\ v[i - 1] = <<k + 1, at + (j - 1)>>
        <5>1. i = Len(w) + j /\ i - 1 = Len(w) + (j - 1)
          BY <1>8, <4>1
        <5> HIDE DEF j
        <5>2. QED
          BY <1>8, <4>1, <5>1
      <4> HIDE DEF j
      <4>3. After(e, v[i - 1]) = <<k + 1, at + j>>
        <5> DEFINE all == Length(e[k + 1])
        <5>1. all \in Nat /\ at + n <= all
          BY <1>1, <1>3
        <5> HIDE DEF all
        <5>2. at + (j - 1) < all /\ at + (j - 1) + 1 = at + j
          BY <1>3, <4>1, <5>1, SMTT(30)
        <5>3. QED
          BY <4>2, <5>2, ByteAfter, SMTT(30) DEF all
      <4>4. v[i - 1] # ErrorByte
        BY <1>1, <4>2 DEF ErrorByte
      <4>5. QED
        BY <4>1, <4>2, <4>3, <4>4
    <3>4. QED
      BY <1>8, <3>1, <3>2, <3>3, SMTT(30)
  <2>5. QED
    BY <2>4 DEF InOrder
<1>13. QED
  BY <1>5, <1>6, <1>8, <1>10, <1>11, <1>12 DEF r, v, b

\* A protocol error's byte follows whatever was sent.
LEMMA ErrorAppends ==
  ASSUME NEW w \in Bytes, NEW q \in Seq(Chunk), NEW e \in Seq(Answered),
         WireFits(w, q, e), InOrder(w, e), Asked(w, e)
  PROVE  LET v == Append(w, ErrorByte)
         IN  v \in Bytes /\ InOrder(v, e) /\ Asked(v, e)
<1> DEFINE v == Append(w, ErrorByte)
<1>1. ErrorByte \in Nat \X Nat
  BY DEF ErrorByte
<1>2. /\ v \in Bytes /\ Len(w) \in Nat /\ Len(v) = Len(w) + 1
      /\ v[Len(w) + 1] = ErrorByte
      /\ \A i \in 1 .. Len(w) : v[i] = w[i]
  BY <1>1, SeqIsFunction DEF Bytes
<1> HIDE DEF v
<1>3. w # <<>> => Len(w) \in Nat \ {0} /\ w[Len(w)] # ErrorByte
  BY SeqIsFunction DEF WireFits, ErrorByte, Bytes
<1>4. ASSUME NEW i \in 1 .. Len(v)
      PROVE  /\ v[i] # ErrorByte => v[i][1] \in 1 .. Len(e)
             /\ IF i = 1 THEN v[1] \in {<<1, 1>>, ErrorByte}
                ELSE v[i - 1] # ErrorByte /\ v[i] \in {After(e, v[i - 1]), ErrorByte}
  <2>1. CASE i \in 1 .. Len(w)
    <3>1. i # 1 => i - 1 \in 1 .. Len(w)
      BY <1>2, <2>1
    <3>2. QED
      BY <1>2, <2>1, <3>1 DEF InOrder, Asked
  <2>2. CASE i = Len(w) + 1
    <3>1. i # 1 => w # <<>> /\ i - 1 = Len(w) /\ Len(w) \in 1 .. Len(w)
      BY <1>2, <1>3, <2>2, SeqIsFunction DEF Bytes
    <3>2. i # 1 => v[i - 1] # ErrorByte
      BY <1>2, <1>3, <3>1
    <3>3. QED
      BY <1>2, <2>2, <3>2
  <2>3. QED
    BY <1>2, <2>1, <2>2
<1>5. QED
  BY <1>2, <1>4 DEF v, InOrder, Asked
-----------------------------------------------------------------------------
(***************************************************************************)
(* The inductive invariant.                                                *)
(***************************************************************************)
\* The server knows the connections it has accepted and not closed, keeps a
\* queue for no other, and handles the events of no other.
Registered ==
  /\ \A fd \in Fds : /\ fd \in parsers <=> client[fd] \in {"open", "shut", "reset"}
                     /\ fd \notin parsers => outbox[fd] = <<>>
  /\ loop # Waiting => loop.fd \in parsers

\* The watch is right but while try_send is at work on the queue.
WatchFits ==
  \A fd \in parsers :
     \/ loop.at \in {"sending", "writable"} /\ loop.fd = fd
     \/ watch[fd] = IF outbox[fd] = <<>> THEN {"IN"} ELSE {"IN", "OUT"}

Replies ==
  \A fd \in Fds :
     /\ QueueFits(outbox[fd], executed[fd])
     /\ InOrder(wire[fd], executed[fd]) /\ Asked(wire[fd], executed[fd])
     /\ fd \in parsers => WireFits(wire[fd], outbox[fd], executed[fd])

IInv == TypeOK /\ Registered /\ WatchFits /\ OutboxBounded /\ Replies

\* A loop that handles an event.
Busy == [at : {"reading", "parsing", "sending", "writable", "hangup", "done"},
         fd : Fds, flags : SUBSET {"IN", "OUT", "HUP"}, buf : Seq(Commands)]

\* One descriptor's entry is changed.
LEMMA Changed ==
  ASSUME NEW S, NEW f \in [Fds -> S], NEW fd \in Fds, NEW x \in S
  PROVE  /\ [f EXCEPT ![fd] = x] \in [Fds -> S]
         /\ [f EXCEPT ![fd] = x][fd] = x
         /\ \A g \in Fds \ {fd} : [f EXCEPT ![fd] = x][g] = f[g]
OBVIOUS

\* The constants are numbers.
LEMMA Bounds ==
  /\ kMaxQueuedChunks \in Nat \ {0} /\ SocketBuffer \in Nat \ {0}
  /\ MaxCommands \in Nat /\ MaxConnections \in Nat
BY ServerAssumption

\* The fields of a connection, as the type invariant gives them.
LEMMA Types ==
  ASSUME TypeOK
  PROVE  \A fd \in Fds :
           /\ client[fd] \in {"none", "connecting", "open", "shut", "reset"}
           /\ input[fd] \in Seq(Commands) /\ outbox[fd] \in Seq(Chunk)
           /\ executed[fd] \in Seq(Answered) /\ wire[fd] \in Bytes
           /\ unread[fd] \in 0 .. SocketBuffer
BY DEF TypeOK, Answered, Bytes

\* What is known of the loop while it handles an event.
LEMMA HandlingIs ==
  ASSUME TypeOK, NEW fd \in Fds, NEW at, at # "waiting", Handling(fd, at)
  PROVE  /\ loop \in Busy /\ loop # Waiting /\ loop.fd = fd /\ loop.at = at
BY DEF TypeOK, Handling, Waiting, Busy

\* At the start there is no connection.
LEMMA InitIInv == Init => IInv
<1> SUFFICES ASSUME Init PROVE IInv
  OBVIOUS
<1> USE DEF Init
<1>1. <<>> \in Seq(Commands) /\ <<>> \in Seq(Chunk) /\ <<>> \in Seq(Answered)
      /\ <<>> \in Bytes /\ Len(<<>>) = 0
  BY DEF Bytes
<1>2. TypeOK
  <2>1. unread \in [Fds -> 0 .. SocketBuffer] /\ sent \in [Fds -> 0 .. MaxCommands]
        /\ connections \in 0 .. MaxConnections
    BY Bounds
  <2>2. QED
    BY <1>1, <2>1 DEF TypeOK, Answered, Bytes
<1>3. Registered /\ WatchFits
  BY DEF Registered, WatchFits
<1>4. \A fd \in Fds : outbox[fd] = <<>> /\ executed[fd] = <<>> /\ wire[fd] = <<>>
                      /\ fd \notin parsers
  OBVIOUS
<1> HIDE DEF Init
<1>5. OutboxBounded
  <2>1. Len(<<>>) = 0 /\ 0 <= kMaxQueuedChunks
    BY Bounds
  <2>2. QED
    BY <1>4, <2>1 DEF OutboxBounded
<1>6. Replies
  <2>1. QueueFits(<<>>, <<>>) /\ InOrder(<<>>, <<>>) /\ Asked(<<>>, <<>>)
    BY <1>1 DEF QueueFits, InOrder, Asked
  <2>2. QED
    BY <1>4, <2>1 DEF Replies
<1>7. QED
  BY <1>2, <1>3, <1>5, <1>6 DEF IInv

\* The clients' steps.
LEMMA ClientStep ==
  ASSUME IInv, NEW fd \in Fds, Clients(fd)
  PROVE  IInv'
<1>1. UNCHANGED serverVars
  BY DEF Clients, Connect, ClientSends, ClientReads, ClientShuts, ClientResets
<1>2. /\ TypeOK /\ client[fd] \in {"none", "connecting", "open", "shut", "reset"}
      /\ unread[fd] \in 0 .. SocketBuffer /\ connections \in 0 .. MaxConnections
      /\ sent[fd] \in 0 .. MaxCommands /\ input[fd] \in Seq(Commands)
  BY DEF IInv, TypeOK
<1>3. \/ client' = client
      \/ client[fd] = "none" /\ client' = [client EXCEPT ![fd] = "connecting"]
      \/ client[fd] = "open" /\ client' = [client EXCEPT ![fd] = "shut"]
      \/ client[fd] \in {"open", "shut"} /\ client' = [client EXCEPT ![fd] = "reset"]
  BY DEF Clients, Connect, ClientSends, ClientReads, ClientShuts, ClientResets
<1>4. TypeOK'
  <2>1. client' \in [Fds -> {"none", "connecting", "open", "shut", "reset"}]
    BY <1>2, <1>3 DEF TypeOK
  <2>2. input' \in [Fds -> Seq(Commands)]
    <3>1. \/ input' = input
          \/ input' = [input EXCEPT ![fd] = <<>>]
          \/ \E command \in Commands :
                input' = [input EXCEPT ![fd] = Append(@, command)]
      BY DEF Clients, Connect, ClientSends, ClientReads, ClientShuts, ClientResets
    <3>2. \A command \in Commands : Append(input[fd], command) \in Seq(Commands)
      BY <1>2
    <3>3. <<>> \in Seq(Commands)
      OBVIOUS
    <3>4. input \in [Fds -> Seq(Commands)]
      BY <1>2 DEF TypeOK
    <3>5. ASSUME NEW command \in Commands,
                 input' = [input EXCEPT ![fd] = Append(@, command)]
          PROVE  input' \in [Fds -> Seq(Commands)]
      BY <3>2, <3>4, <3>5, Changed
    <3>6. CASE input' = [input EXCEPT ![fd] = <<>>]
      BY <3>3, <3>4, <3>6, Changed
    <3>7. QED
      BY <3>1, <3>4, <3>5, <3>6
  <2>3. unread' \in [Fds -> 0 .. SocketBuffer]
    <3>1. \/ unread' = unread
          \/ unread' = [unread EXCEPT ![fd] = 0]
          \/ \E n \in 1 .. unread[fd] : unread' = [unread EXCEPT ![fd] = @ - n]
      BY DEF Clients, Connect, ClientSends, ClientReads, ClientShuts, ClientResets
    <3>2. \A n \in 1 .. unread[fd] : unread[fd] - n \in 0 .. SocketBuffer
      BY <1>2, Bounds, SMTT(30)
    <3>3. 0 \in 0 .. SocketBuffer
      BY Bounds
    <3>4. unread \in [Fds -> 0 .. SocketBuffer]
      BY <1>2 DEF TypeOK
    <3>5. QED
      BY <3>1, <3>2, <3>3, <3>4, Changed
  <2>4. connections' \in 0 .. MaxConnections
    <3>1. \/ connections' = connections
          \/ connections < MaxConnections /\ connections' = connections + 1
      BY DEF Clients, Connect, ClientSends, ClientReads, ClientShuts, ClientResets
    <3>2. QED
      BY <1>2, <3>1, Bounds
  <2>5. sent' \in [Fds -> 0 .. MaxCommands]
    <3>1. \/ sent' = sent
          \/ sent' = [sent EXCEPT ![fd] = 0]
          \/ sent[fd] < MaxCommands /\ sent' = [sent EXCEPT ![fd] = @ + 1]
      BY DEF Clients, Connect, ClientSends, ClientReads, ClientShuts, ClientResets
    <3>2. 0 \in 0 .. MaxCommands
      BY Bounds
    <3>3. sent[fd] < MaxCommands => sent[fd] + 1 \in 0 .. MaxCommands
      BY <1>2, Bounds
    <3>4. sent \in [Fds -> 0 .. MaxCommands]
      BY <1>2 DEF TypeOK
    <3>5. QED
      BY <3>1, <3>2, <3>3, <3>4, Changed
  <2>6. QED
    BY <1>1, <1>2, <2>1, <2>2, <2>3, <2>4, <2>5 DEF TypeOK, serverVars
<1>5. Registered'
  <2>1. \A g \in Fds : client'[g] \in {"open", "shut", "reset"}
                        <=> client[g] \in {"open", "shut", "reset"}
    BY <1>2, <1>3, ZenonT(30) DEF TypeOK
  <2>2. QED
    BY <1>1, <2>1 DEF IInv, Registered, serverVars
<1>6. WatchFits' /\ OutboxBounded' /\ Replies'
  BY <1>1 DEF IInv, WatchFits, OutboxBounded, Replies, serverVars
<1>7. QED
  BY <1>4, <1>5, <1>6 DEF IInv

\* The loop accepts everyone who waits: each begins with nothing queued or sent.
LEMMA AcceptStep ==
  ASSUME IInv, Accept
  PROVE  IInv'
<1> DEFINE new == {fd \in Fds : client[fd] = "connecting"}
<1>1. /\ loop = Waiting /\ loop' = loop
      /\ client' = [fd \in Fds |-> IF fd \in new THEN "open" ELSE client[fd]]
      /\ parsers' = parsers \cup new
      /\ watch' = [fd \in Fds |-> IF fd \in new THEN {"IN"} ELSE watch[fd]]
      /\ executed' = [fd \in Fds |-> IF fd \in new THEN <<>> ELSE executed[fd]]
      /\ wire' = [fd \in Fds |-> IF fd \in new THEN <<>> ELSE wire[fd]]
      /\ UNCHANGED <<input, unread, connections, sent, outbox>>
  BY DEF Accept
<1>2. TypeOK
  BY DEF IInv
<1>3. \A fd \in new : fd \notin parsers /\ outbox[fd] = <<>>
  BY DEF IInv, Registered
<1>4. TypeOK'
  <2>1. client' \in [Fds -> {"none", "connecting", "open", "shut", "reset"}]
    BY <1>1, <1>2 DEF TypeOK
  <2>2. parsers' \subseteq Fds /\ watch' \in [Fds -> SUBSET {"IN", "OUT"}]
    BY <1>1, <1>2 DEF TypeOK
  <2>3. executed' \in [Fds -> Seq(Answered)] /\ wire' \in [Fds -> Bytes]
    <3>1. <<>> \in Seq(Answered) /\ <<>> \in Bytes
      BY DEF Bytes
    <3>2. \A fd \in Fds : executed[fd] \in Seq(Answered) /\ wire[fd] \in Bytes
      BY <1>2, Types
    <3>3. QED
      BY <1>1, <3>1, <3>2
  <2>4. QED
    BY <1>1, <1>2, <2>1, <2>2, <2>3 DEF TypeOK, Answered, Bytes
<1>5. Registered'
  BY <1>1, <1>2, <1>3 DEF IInv, Registered, TypeOK
<1>6. WatchFits'
  <2>1. ASSUME NEW fd \in parsers'
        PROVE  watch'[fd] = IF outbox'[fd] = <<>> THEN {"IN"} ELSE {"IN", "OUT"}
    <3>1. CASE fd \in new
      BY <1>1, <1>3, <3>1
    <3>2. CASE fd \notin new
      <4>1. fd \in parsers /\ fd \in Fds /\ watch'[fd] = watch[fd]
        BY <1>1, <1>2, <2>1, <3>2 DEF TypeOK
      <4>2. QED
        BY <1>1, <4>1 DEF IInv, WatchFits, Waiting
    <3>3. QED
      BY <3>1, <3>2
  <2>2. QED
    BY <2>1 DEF WatchFits
<1>7. OutboxBounded'
  BY <1>1 DEF IInv, OutboxBounded
<1>8. Replies'
  <2>1. ASSUME NEW fd \in Fds
        PROVE  /\ QueueFits(outbox'[fd], executed'[fd])
               /\ InOrder(wire'[fd], executed'[fd]) /\ Asked(wire'[fd], executed'[fd])
               /\ fd \in parsers' => WireFits(wire'[fd], outbox'[fd], executed'[fd])
    <3>1. CASE fd \in new
      <4>1. outbox'[fd] = <<>> /\ executed'[fd] = <<>> /\ wire'[fd] = <<>>
        BY <1>1, <1>3, <3>1
      <4>2. /\ QueueFits(<<>>, <<>>) /\ InOrder(<<>>, <<>>) /\ Asked(<<>>, <<>>)
            /\ WireFits(<<>>, <<>>, <<>>)
        BY DEF QueueFits, InOrder, Asked, WireFits, LastByte
      <4>3. QED
        BY <4>1, <4>2
    <3>2. CASE fd \notin new
      <4>1. /\ outbox'[fd] = outbox[fd] /\ executed'[fd] = executed[fd]
            /\ wire'[fd] = wire[fd] /\ (fd \in parsers' => fd \in parsers)
        BY <1>1, <3>2
      <4>2. QED
        BY <4>1 DEF IInv, Replies
    <3>3. QED
      BY <3>1, <3>2
  <2>2. QED
    BY <2>1 DEF Replies
<1>9. QED
  BY <1>4, <1>5, <1>6, <1>7, <1>8 DEF IInv

\* A client is closed, by whichever handler; a protocol error's byte may go out
\* before.
LEMMA Closing ==
  ASSUME IInv, NEW fd \in Fds, fd \in parsers, loop.fd = fd, close_client(fd),
         wire' = wire \/ wire' = [wire EXCEPT ![fd] = Append(@, ErrorByte)]
  PROVE  IInv'
<1>1. /\ client' = [client EXCEPT ![fd] = "none"] /\ parsers' = parsers \ {fd}
      /\ outbox' = [outbox EXCEPT ![fd] = <<>>] /\ watch' = [watch EXCEPT ![fd] = {}]
      /\ loop' = Waiting
      /\ UNCHANGED <<input, unread, connections, sent, executed>>
  BY DEF close_client
<1>2. TypeOK
  BY DEF IInv
<1>3. /\ wire[fd] \in Bytes /\ outbox[fd] \in Seq(Chunk) /\ executed[fd] \in Seq(Answered)
      /\ WireFits(wire[fd], outbox[fd], executed[fd])
      /\ InOrder(wire[fd], executed[fd]) /\ Asked(wire[fd], executed[fd])
  BY <1>2, Types DEF IInv, Replies
<1>4. /\ wire' \in [Fds -> Bytes]
      /\ InOrder(wire'[fd], executed[fd]) /\ Asked(wire'[fd], executed[fd])
      /\ \A g \in Fds \ {fd} : wire'[g] = wire[g]
  <2>1. wire \in [Fds -> Bytes]
    BY <1>2 DEF TypeOK, Bytes
  <2>2. /\ Append(wire[fd], ErrorByte) \in Bytes
        /\ InOrder(Append(wire[fd], ErrorByte), executed[fd])
        /\ Asked(Append(wire[fd], ErrorByte), executed[fd])
    BY <1>3, ErrorAppends
  <2>3. CASE wire' = wire
    BY <1>3, <2>1, <2>3
  <2>4. CASE wire' = [wire EXCEPT ![fd] = Append(@, ErrorByte)]
    BY <2>1, <2>2, <2>4, Changed
  <2>5. QED
    BY <2>3, <2>4
<1>5. TypeOK'
  <2>1. outbox' \in [Fds -> Seq(Chunk)]
    <3>1. <<>> \in Seq(Chunk) /\ outbox \in [Fds -> Seq(Chunk)]
      BY <1>2 DEF TypeOK
    <3>2. QED
      BY <1>1, <3>1, Changed
  <2>2. /\ client' \in [Fds -> {"none", "connecting", "open", "shut", "reset"}]
        /\ watch' \in [Fds -> SUBSET {"IN", "OUT"}] /\ parsers' \subseteq Fds
    BY <1>1, <1>2 DEF TypeOK
  <2>3. QED
    BY <1>1, <1>2, <1>4, <2>1, <2>2 DEF TypeOK, Bytes
<1>6. Registered' /\ WatchFits' /\ OutboxBounded'
  <2>1. Registered'
    BY <1>1, <1>2 DEF IInv, Registered, TypeOK
  <2>2. WatchFits'
    BY <1>1, <1>2 DEF IInv, WatchFits, TypeOK
  <2>3. OutboxBounded'
    <3>1. Len(<<>>) = 0 /\ 0 <= kMaxQueuedChunks
      BY Bounds
    <3>2. QED
      BY <1>1, <1>2, <3>1 DEF IInv, OutboxBounded, TypeOK
  <2>4. QED
    BY <2>1, <2>2, <2>3
<1>7. Replies'
  <2>1. QueueFits(<<>>, executed[fd])
    BY <1>3, SeqIsFunction DEF QueueFits
  <2>2. /\ outbox'[fd] = <<>> /\ fd \notin parsers'
        /\ \A g \in Fds \ {fd} : outbox'[g] = outbox[g] /\ (g \in parsers' => g \in parsers)
    BY <1>1, <1>2 DEF TypeOK
  <2>3. QED
    BY <1>1, <1>4, <2>1, <2>2 DEF IInv, Replies
<1>8. QED
  BY <1>5, <1>6, <1>7 DEF IInv

\* A connection is closed, and all that is known of it is dropped.
LEMMA CloseStep ==
  ASSUME IInv, NEW fd \in Fds,
         Hangup(fd) \/ RecvEnds(fd) \/ ParseError(fd) \/ ExecuteOverflows(fd)
           \/ SendFails(fd)
  PROVE  IInv'
<1>1. \E at \in {"hangup", "reading", "parsing", "sending", "writable"} :
         Handling(fd, at)
  BY DEF Hangup, RecvEnds, ParseError, ExecuteOverflows, SendFails, Sending
<1>2. loop.fd = fd /\ fd \in parsers
  BY <1>1, HandlingIs DEF IInv, Registered
<1>3. /\ close_client(fd)
      /\ wire' = wire \/ wire' = [wire EXCEPT ![fd] = Append(@, ErrorByte)]
  BY DEF Hangup, RecvEnds, ParseError, ExecuteOverflows, SendFails
<1>4. QED
  BY <1>2, <1>3, Closing

\* The loop goes from one system call to the next.
LEMMA MoveStep ==
  ASSUME IInv, NEW fd \in Fds,
         \/ Event(fd) \/ Recv(fd) \/ RecvBlocks(fd) \/ ParseMore(fd)
         \/ ParseBlank(fd) \/ Done(fd)
  PROVE  IInv'
<1>1. /\ UNCHANGED <<client, unread, connections, sent, parsers, outbox, watch,
                     executed, wire>>
      /\ input' = input \/ Recv(fd)
  BY DEF Event, Recv, RecvBlocks, ParseMore, ParseBlank, Done, clientVars
<1>2. TypeOK /\ input[fd] \in Seq(Commands)
  BY DEF IInv, TypeOK
<1>3. /\ loop.at \notin {"sending", "writable"}
      /\ ~Event(fd) => loop \in Busy /\ loop.fd = fd /\ fd \in parsers
      /\ Event(fd) => fd \in parsers
  <2>1. CASE Event(fd)
    BY <2>1 DEF Event, Waiting
  <2>2. CASE ~Event(fd)
    <3>1. \E at \in {"reading", "parsing", "done"} : Handling(fd, at)
      BY <2>2 DEF Recv, RecvBlocks, ParseMore, ParseBlank, Done
    <3>2. PICK at \in {"reading", "parsing", "done"} : Handling(fd, at)
      BY <3>1
    <3>3. loop \in Busy /\ loop # Waiting /\ loop.fd = fd /\ loop.at = at
      BY <1>2, <3>2, HandlingIs
    <3>4. fd \in parsers
      BY <3>3 DEF IInv, Registered
    <3>5. QED
      BY <2>2, <3>2, <3>3, <3>4
  <2>3. QED
    BY <2>1, <2>2
<1>4. \/ loop' = Waiting
      \/ loop' \in Busy /\ loop'.fd = fd
  <2>1. CASE Event(fd)
    <3>1. PICK flags \in Readiness(fd) \ {{}} :
             loop' = [at |-> IF "IN" \in flags THEN "reading"
                             ELSE IF "HUP" \in flags THEN "hangup" ELSE "writable",
                      fd |-> fd, flags |-> flags, buf |-> <<>>]
      BY <2>1 DEF Event
    <3>2. flags \in SUBSET {"IN", "OUT", "HUP"}
      BY DEF Readiness
    <3>3. <<>> \in Seq(Commands)
      OBVIOUS
    <3>4. QED
      BY <3>1, <3>2, <3>3 DEF Busy
  <2>2. CASE Recv(fd)
    <3>1. PICK n \in 1 .. Len(input[fd]) :
             loop' = [loop EXCEPT !.at = "parsing", !.buf = SubSeq(input[fd], 1, n)]
      BY <2>2 DEF Recv
    <3>2. SubSeq(input[fd], 1, n) \in Seq(Commands)
      BY <1>2
    <3>3. loop \in Busy /\ loop.fd = fd
      BY <1>3, <2>2 DEF Event, Recv, Handling, Waiting
    <3>4. QED
      BY <3>1, <3>2, <3>3 DEF Busy
  <2>3. CASE ParseBlank(fd)
    <3>1. loop' = [loop EXCEPT !.buf = Tail(@)] /\ loop.buf # <<>>
      BY <2>3 DEF ParseBlank
    <3>2. loop \in Busy /\ loop.fd = fd
      BY <1>3, <2>3 DEF Event, ParseBlank, Handling, Waiting
    <3>3. Tail(loop.buf) \in Seq(Commands)
      BY <3>1, <3>2 DEF Busy
    <3>4. QED
      BY <3>1, <3>2, <3>3 DEF Busy
  <2>4. CASE RecvBlocks(fd) \/ ParseMore(fd)
    <3>1. loop \in Busy /\ loop.fd = fd
      BY <1>3, <2>4 DEF Event, RecvBlocks, ParseMore, Handling, Waiting
    <3>2. AfterReading \in {"writable", "hangup", "done"}
      BY DEF AfterReading
    <3>3. PICK at \in {"reading", "writable", "hangup", "done"} :
             loop' = [loop EXCEPT !.at = at]
      BY <2>4, <3>2 DEF RecvBlocks, ParseMore, Goes
    <3>4. QED
      BY <3>1, <3>3 DEF Busy
  <2>5. CASE Done(fd)
    BY <2>5 DEF Done
  <2>6. QED
    BY <2>1, <2>2, <2>3, <2>4, <2>5
<1>5. input' \in [Fds -> Seq(Commands)]
  <2>1. input \in [Fds -> Seq(Commands)]
    BY <1>2 DEF TypeOK
  <2>2. CASE Recv(fd)
    <3>1. PICK n \in 1 .. Len(input[fd]) :
             input' = [input EXCEPT ![fd] = SubSeq(@, n + 1, Len(@))]
      BY <2>2 DEF Recv
    <3>2. SubSeq(input[fd], n + 1, Len(input[fd])) \in Seq(Commands)
      BY <1>2
    <3>3. QED
      BY <2>1, <3>1, <3>2, Changed
  <2>3. QED
    BY <1>1, <2>1, <2>2
<1>6. TypeOK'
  BY <1>1, <1>2, <1>4, <1>5 DEF TypeOK, Busy
<1>7. Registered'
  BY <1>1, <1>3, <1>4 DEF IInv, Registered
<1>8. WatchFits'
  BY <1>1, <1>3 DEF IInv, WatchFits
<1>9. OutboxBounded' /\ Replies'
  BY <1>1 DEF IInv, OutboxBounded, Replies
<1>10. QED
  BY <1>6, <1>7, <1>8, <1>9 DEF IInv

\* A command is executed: its reply is queued behind the others.
LEMMA ExecuteStep ==
  ASSUME IInv, NEW fd \in Fds, Execute(fd)
  PROVE  IInv'
<1> DEFINE c == Head(loop.buf)
           q == Queued(fd, Len(executed[fd]) + 1, c)
<1>1. /\ Handling(fd, "parsing") /\ loop.buf # <<>> /\ c \in Answered
      /\ Len(outbox[fd]) < kMaxQueuedChunks
      /\ outbox' = [outbox EXCEPT ![fd] = q]
      /\ executed' = [executed EXCEPT ![fd] = Append(@, c)]
      /\ loop' = [loop EXCEPT !.at = "sending", !.buf = Tail(@)]
      /\ UNCHANGED <<clientVars, parsers, watch, wire>>
  BY DEF Execute, Answered
<1>2. /\ TypeOK /\ loop \in Busy /\ loop # Waiting /\ loop.fd = fd
      /\ loop.at = "parsing"
  BY <1>1, HandlingIs DEF IInv
<1>3. fd \in parsers
  BY <1>2 DEF IInv, Registered
<1>4. /\ wire[fd] \in Bytes /\ outbox[fd] \in Seq(Chunk) /\ executed[fd] \in Seq(Answered)
      /\ QueueFits(outbox[fd], executed[fd])
      /\ WireFits(wire[fd], outbox[fd], executed[fd])
      /\ InOrder(wire[fd], executed[fd]) /\ Asked(wire[fd], executed[fd])
  BY <1>2, <1>3, Types DEF IInv, Replies
<1>5. /\ q \in Seq(Chunk) /\ Append(executed[fd], c) \in Seq(Answered)
      /\ QueueFits(q, Append(executed[fd], c))
      /\ WireFits(wire[fd], q, Append(executed[fd], c))
      /\ InOrder(wire[fd], Append(executed[fd], c))
      /\ Asked(wire[fd], Append(executed[fd], c))
  BY <1>1, <1>4, QueueAppends DEF Queued
<1>6. Len(q) = Len(outbox[fd]) + 1
  BY <1>4 DEF Queued
<1> HIDE DEF q, c
<1>7. /\ outbox' \in [Fds -> Seq(Chunk)] /\ executed' \in [Fds -> Seq(Answered)]
      /\ outbox'[fd] = q /\ executed'[fd] = Append(executed[fd], c)
      /\ \A g \in Fds \ {fd} : outbox'[g] = outbox[g] /\ executed'[g] = executed[g]
  <2>1. outbox \in [Fds -> Seq(Chunk)] /\ executed \in [Fds -> Seq(Answered)]
    BY <1>2 DEF TypeOK, Answered
  <2>2. QED
    BY <1>1, <1>5, <2>1, Changed
<1>8. loop' \in Busy /\ loop'.fd = fd /\ loop'.at = "sending"
  <2>1. Tail(loop.buf) \in Seq(Commands)
    BY <1>1, <1>2 DEF Busy
  <2>2. QED
    BY <1>1, <1>2, <2>1 DEF Busy
<1>9. TypeOK'
  BY <1>1, <1>2, <1>7, <1>8 DEF TypeOK, Busy, Answered, clientVars
<1>10. Registered' /\ WatchFits'
  <2>1. Registered'
    BY <1>1, <1>3, <1>7, <1>8 DEF IInv, Registered, clientVars
  <2>2. WatchFits'
    BY <1>1, <1>2, <1>7, <1>8 DEF IInv, WatchFits, TypeOK
  <2>3. QED
    BY <2>1, <2>2
<1>11. OutboxBounded'
  <2>1. Len(outbox'[fd]) <= kMaxQueuedChunks
    <3>1. Len(outbox[fd]) \in Nat
      BY <1>4, SeqIsFunction
    <3>2. QED
      BY <1>1, <1>6, <1>7, <3>1, Bounds
  <2>2. QED
    BY <1>7, <2>1 DEF IInv, OutboxBounded
<1>12. Replies'
  BY <1>1, <1>3, <1>5, <1>7 DEF IInv, Replies
<1>13. QED
  BY <1>9, <1>10, <1>11, <1>12 DEF IInv

\* What the invariant says of a connection to which the loop sends.
LEMMA SendingIs ==
  ASSUME IInv, NEW fd \in Fds, Sending(fd)
  PROVE  /\ TypeOK /\ loop \in Busy /\ loop # Waiting /\ loop.fd = fd
         /\ loop.at \in {"sending", "writable"} /\ fd \in parsers
         /\ wire[fd] \in Bytes /\ outbox[fd] \in Seq(Chunk)
         /\ executed[fd] \in Seq(Answered)
         /\ QueueFits(outbox[fd], executed[fd])
         /\ WireFits(wire[fd], outbox[fd], executed[fd])
         /\ InOrder(wire[fd], executed[fd]) /\ Asked(wire[fd], executed[fd])
<1>1. /\ TypeOK /\ loop \in Busy /\ loop # Waiting /\ loop.fd = fd
      /\ loop.at \in {"sending", "writable"}
  BY HandlingIs DEF IInv, Sending
<1>2. fd \in parsers
  BY <1>1 DEF IInv, Registered
<1>3. QED
  BY <1>1, <1>2, Types DEF IInv, Replies

\* try_send works on the queue and the wire of the descriptor.
LEMMA Delivering ==
  ASSUME IInv, NEW fd \in Fds, Sending(fd),
         NEW q \in Seq(Chunk), NEW w \in Bytes, NEW u \in 0 .. SocketBuffer,
         Len(q) <= Len(outbox[fd]),
         outbox' = [outbox EXCEPT ![fd] = q], wire' = [wire EXCEPT ![fd] = w],
         unread' = [unread EXCEPT ![fd] = u],
         UNCHANGED <<client, input, connections, sent, parsers, watch, loop, executed>>,
         QueueFits(q, executed[fd]), WireFits(w, q, executed[fd]),
         InOrder(w, executed[fd]), Asked(w, executed[fd])
  PROVE  IInv'
<1>1. /\ TypeOK /\ fd \in parsers /\ loop \in Busy /\ loop.fd = fd
      /\ loop.at \in {"sending", "writable"} /\ outbox[fd] \in Seq(Chunk)
  BY SendingIs
<1>2. /\ outbox' \in [Fds -> Seq(Chunk)] /\ wire' \in [Fds -> Bytes]
      /\ unread' \in [Fds -> 0 .. SocketBuffer]
      /\ outbox'[fd] = q /\ wire'[fd] = w
      /\ \A g \in Fds \ {fd} : outbox'[g] = outbox[g] /\ wire'[g] = wire[g]
  <2>1. /\ outbox \in [Fds -> Seq(Chunk)] /\ wire \in [Fds -> Bytes]
        /\ unread \in [Fds -> 0 .. SocketBuffer]
    BY <1>1 DEF TypeOK, Bytes
  <2>2. QED
    BY <2>1, Changed
<1>3. TypeOK'
  BY <1>1, <1>2 DEF TypeOK, Bytes
<1>4. Registered'
  BY <1>1, <1>2 DEF IInv, Registered
<1>5. WatchFits'
  BY <1>1, <1>2 DEF IInv, WatchFits, TypeOK
<1>6. OutboxBounded'
  <2>1. Len(q) \in Nat /\ Len(outbox[fd]) \in Nat /\ Len(outbox[fd]) <= kMaxQueuedChunks
    BY <1>1, SeqIsFunction DEF IInv, OutboxBounded
  <2>2. Len(outbox'[fd]) <= kMaxQueuedChunks
    BY <1>2, <2>1, Bounds
  <2>3. QED
    BY <1>2, <2>2 DEF IInv, OutboxBounded
<1>7. Replies'
  BY <1>1, <1>2 DEF IInv, Replies
<1>8. QED
  BY <1>3, <1>4, <1>5, <1>6, <1>7 DEF IInv

\* A chunk that has gone out entirely leaves the queue.
LEMMA PopStep ==
  ASSUME IInv, NEW fd \in Fds, SendPops(fd)
  PROVE  IInv'
<1>1. /\ Sending(fd) /\ outbox[fd] # <<>> /\ Part(Head(outbox[fd])) = 4
      /\ outbox' = [outbox EXCEPT ![fd] = Tail(outbox[fd])]
      /\ UNCHANGED <<client, input, unread, connections, sent, parsers, watch, loop,
                     executed, wire>>
  BY DEF SendPops, clientVars
<1>2. /\ TypeOK /\ wire[fd] \in Bytes /\ outbox[fd] \in Seq(Chunk)
      /\ executed[fd] \in Seq(Answered)
      /\ QueueFits(outbox[fd], executed[fd])
      /\ WireFits(wire[fd], outbox[fd], executed[fd])
      /\ InOrder(wire[fd], executed[fd]) /\ Asked(wire[fd], executed[fd])
  BY <1>1, SendingIs
<1>3. /\ Tail(outbox[fd]) \in Seq(Chunk)
      /\ Len(Tail(outbox[fd])) = Len(outbox[fd]) - 1
      /\ QueueFits(Tail(outbox[fd]), executed[fd])
      /\ WireFits(wire[fd], Tail(outbox[fd]), executed[fd])
  BY <1>1, <1>2, QueuePops
<1>4. Len(Tail(outbox[fd])) <= Len(outbox[fd])
  BY <1>2, <1>3, SeqIsFunction
<1>5. /\ wire' = [wire EXCEPT ![fd] = wire[fd]]
      /\ unread' = [unread EXCEPT ![fd] = unread[fd]]
      /\ unread[fd] \in 0 .. SocketBuffer
  BY <1>1, <1>2 DEF TypeOK
<1>6. QED
  BY <1>1, <1>2, <1>3, <1>4, <1>5, Delivering

\* A send takes some bytes of the head's current part.
LEMMA SendStep ==
  ASSUME IInv, NEW fd \in Fds, Send(fd)
  PROVE  IInv'
<1> DEFINE chunk == Head(outbox[fd])
           p == Part(chunk)
           left == chunk.size[p] - chunk.sent[p]
           at == Before(chunk, p) + chunk.sent[p]
<1>1. /\ Sending(fd) /\ outbox[fd] # <<>> /\ p < 4
      /\ UNCHANGED <<client, input, connections, sent, parsers, watch, loop, executed>>
  BY DEF Send
<1>2. PICK n \in 1 .. IF left < Space(fd) THEN left ELSE Space(fd) :
         /\ outbox' = [outbox EXCEPT ![fd][1].sent[p] = @ + n]
         /\ unread' = [unread EXCEPT ![fd] = @ + n]
         /\ wire' = [wire EXCEPT
                       ![fd] = @ \o [i \in 1 .. n |-> <<chunk.reply, at + i>>]]
  BY DEF Send
<1>3. /\ TypeOK /\ wire[fd] \in Bytes /\ outbox[fd] \in Seq(Chunk)
      /\ executed[fd] \in Seq(Answered)
      /\ QueueFits(outbox[fd], executed[fd])
      /\ WireFits(wire[fd], outbox[fd], executed[fd])
      /\ InOrder(wire[fd], executed[fd]) /\ Asked(wire[fd], executed[fd])
  BY <1>1, SendingIs
<1>4. chunk = outbox[fd][1] /\ chunk \in Chunk /\ WellCut(chunk)
  BY <1>1, <1>3, HeadOf
<1>5. p \in 1 .. 3 /\ left \in Nat
  <2>1. p \in 1 .. 3 /\ chunk.sent[p] < chunk.size[p]
    BY <1>1, <1>4, PartIs
  <2>2. chunk.size[p] \in Nat /\ chunk.sent[p] \in Nat
    BY <1>4, <2>1, PartNats
  <2>3. QED
    BY <2>1, <2>2
<1>6. unread[fd] \in Nat /\ unread[fd] <= SocketBuffer /\ SocketBuffer \in Nat
  BY <1>3, Types, Bounds
<1>7. n \in 1 .. left /\ unread[fd] + n \in 0 .. SocketBuffer
  BY <1>5, <1>6 DEF Space
<1> DEFINE front == outbox[fd][1]
           q == [outbox[fd] EXCEPT ![1].sent[Part(front)] = @ + n]
           w == wire[fd] \o [i \in 1 .. n |-> <<front.reply, at + i>>]
<1>8. chunk = front /\ p = Part(front)
  BY <1>4
<1>9. /\ Part(front) < 4
      /\ n \in 1 .. front.size[Part(front)] - front.sent[Part(front)]
      /\ at = Before(front, Part(front)) + front.sent[Part(front)]
  BY <1>1, <1>7, <1>8
<1>10. /\ outbox' = [outbox EXCEPT ![fd] = q]
       /\ wire' = [wire EXCEPT ![fd] = w]
       /\ unread' = [unread EXCEPT ![fd] = unread[fd] + n]
  BY <1>2, <1>8
<1> HIDE DEF chunk, p, left, at
<1>11. /\ q \in Seq(Chunk) /\ Len(q) = Len(outbox[fd]) /\ w \in Bytes
      /\ QueueFits(q, executed[fd]) /\ WireFits(w, q, executed[fd])
      /\ InOrder(w, executed[fd]) /\ Asked(w, executed[fd])
  BY <1>1, <1>3, <1>9, QueueSends, ZenonT(60)
<1> HIDE DEF q, w
<1>12. Len(q) <= Len(outbox[fd])
  BY <1>3, <1>11, SeqIsFunction
<1>13. QED
  BY <1>1, <1>7, <1>10, <1>11, <1>12, Delivering

\* try_send returns, and the watch is set right.
LEMMA StopStep ==
  ASSUME IInv, NEW fd \in Fds, SendStops(fd)
  PROVE  IInv'
<1>1. /\ Sending(fd)
      /\ watch' = [watch EXCEPT ![fd] = IF outbox[fd] = <<>> THEN {"IN"}
                                                             ELSE {"IN", "OUT"}]
      /\ UNCHANGED <<client, input, unread, connections, sent, parsers, outbox,
                     executed, wire>>
  BY DEF SendStops, update_watch, clientVars
<1>2. /\ TypeOK /\ loop \in Busy /\ loop # Waiting /\ loop.fd = fd /\ fd \in parsers
  BY <1>1, SendingIs
<1>3. PICK at \in {"parsing", "hangup", "done"} : loop' = [loop EXCEPT !.at = at]
  BY DEF SendStops, Goes
<1>4. loop' \in Busy /\ loop'.fd = fd /\ loop'.at = at
  BY <1>2, <1>3 DEF Busy
<1>5. TypeOK'
  BY <1>1, <1>2, <1>4 DEF TypeOK, Busy
<1>6. Registered'
  BY <1>1, <1>2, <1>4 DEF IInv, Registered
<1>7. WatchFits'
  BY <1>1, <1>2, <1>4 DEF IInv, WatchFits, TypeOK
<1>8. OutboxBounded' /\ Replies'
  BY <1>1 DEF IInv, OutboxBounded, Replies
<1>9. QED
  BY <1>5, <1>6, <1>7, <1>8 DEF IInv

\* Every step keeps the invariant.
LEMMA NextIInv == IInv /\ [Next]_vars => IInv'
<1> SUFFICES ASSUME IInv, [Next]_vars PROVE IInv'
  OBVIOUS
<1>1. CASE Accept
  BY <1>1, AcceptStep
<1>2. ASSUME NEW fd \in Fds, Handle(fd) PROVE IInv'
  BY <1>2, CloseStep, MoveStep, ExecuteStep, PopStep, SendStep, StopStep DEF Handle
<1>3. ASSUME NEW fd \in Fds, Clients(fd) PROVE IInv'
  BY <1>3, ClientStep
<1>4. CASE UNCHANGED vars
  BY <1>4 DEF vars, clientVars, serverVars, IInv, TypeOK, Registered, WatchFits,
              OutboxBounded, Replies
<1>5. QED
  BY <1>1, <1>2, <1>3, <1>4 DEF Next, Over

\* So it always holds.
LEMMA AlwaysIInv == Spec => []IInv
BY InitIInv, NextIInv, PTL DEF Spec
-----------------------------------------------------------------------------
\* The connections, the queues and the loop keep their types.
THEOREM ServerTypeCorrect == Spec => []TypeOK
<1>1. IInv => TypeOK
  BY DEF IInv
<1>2. QED
  BY <1>1, AlwaysIInv, PTL

\* queue_response and try_send send the replies to a connection's commands
\* in their order, without a gap or a repetition, wherever send() cuts them.
THEOREM EveryReplyInOrder == Spec => []RepliesInOrder
<1>1. IInv => RepliesInOrder
  BY DEF IInv, Replies, InOrder, After, RepliesInOrder, Follows
<1>2. QED
  BY <1>1, AlwaysIInv, PTL

\* update_watch has epoll watch for EPOLLOUT exactly while there is something in
\* the outbox.
THEOREM WatchIsRight == Spec => []WatchedForOutput
<1>1. ASSUME IInv PROVE WatchedForOutput
  <2>1. ASSUME loop = Waiting, NEW fd \in parsers
        PROVE  "OUT" \in watch[fd] <=> outbox[fd] # <<>>
    BY <1>1, <2>1 DEF IInv, WatchFits, Waiting
  <2>2. QED
    BY <2>1 DEF WatchedForOutput
<1>2. QED
  BY <1>1, AlwaysIInv, PTL

\* queue_response never queues more than kMaxQueuedChunks replies.
THEOREM QueueBounded == Spec => []OutboxBounded
<1>1. IInv => OutboxBounded
  BY DEF IInv
<1>2. QED
  BY <1>1, AlwaysIInv, PTL
=============================================================================
