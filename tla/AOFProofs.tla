----------------------------- MODULE AOFProofs -----------------------------
(***************************************************************************)
(* The safety theorems about the log, for any keys and values and any      *)
(* number of commands, crashes and failing writes.                         *)
(*                                                                         *)
(* What replay makes of a log is a recursive function over its lines.  The *)
(* one fact about it that the theorems need is what a line appended to the *)
(* log adds (ReplayedAppend).  As in PolicyLemmas it is reached through the   *)
(* states that replay passes (Replay): every log has them, and no two      *)
(* different ones.                                                         *)
(***************************************************************************)
EXTENDS AOF, TLAPS, FiniteSetTheorems, WellFoundedInduction

Line  == Record \cup {Junk}
Store == [Keys -> Values \cup {None}]

\* A non-empty set of naturals has a least element.
LEMMA LeastNatural ==
  ASSUME NEW T \in SUBSET Nat, T # {}
  PROVE  \E n \in T : \A m \in T : n <= m
<1>1. IsWellFoundedOn(OpToRel(<, Nat), Nat)
  BY NatLessThanWellFounded
<1>2. PICK n \in T : \A m \in T : ~(<<m, n>> \in OpToRel(<, Nat))
  BY <1>1, WFMin
<1>3. \A m \in T : ~(m < n)
  BY <1>2 DEF OpToRel
<1>4. QED
  BY <1>3

\* What a sequence is, as a function.
LEMMA SeqIsFunction ==
  ASSUME NEW S, NEW s \in Seq(S)
  PROVE  /\ Len(s) \in Nat
         /\ DOMAIN s = 1 .. Len(s)
         /\ \A i \in 1 .. Len(s) : s[i] \in S
OBVIOUS

\* What a record is made of; and a record is not a line that fails to parse.
LEMMA RecordFields ==
  ASSUME NEW r \in Record
  PROVE  /\ r.cmd \in {"SET", "DEL"}
         /\ r.key \in Keys
         /\ r.value \in Values \cup {None}
         /\ r.id \in 1 .. MaxCommands
         /\ r # Junk
BY DEF Record, Junk

\* One line read at boot: it sets its key, or is skipped if it does not parse.
LEMMA ReplayLineKeeps ==
  ASSUME NEW st \in Store, NEW line \in Line
  PROVE  /\ ReplayLine(st, line) \in Store
         /\ line = Junk => ReplayLine(st, line) = st
         /\ line # Junk
              => \A k \in Keys : ReplayLine(st, line)[k] =
                                   IF k = line.key THEN line.value ELSE st[k]
<1>1. CASE line = Junk
  BY <1>1 DEF ReplayLine, Junk
<1>2. CASE line \in Record
  BY <1>2, RecordFields DEF ReplayLine, Store
<1>3. QED
  BY <1>1, <1>2 DEF Line
-----------------------------------------------------------------------------
\* g is what Storage holds after each of the lines.
Replay(lines, g) ==
  /\ DOMAIN g = 0 .. Len(lines)
  /\ g[0] = Nothing
  /\ \A i \in 1 .. Len(lines) : g[i] = ReplayLine(g[i - 1], lines[i])

\* Every log has such states.
LEMMA ReplayExists ==
  ASSUME NEW lines \in Seq(Line)
  PROVE  \E g \in [0 .. Len(lines) -> Store] : Replay(lines, g)
<1> DEFINE n == Len(lines)
           Is(k, g) == /\ g[0] = Nothing
                       /\ \A i \in 1 .. k : g[i] = ReplayLine(g[i - 1], lines[i])
           Has(k) == \E g \in [0 .. k -> Store] : Is(k, g)
           T == {k \in 0 .. n : ~Has(k)}
<1>1. n \in Nat /\ \A i \in 1 .. n : lines[i] \in Line
  BY SeqIsFunction
<1>2. SUFFICES ASSUME T # {} PROVE FALSE
  BY <1>1, SMTT(30) DEF Replay
<1>3. T \in SUBSET Nat
  BY <1>1
<1>4. PICK k \in T : \A m \in T : k <= m
  BY <1>2, <1>3, LeastNatural
<1>5. Has(0)
  <2> DEFINE g == [i \in 0 .. 0 |-> Nothing]
  <2>1. Nothing \in Store
    BY DEF Nothing, Store
  <2>2. g \in [0 .. 0 -> Store] /\ Is(0, g)
    BY <2>1
  <2>3. QED
    BY <2>2
<1> HIDE DEF Has
<1>6. k \in 1 .. n
  BY <1>1, <1>5
<1>7. Has(k - 1)
  BY <1>1, <1>4, <1>6
<1>8. PICK g \in [0 .. k - 1 -> Store] : Is(k - 1, g)
  BY <1>7 DEF Has
<1> DEFINE h == [i \in 0 .. k |-> IF i = k THEN ReplayLine(g[k - 1], lines[k])
                                           ELSE g[i]]
<1>9. ReplayLine(g[k - 1], lines[k]) \in Store
  BY <1>1, <1>6, <1>8, ReplayLineKeeps
<1>10. h \in [0 .. k -> Store]
  BY <1>6, <1>9
<1>11. Is(k, h)
  BY <1>6, <1>8, <1>9
<1>12. QED
  BY <1>4, <1>10, <1>11 DEF Has

\* There is only one sequence of them.
LEMMA ReplayUnique ==
  ASSUME NEW lines \in Seq(Line), NEW g, NEW h, Replay(lines, g), Replay(lines, h)
  PROVE  g[Len(lines)] = h[Len(lines)]
<1> DEFINE T == {i \in 0 .. Len(lines) : g[i] # h[i]}
<1>1. Len(lines) \in Nat
  BY SeqIsFunction
<1>2. SUFFICES ASSUME T # {} PROVE FALSE
  BY <1>1
<1>3. T \in SUBSET Nat
  BY <1>1
<1>4. PICK i \in T : \A m \in T : i <= m
  BY <1>2, <1>3, LeastNatural
<1>5. i \in 1 .. Len(lines)
  BY <1>1 DEF Replay
<1>6. i - 1 \in 0 .. Len(lines) /\ g[i - 1] = h[i - 1]
  BY <1>1, <1>4, <1>5
<1>7. QED
  BY <1>5, <1>6 DEF Replay

\* And Replayed is the last of them.
LEMMA ReplayedIs ==
  ASSUME NEW lines \in Seq(Line), NEW g, Replay(lines, g)
  PROVE  Replayed(lines) = g[Len(lines)]
<1> DEFINE n == Len(lines)
           Eq(u) == u = [i \in 0 .. n |-> IF i = 0 THEN Nothing
                                          ELSE ReplayLine(u[i - 1], lines[i])]
           u == CHOOSE f : Eq(f)
<1>1. n \in Nat
  BY SeqIsFunction
<1>2. PICK h \in [0 .. n -> Store] : Replay(lines, h)
  BY ReplayExists
<1>3. Eq(h)
  BY <1>1, <1>2 DEF Replay
<1>4. Eq(u)
  BY <1>3
<1>5. Replayed(lines) = u[n]
  BY DEF Replayed
<1> HIDE DEF u
<1>6. Replay(lines, u)
  BY <1>1, <1>4 DEF Replay
<1>7. QED
  BY <1>5, <1>6, ReplayUnique

\* Replay gives Storage a value or none for every key; of an empty log it makes
\* nothing, and a line more adds what that line says.
LEMMA ReplayedAppend ==
  /\ Replayed(<<>>) = Nothing
  /\ \A lines \in Seq(Line) :
        /\ Replayed(lines) \in Store
        /\ \A line \in Line :
              Replayed(Append(lines, line)) = ReplayLine(Replayed(lines), line)
<1>1. Replayed(<<>>) = Nothing
  <2>1. <<>> \in Seq(Line) /\ Len(<<>>) = 0
    OBVIOUS
  <2>2. PICK g \in [0 .. 0 -> Store] : Replay(<<>>, g)
    BY <2>1, ReplayExists
  <2>3. QED
    BY <2>1, <2>2, ReplayedIs DEF Replay
<1>2. ASSUME NEW lines \in Seq(Line)
      PROVE  /\ Replayed(lines) \in Store
             /\ \A line \in Line :
                   Replayed(Append(lines, line)) = ReplayLine(Replayed(lines), line)
  <2> DEFINE n == Len(lines)
  <2>1. n \in Nat
    BY SeqIsFunction
  <2>2. PICK g \in [0 .. n -> Store] : Replay(lines, g)
    BY ReplayExists
  <2>3. Replayed(lines) = g[n]
    BY <2>2, ReplayedIs
  <2>4. ASSUME NEW line \in Line
        PROVE  Replayed(Append(lines, line)) = ReplayLine(Replayed(lines), line)
    <3> DEFINE more == Append(lines, line)
               h == [i \in 0 .. n + 1 |-> IF i = n + 1 THEN ReplayLine(g[n], line)
                                                       ELSE g[i]]
    <3>1. /\ more \in Seq(Line) /\ Len(more) = n + 1 /\ more[n + 1] = line
          /\ \A i \in 1 .. n : more[i] = lines[i]
      BY <2>1
    <3> HIDE DEF more
    <3>2. Replay(more, h)
      BY <2>1, <2>2, <3>1 DEF Replay
    <3>3. Replayed(more) = h[n + 1]
      BY <3>1, <3>2, ReplayedIs
    <3>4. QED
      BY <2>1, <2>3, <3>3 DEF more
  <2>5. QED
    BY <2>1, <2>2, <2>3, <2>4
<1>3. QED
  BY <1>1, <1>2
-----------------------------------------------------------------------------
\* What a line adds to the log, whole or in part: a piece of it parses no more,
\* and neither does what is written onto a torn line.
LEMMA WritesLine ==
  ASSUME TypeOK, NEW r \in Record, \E line \in {Junk, r} : Write(line),
         ~newline => Len(file) > 0
  PROVE  /\ file' \in Seq(Line)
         /\ Readable' \subseteq Readable \cup {r.id}
         /\ Len(file') > 0
         /\ file'[Len(file')] = Junk \/ file'[Len(file')].id = r.id
         /\ joined' \in BOOLEAN
         /\ ~joined' => /\ ~joined
                        /\ \A k \in Keys \ {r.key} :
                              Replayed(file')[k] = Replayed(file)[k]
         /\ \A j \in Readable :
               \/ j \in Readable'
               \/ /\ ~newline
                  /\ file[Len(file)] # Junk
                  /\ j = file[Len(file)].id
<1> PICK line \in {Junk, r} : Write(line)
  OBVIOUS
<1>1. /\ file \in Seq(Line) /\ line \in Line /\ Len(file) \in Nat
      /\ DOMAIN file = 1 .. Len(file)
      /\ \A i \in 1 .. Len(file) : file[i] \in Line
  BY SeqIsFunction DEF TypeOK, Line
<1>2. newline \in BOOLEAN /\ joined \in BOOLEAN
  BY DEF TypeOK
<1>3. CASE newline
  <2>1. /\ file' \in Seq(Line) /\ Len(file') = Len(file) + 1
        /\ DOMAIN file' = 1 .. Len(file) + 1
        /\ file'[Len(file) + 1] = line
        /\ \A i \in 1 .. Len(file) : file'[i] = file[i]
        /\ file' = Append(file, line) /\ joined' = joined
    BY <1>1, <1>2, <1>3 DEF Write
  <2>2. Readable' \subseteq Readable \cup {r.id}
    BY <1>1, <2>1 DEF Readable
  <2>3. \A j \in Readable : j \in Readable'
    BY <1>1, <2>1 DEF Readable
  <2>4. \A k \in Keys \ {r.key} : Replayed(file')[k] = Replayed(file)[k]
    BY <1>1, <2>1, ReplayedAppend, ReplayLineKeeps, SMTT(30)
  <2>5. QED
    BY <1>1, <1>2, <2>1, <2>2, <2>3, <2>4
<1>4. CASE ~newline
  <2>1. /\ file' \in Seq(Line) /\ Len(file') = Len(file)
        /\ DOMAIN file' = 1 .. Len(file)
        /\ file'[Len(file)] = Junk
        /\ \A i \in 1 .. Len(file) : i # Len(file) => file'[i] = file[i]
        /\ joined' = TRUE
    <3>1. file' = [file EXCEPT ![Len(file)] = Junk] /\ joined' = TRUE
      BY <1>4 DEF Write
    <3>2. Len(file) \in 1 .. Len(file) /\ file \in [1 .. Len(file) -> Line]
      BY <1>1, <1>4
    <3>3. Junk \in Line
      BY DEF Line
    <3> HIDE DEF Junk, Line
    <3>4. file' \in [1 .. Len(file) -> Line]
      BY <3>1, <3>2, <3>3
    <3>5. file' \in Seq(Line) /\ Len(file') = Len(file)
      BY <1>1, <3>4
    <3>6. DOMAIN file' = 1 .. Len(file) /\ file'[Len(file)] = Junk
      BY <3>1, <3>2
    <3>7. \A i \in 1 .. Len(file) : i # Len(file) => file'[i] = file[i]
      BY <3>1, <3>2, Zenon
    <3>8. QED
      BY <3>1, <3>5, <3>6, <3>7, Zenon
  <2>2. Readable' \subseteq Readable
    BY <1>1, <2>1 DEF Readable
  <2>3. ASSUME NEW j \in Readable, j \notin Readable'
        PROVE  file[Len(file)] # Junk /\ j = file[Len(file)].id
    <3>1. PICK i \in DOMAIN file : file[i] # Junk /\ j = file[i].id
      BY Zenon DEF Readable
    <3>2. i = Len(file)
      <4>1. SUFFICES ASSUME i # Len(file) PROVE FALSE
        BY ZenonT(30)
      <4>2. i \in DOMAIN file' /\ file'[i] = file[i]
        BY <1>1, <2>1, <3>1, <4>1
      <4>3. file'[i] # Junk /\ j = file'[i].id
        BY <3>1, <4>2
      <4>4. j \in Readable'
        BY <4>2, <4>3, ZenonT(30) DEF Readable
      <4>5. QED
        BY <2>3, <4>4, ZenonT(30)
    <3>3. QED
      BY <3>1, <3>2
  <2>4. Len(file') > 0 /\ file'[Len(file')] = Junk
    BY <1>1, <1>4, <2>1
  <2>5. \A j \in Readable : \/ j \in Readable'
                          \/ /\ ~newline
                             /\ file[Len(file)] # Junk
                             /\ j = file[Len(file)].id
    BY <1>4, <2>3
  <2>6. QED
    <3>1. file' \in Seq(Line) /\ joined' = TRUE
      BY <2>1
    <3>2. QED
      BY <2>2, <2>4, <2>5, <3>1, ZenonT(30)
<1>5. QED
  BY <1>2, <1>3, <1>4

\* A whole record can be replayed, if it does not land on a torn line.
LEMMA WritesRecord ==
  ASSUME TypeOK, NEW r \in Record, Write(r)
  PROVE  /\ newline => r.id \in Readable'
         /\ ~joined' => Replayed(file')[r.key] = r.value
<1>1. /\ file \in Seq(Line) /\ r \in Line /\ Len(file) \in Nat
      /\ newline \in BOOLEAN /\ joined \in BOOLEAN
  BY SeqIsFunction DEF TypeOK, Line
<1>2. ASSUME newline
      PROVE  r.id \in Readable' /\ Replayed(file')[r.key] = r.value
  <2>1. /\ Len(file') = Len(file) + 1
        /\ DOMAIN file' = 1 .. Len(file) + 1
        /\ file'[Len(file) + 1] = r
        /\ file' = Append(file, r)
    BY <1>1, <1>2 DEF Write
  <2>2. r.id \in Readable'
    BY <1>1, <2>1, RecordFields DEF Readable
  <2>3. QED
    BY <1>1, <2>1, <2>2, RecordFields, ReplayedAppend, ReplayLineKeeps
<1>3. newline \/ joined'
  BY <1>1 DEF Write
<1>4. QED
  BY <1>2, <1>3
-----------------------------------------------------------------------------
(***************************************************************************)
(* The inductive invariant.                                                *)
(***************************************************************************)
Stages ==
  /\ stage = "applying" => pending.cmd = "SET"
  /\ ~up => stage = "idle"

\* Commands are numbered in turn, and the one being executed is the last.
IdsCounted ==
  /\ Readable \subseteq 1 .. commands
  /\ stage # "idle" => pending.id = commands /\ commands \notin acked
  /\ stage = "logging" => commands \notin Readable \cup dropped

\* A stream that is still good has taken every record of its process.
GoodTookAll == good => \A i \in dropped : i <= booted

\* Between its two steps a SET is in the log and not in Storage, a DEL in
\* neither.
HalfDone ==
  up /\ ~joined =>
    /\ stage = "applying" /\ pending.id \notin dropped
         => Replayed(file)[pending.key] = pending.value
    /\ stage = "logging" /\ pending.cmd = "DEL" => store[pending.key] = None

\* A line without its newline is nobody's loss: it belongs to a command that
\* was not acknowledged, or that the stream did not take.
TornLast ==
  ~newline =>
    /\ Len(file) > 0
    /\ \/ file[Len(file)] = Junk
       \/ file[Len(file)].id \in dropped
       \/ /\ file[Len(file)].id \notin acked
          /\ stage # "idle" => file[Len(file)].id < commands

\* The commands lost to a torn tail, the one about to be acknowledged included.
Lost ==
  (acked \cup IF stage = "applying" THEN {commands} ELSE {})
    \ (Readable \cup dropped)

\* Each of them was paid for by a tear, and the tear the log ends in has yet to
\* cost a command.
Unspent == IF newline THEN 0 ELSE 1
TearsPay == Cardinality(Lost) + Unspent <= tears

IInv ==
  /\ TypeOK /\ Stages /\ IdsCounted
  /\ GoodTookAll /\ DropsAreLast
  /\ HalfDone /\ LogMatchesStore
  /\ TornLast /\ TearsPay

\* The process that has just been started for the first time.
LEMMA InitIInv == Init => IInv
<1> SUFFICES ASSUME Init PROVE IInv
  OBVIOUS
<1> USE DEF Init
<1>1. TypeOK
  <2>1. {MaxCommands, MaxCrashes, MaxFaults} \subseteq Nat
    BY AOFAssumption
  <2>2. store \in [Keys -> Values \cup {None}]
    BY DEF Nothing
  <2>3. /\ commands \in 0 .. MaxCommands /\ crashes \in 0 .. MaxCrashes
        /\ faults \in 0 .. MaxFaults /\ tears \in 0 .. crashes + faults
        /\ booted \in 0 .. commands
    BY <2>1
  <2>4. newline \in BOOLEAN /\ up \in BOOLEAN /\ good \in BOOLEAN /\ joined \in BOOLEAN
    OBVIOUS
  <2>5. /\ file \in Seq(Record \cup {Junk})
        /\ dropped \subseteq 1 .. commands /\ acked \subseteq 1 .. commands
        /\ apart \subseteq Keys
    OBVIOUS
  <2>6. QED
    BY <2>2, <2>3, <2>4, <2>5 DEF TypeOK
<1>2. Readable = {}
  BY DEF Readable
<1>3. LogMatchesStore
  BY ReplayedAppend DEF LogMatchesStore
<1>4. TearsPay
  <2>1. Lost = {}
    BY <1>2 DEF Lost
  <2>2. Cardinality(Lost) = 0 /\ Unspent = 0
    BY <2>1, FS_EmptySet DEF Unspent
  <2>3. QED
    BY <2>2 DEF TearsPay
<1>5. QED
  BY <1>1, <1>2, <1>3, <1>4
  DEF IInv, Stages, IdsCounted, GoodTookAll, DropsAreLast, HalfDone, TornLast

\* What append_line does to the invariant's parts of the disk.
LEMMA Appends ==
  ASSUME IInv, stage = "logging", append_line(pending)
  PROVE  /\ file' \in Seq(Line) /\ newline' \in BOOLEAN /\ good' \in BOOLEAN
         /\ faults' \in 0 .. MaxFaults /\ joined' \in BOOLEAN
         /\ tears' \in Nat /\ tears <= tears' /\ tears' - tears <= faults' - faults
         /\ dropped' \in {dropped, dropped \cup {commands}}
         /\ Readable' \subseteq Readable \cup {commands}
         /\ \A j \in Readable : j \in acked => j \in Readable' \cup dropped'
         /\ good' => dropped' = dropped
         /\ commands \in Readable' => good
         /\ ~newline' => /\ Len(file') > 0
                         /\ \/ file'[Len(file')] = Junk
                            \/ file'[Len(file')].id \in dropped'
                            \/ ~newline /\ file' = file
         /\ ~joined' => /\ ~joined
                        /\ \A k \in Keys \ {pending.key} :
                              Replayed(file')[k] = Replayed(file)[k]
                        /\ commands \notin dropped'
                             => Replayed(file')[pending.key] = pending.value
         /\ tears' - Unspent' >= tears - Unspent
         /\ commands \notin Readable' \cup dropped'
              => tears' - Unspent' >= tears - Unspent + 1
<1>1. /\ pending \in Record /\ pending.id = commands
      /\ commands \notin Readable \cup dropped /\ commands \notin acked
      /\ ~newline => Len(file) > 0
  BY DEF IInv, TypeOK, IdsCounted, TornLast
<1>2. /\ TypeOK /\ faults \in Nat /\ MaxFaults \in Nat /\ tears \in Nat
      /\ faults \in 0 .. MaxFaults /\ file \in Seq(Line)
  BY AOFAssumption DEF IInv, TypeOK, Line
<1>3. newline \in BOOLEAN /\ joined \in BOOLEAN /\ good \in BOOLEAN
  BY <1>2 DEF TypeOK
<1>4. Unspent \in {0, 1} /\ (newline => Unspent = 0) /\ (~newline => Unspent = 1)
  BY <1>3 DEF Unspent
<1>5. CASE Written(pending)
  <2>1. /\ Write(pending) /\ newline' = TRUE /\ good /\ good' = good
        /\ faults' = faults /\ tears' = tears /\ dropped' = dropped
    BY <1>5 DEF Written
  <2>2. \A j \in Readable : j \in acked => j \in Readable' \cup dropped'
    BY <1>1, <1>2, <2>1, WritesLine DEF IInv, TornLast, IdsCounted
  <2>3. Unspent' = 0
    BY <2>1 DEF Unspent
  <2>4. commands \notin Readable' => Unspent = 1
    BY <1>1, <1>2, <1>3, <1>4, <2>1, WritesRecord
  <2>5. /\ tears' \in Nat /\ tears <= tears' /\ tears' - tears <= faults' - faults
        /\ tears' - Unspent' >= tears - Unspent
        /\ commands \notin Readable' => tears' - Unspent' >= tears - Unspent + 1
    BY <1>2, <1>4, <2>1, <2>3, <2>4
  <2>6. QED
    BY <1>1, <1>2, <1>3, <2>1, <2>2, <2>5, WritesLine, WritesRecord
<1>6. CASE WriteFails(pending)
  <2>1. /\ good /\ good' = FALSE /\ dropped' = dropped \cup {commands}
    BY <1>1, <1>6 DEF WriteFails
  <2>2. faults' = faults + 1 /\ faults' \in 0 .. MaxFaults
    BY <1>2, <1>6 DEF WriteFails
  <2>3. CASE Torn(pending)
    <3>1. /\ \E line \in {Junk, pending} : Write(line)
          /\ newline' = FALSE
      BY <2>3 DEF Torn
    <3>2. \A j \in Readable : j \in acked => j \in Readable' \cup dropped'
      BY <1>1, <1>2, <2>1, <3>1, WritesLine DEF IInv, TornLast
    <3>3. tears' = tears + 1 /\ Unspent' = 1
      BY <2>3 DEF Torn, Unspent
    <3>4. /\ tears' \in Nat /\ tears <= tears' /\ tears' - tears <= faults' - faults
          /\ tears' - Unspent' >= tears - Unspent
      BY <1>2, <1>4, <2>2, <3>3
    <3>5. /\ file' \in Seq(Line) /\ joined' \in BOOLEAN
          /\ Readable' \subseteq Readable \cup {commands}
          /\ Len(file') > 0
          /\ file'[Len(file')] = Junk \/ file'[Len(file')].id \in dropped'
          /\ ~joined' => /\ ~joined
                         /\ \A k \in Keys \ {pending.key} :
                               Replayed(file')[k] = Replayed(file)[k]
      BY <1>1, <1>2, <2>1, <3>1, WritesLine
    <3>6. QED
      BY <2>1, <2>2, <3>1, <3>2, <3>4, <3>5
  <2>4. CASE UNCHANGED <<file, newline, tears, joined>>
    <3>1. /\ tears' \in Nat /\ tears <= tears' /\ tears' - tears <= faults' - faults
          /\ tears' - Unspent' >= tears - Unspent
      BY <1>2, <1>4, <2>2, <2>4 DEF Unspent
    <3>2. Readable' = Readable
      BY <2>4 DEF Readable
    <3>3. ~newline' => Len(file') > 0
      BY <1>1, <2>4
    <3>4. QED
      BY <1>1, <1>2, <1>3, <2>1, <2>2, <2>4, <3>1, <3>2, <3>3
  <2>5. QED
    BY <1>6, <2>3, <2>4 DEF WriteFails
<1>7. CASE Ignored(pending)
  <2>1. /\ ~good /\ good' = good /\ dropped' = dropped \cup {commands}
        /\ UNCHANGED <<file, newline, faults, tears, joined>>
    BY <1>1, <1>7 DEF Ignored
  <2>2. /\ tears' \in Nat /\ tears <= tears' /\ tears' - tears <= faults' - faults
        /\ tears' - Unspent' >= tears - Unspent
    BY <1>2, <1>4, <2>1 DEF Unspent
  <2>3. Readable' = Readable /\ faults' \in 0 .. MaxFaults
    BY <1>2, <2>1 DEF Readable
  <2>4. QED
    BY <1>1, <1>2, <1>3, <2>1, <2>2, <2>3
<1>8. QED
  BY <1>5, <1>6, <1>7 DEF append_line

\* A set that gains at most one element counts at most one more.
LEMMA OneMore ==
  ASSUME NEW S, NEW T, NEW x, IsFiniteSet(S)
  PROVE  /\ T \subseteq S => /\ Cardinality(T) \in Nat
                             /\ Cardinality(T) <= Cardinality(S)
         /\ T \subseteq S \cup {x} => /\ Cardinality(T) \in Nat
                                      /\ Cardinality(T) <= Cardinality(S) + 1
         /\ Cardinality(S) \in Nat
<1>1. Cardinality(S) \in Nat
  BY FS_CardinalityType
<1>2. /\ IsFiniteSet(S \cup {x})
      /\ Cardinality(S \cup {x}) <= Cardinality(S) + 1
      /\ Cardinality(S \cup {x}) \in Nat
  BY <1>1, FS_AddElement, FS_CardinalityType
<1>3. T \subseteq S => Cardinality(T) \in Nat /\ Cardinality(T) <= Cardinality(S)
  BY FS_Subset, FS_CardinalityType
<1>4. T \subseteq S \cup {x} => /\ Cardinality(T) \in Nat
                               /\ Cardinality(T) <= Cardinality(S \cup {x})
  BY <1>2, FS_Subset, FS_CardinalityType
<1>5. QED
  BY <1>1, <1>2, <1>3, <1>4

\* The books of TearsPay: a command lost is a tear spent.
LEMMA Balance ==
  ASSUME NEW c \in Nat, NEW d \in Nat, NEW t \in Nat, NEW u \in Nat,
         NEW x \in Nat, NEW y \in Nat, c + x <= t,
         \/ d <= c /\ u - y >= t - x
         \/ d <= c + 1 /\ u - y >= t - x + 1
  PROVE  d + y <= u
OBVIOUS

\* The counters' bounds, as facts about numbers.
LEMMA Numbers ==
  ASSUME TypeOK
  PROVE  /\ commands \in Nat /\ commands <= MaxCommands /\ MaxCommands \in Nat
         /\ crashes \in Nat /\ crashes <= MaxCrashes /\ MaxCrashes \in Nat
         /\ faults \in Nat /\ faults <= MaxFaults /\ MaxFaults \in Nat
         /\ tears \in Nat /\ tears <= crashes + faults
         /\ booted \in Nat /\ booted <= commands
         /\ acked \subseteq 1 .. commands
         /\ dropped \subseteq 1 .. commands
<1>1. MaxCommands \in Nat /\ MaxCrashes \in Nat /\ MaxFaults \in Nat
  BY AOFAssumption
<1>2. /\ commands \in 0 .. MaxCommands /\ crashes \in 0 .. MaxCrashes
      /\ faults \in 0 .. MaxFaults /\ tears \in 0 .. crashes + faults
      /\ booted \in 0 .. commands
      /\ acked \subseteq 1 .. commands /\ dropped \subseteq 1 .. commands
  BY DEF TypeOK
<1>3. QED
  BY <1>1, <1>2

\* The commands lost are finitely many, so that they can be counted.
LEMMA LostFinite ==
  ASSUME TypeOK
  PROVE  IsFiniteSet(Lost)
<1>1. commands \in Nat /\ acked \subseteq 1 .. commands
  BY Numbers
<1>2. IsFiniteSet((1 .. commands) \cup {commands})
  <2>1. IsFiniteSet(1 .. commands)
    BY <1>1, FS_Interval
  <2>2. QED
    BY <2>1, FS_AddElement
<1>3. Lost \subseteq (1 .. commands) \cup {commands}
  BY <1>1 DEF Lost
<1>4. QED
  BY <1>2, <1>3, FS_Subset

\* SET and DEL log.
LEMMA LogStep ==
  ASSUME IInv, SetLogs \/ DelLogs
  PROVE  IInv'
<1>1. /\ stage = "logging" /\ append_line(pending) /\ up
      /\ up' = up /\ store' = store /\ commands' = commands
      /\ crashes' = crashes /\ booted' = booted
  BY DEF SetLogs, DelLogs, Acknowledge
<1>2. /\ TypeOK /\ pending \in Record /\ pending.id = commands /\ commands \notin acked
      /\ commands \notin Readable \cup dropped
  BY <1>1 DEF IInv, TypeOK, IdsCounted
<1>3. commands \in 1 .. MaxCommands /\ crashes \in Nat /\ faults \in Nat /\ tears \in Nat
  BY <1>2, RecordFields DEF TypeOK
<1>4. \/ /\ SetLogs /\ stage' = "applying" /\ pending' = pending /\ acked' = acked
         /\ apart' = apart /\ pending.cmd = "SET"
      \/ /\ DelLogs /\ stage' = "idle" /\ pending' = NoRecord
         /\ acked' = acked \cup {commands} /\ pending.cmd = "DEL"
         /\ apart' = IF commands \in dropped' THEN apart \cup {pending.key} ELSE apart
  BY <1>2 DEF SetLogs, DelLogs, Acknowledge
<1>5. /\ file' \in Seq(Line) /\ newline' \in BOOLEAN /\ good' \in BOOLEAN
      /\ faults' \in 0 .. MaxFaults /\ joined' \in BOOLEAN
      /\ tears' \in Nat /\ tears <= tears' /\ tears' - tears <= faults' - faults
      /\ dropped' \in {dropped, dropped \cup {commands}}
      /\ Readable' \subseteq Readable \cup {commands}
  BY <1>1, Appends
<1>6. TypeOK'
  <2>1. tears' \in 0 .. crashes' + faults'
    <3>1. crashes' = crashes
      BY <1>1
    <3>2. /\ faults' \in 0 .. MaxFaults /\ tears' \in Nat /\ tears <= tears'
          /\ tears' - tears <= faults' - faults
      BY <1>5
    <3>3. QED
      BY <1>2, <3>1, <3>2, Numbers
  <2>2. IF stage' = "idle" THEN pending' = NoRecord ELSE pending' \in Record
    BY <1>2, <1>4
  <2>3. acked' \subseteq 1 .. commands' /\ dropped' \subseteq 1 .. commands'
    <3>1. /\ acked' \subseteq acked \cup {commands}
          /\ dropped' \subseteq dropped \cup {commands}
          /\ commands' = commands
      BY <1>1, <1>4, <1>5
    <3>2. QED
      BY <1>2, <1>3, <3>1, Numbers
  <2>4. apart' \subseteq Keys
    BY <1>2, <1>4, RecordFields DEF TypeOK
  <2>5. stage' \in {"idle", "logging", "applying"}
    BY <1>4
  <2>6. QED
    BY <1>1, <1>2, <1>5, <2>1, <2>2, <2>3, <2>4, <2>5 DEF TypeOK, Line
<1>7. Stages' /\ IdsCounted'
  <2>1. Readable' \subseteq 1 .. commands'
    BY <1>1, <1>3, <1>5 DEF IInv, IdsCounted
  <2>2. QED
    BY <1>1, <1>2, <1>4, <2>1 DEF Stages, IdsCounted
<1>8. GoodTookAll'
  <2>1. good' => good /\ dropped' = dropped
    BY <1>1, Appends DEF append_line, Written, WriteFails, Ignored
  <2>2. QED
    BY <1>1, <2>1 DEF IInv, GoodTookAll
<1>9. DropsAreLast'
  <2>1. commands \in Readable' => good
    BY <1>1, Appends
  <2>2. ASSUME NEW i \in dropped', NEW j \in Readable', i > booted
        PROVE  j <= i
    <3>1. i \in 1 .. commands /\ j \in 1 .. commands
      BY <1>1, <1>6, <1>7, <2>2 DEF TypeOK, IdsCounted
    <3>2. CASE i = commands
      BY <3>1, <3>2
    <3>3. CASE i # commands
      <4>1. i \in dropped /\ ~good
        BY <1>1, <1>3, <1>5, <2>2, <3>1, <3>3 DEF IInv, GoodTookAll, TypeOK
      <4>2. j \in Readable
        BY <1>5, <2>1, <4>1
      <4>3. QED
        BY <2>2, <4>1, <4>2 DEF IInv, DropsAreLast
    <3>4. QED
      BY <3>2, <3>3
  <2>3. QED
    BY <1>1, <2>2 DEF DropsAreLast
<1>10. HalfDone' /\ LogMatchesStore'
  <2>1. ASSUME ~joined'
        PROVE  /\ ~joined
               /\ \A k \in Keys \ {pending.key} :
                     Replayed(file')[k] = Replayed(file)[k]
               /\ commands \notin dropped'
                    => Replayed(file')[pending.key] = pending.value
    BY <1>1, <2>1, Appends
  <2>2. HalfDone'
    BY <1>1, <1>2, <1>4, <2>1 DEF HalfDone
  <2>3. CASE SetLogs
    <3>1. stage' # "idle" /\ pending' = pending /\ apart' = apart
      BY <2>3 DEF SetLogs
    <3>2. QED
      BY <1>1, <2>1, <2>2, <3>1 DEF IInv, LogMatchesStore
  <2>4. CASE DelLogs
    <3>1. ASSUME ~joined', NEW k \in Keys \ apart'
          PROVE  Replayed(file')[k] = store'[k]
      <4>1. ~joined /\ k \notin apart /\ pending.cmd = "DEL"
        BY <1>2, <2>1, <2>4, <3>1 DEF DelLogs
      <4>2. CASE k = pending.key
        <5>1. commands \notin dropped'
          BY <1>2, <2>4, <3>1, <4>2 DEF DelLogs
        <5>2. store[k] = None /\ pending.value = None
          BY <1>1, <1>2, <4>1, <4>2 DEF IInv, HalfDone, Record
        <5>3. QED
          BY <1>1, <2>1, <3>1, <4>2, <5>1, <5>2
      <4>3. CASE k # pending.key
        BY <1>1, <2>1, <3>1, <4>1, <4>3 DEF IInv, LogMatchesStore
      <4>4. QED
        BY <4>2, <4>3
    <3>2. QED
      BY <2>2, <3>1 DEF LogMatchesStore
  <2>5. QED
    BY <2>2, <2>3, <2>4
<1>11. TornLast'
  <2>1. ~newline' => /\ Len(file') > 0
                     /\ \/ file'[Len(file')] = Junk
                        \/ file'[Len(file')].id \in dropped'
                        \/ ~newline /\ file' = file
    BY <1>1, Appends
  <2>2. ASSUME ~newline, file' = file
        PROVE  \/ file'[Len(file')] = Junk
               \/ file'[Len(file')].id \in dropped'
               \/ /\ file'[Len(file')].id \notin acked'
                  /\ file'[Len(file')].id < commands'
    BY <1>1, <1>2, <1>3, <1>4, <1>5, <2>2 DEF IInv, TornLast
  <2>3. QED
    BY <2>1, <2>2 DEF TornLast
<1>12. TearsPay'
  <2>1. Lost = acked \ (Readable \cup dropped)
    BY <1>1 DEF Lost
  <2>2. Lost' = (acked \cup {commands}) \ (Readable' \cup dropped')
    BY <1>1, <1>4 DEF Lost
  <2>3. \A j \in Readable : j \in acked => j \in Readable' \cup dropped'
    BY <1>1, Appends
  <2>4. Lost' \subseteq Lost \cup {commands}
    BY <1>5, <2>1, <2>2, <2>3
  <2>5. commands \in Readable' \cup dropped' => Lost' \subseteq Lost
    BY <2>2, <2>4
  <2>6. /\ Unspent \in Nat /\ Unspent' \in Nat
        /\ tears \in Nat /\ tears' \in Nat
    BY <1>3, <1>5 DEF Unspent
  <2>7. /\ Cardinality(Lost) \in Nat /\ Cardinality(Lost') \in Nat
        /\ Cardinality(Lost') <= Cardinality(Lost) + 1
        /\ commands \in Readable' \cup dropped'
             => Cardinality(Lost') <= Cardinality(Lost)
    BY <1>2, <2>4, <2>5, LostFinite, OneMore
  <2>8. Cardinality(Lost) + Unspent <= tears
    BY DEF IInv, TearsPay
  <2>9. /\ tears' - Unspent' >= tears - Unspent
        /\ commands \notin Readable' \cup dropped'
             => tears' - Unspent' >= tears - Unspent + 1
    BY <1>1, Appends
  <2>10. Cardinality(Lost') + Unspent' <= tears'
    BY <2>6, <2>7, <2>8, <2>9, Balance
  <2>11. QED
    BY <2>10 DEF TearsPay
<1>13. QED
  BY <1>6, <1>7, <1>8, <1>9, <1>10, <1>11, <1>12 DEF IInv

\* The kill inside append_line.
LEMMA TearStep ==
  ASSUME IInv, CrashInAppend
  PROVE  IInv'
<1>1. /\ stage = "logging" /\ good /\ up' = FALSE /\ store' = Nothing
      /\ pending' = NoRecord /\ stage' = "idle" /\ good' = good /\ newline' = FALSE
      /\ \E line \in {Junk, pending} : Write(line)
      /\ UNCHANGED <<commands, booted, acked, apart, faults, dropped>>
  BY DEF CrashInAppend, Dies, Torn
<1>2. crashes < MaxCrashes /\ crashes' = crashes + 1 /\ tears' = tears + 1
  BY DEF CrashInAppend, Dies, Torn
<1>3. /\ TypeOK /\ pending \in Record /\ pending.id = commands /\ commands \notin acked
      /\ ~newline => Len(file) > 0
  BY <1>1 DEF IInv, TypeOK, IdsCounted, TornLast
<1>4. /\ file' \in Seq(Line) /\ joined' \in BOOLEAN
      /\ Readable' \subseteq Readable \cup {commands}
      /\ Len(file') > 0
      /\ file'[Len(file')] = Junk \/ file'[Len(file')].id = commands
      /\ \A j \in Readable :
            \/ j \in Readable'
            \/ /\ ~newline
               /\ file[Len(file)] # Junk
               /\ j = file[Len(file)].id
  BY <1>1, <1>3, WritesLine
<1>5. commands \in 1 .. MaxCommands
  BY <1>3, RecordFields
<1>6. TypeOK'
  <2>1. crashes' \in 0 .. MaxCrashes /\ tears' \in 0 .. crashes' + faults'
    <3>1. faults' = faults
      BY <1>1
    <3>2. QED
      BY <1>2, <1>3, <3>1, Numbers, SMTT(30)
  <2>2. store' \in [Keys -> Values \cup {None}]
    BY <1>1 DEF Nothing
  <2>3. /\ up' \in BOOLEAN /\ newline' \in BOOLEAN
        /\ stage' \in {"idle", "logging", "applying"}
    BY <1>1
  <2>4. QED
    BY <1>1, <1>3, <1>4, <2>1, <2>2, <2>3 DEF TypeOK, Line
<1>7. Stages' /\ IdsCounted' /\ HalfDone' /\ LogMatchesStore'
  <2>1. Readable' \subseteq 1 .. commands'
    <3>1. /\ commands' = commands /\ Readable' \subseteq Readable \cup {commands}
          /\ Readable \subseteq 1 .. commands
      BY <1>1, <1>4 DEF IInv, IdsCounted
    <3>2. QED
      BY <1>5, <3>1
  <2>2. QED
    BY <1>1, <2>1 DEF Stages, IdsCounted, HalfDone, LogMatchesStore
<1>8. GoodTookAll' /\ DropsAreLast'
  BY <1>1 DEF IInv, GoodTookAll, DropsAreLast, TypeOK
<1>9. TornLast'
  BY <1>1, <1>3, <1>4 DEF TornLast
<1>10. TearsPay'
  <2>1. Lost' \subseteq Lost
    BY <1>1, <1>3, <1>4 DEF IInv, TornLast, Lost
  <2>2. /\ Cardinality(Lost) \in Nat /\ Cardinality(Lost') \in Nat
        /\ Cardinality(Lost') <= Cardinality(Lost)
    BY <1>3, <2>1, LostFinite, OneMore
  <2>3. Unspent \in Nat /\ Unspent' = 1 /\ tears \in Nat
    BY <1>1, <1>3, Numbers DEF Unspent
  <2>4. Cardinality(Lost) + Unspent <= tears
    BY DEF IInv, TearsPay
  <2>5. Cardinality(Lost') + Unspent' <= tears'
    BY <1>2, <2>2, <2>3, <2>4
  <2>6. QED
    BY <2>5 DEF TearsPay
<1>11. QED
  BY <1>6, <1>7, <1>8, <1>9, <1>10 DEF IInv

\* The parts of the invariant that only the log's records and the numbers of the
\* commands are about, when the log is left alone.
LEMMA DiskStep ==
  ASSUME IInv, UNCHANGED <<file, newline, tears, joined, dropped>>,
         commands' \in Nat, booted' \in Nat,
         commands <= commands', booted <= booted', good' => good \/ booted' = commands,
         stage' \in {"idle", "logging", "applying"},
         stage' # "idle" =>
           /\ pending'.id = commands' /\ commands' \notin acked'
           /\ IF stage = "idle" THEN stage' = "logging" /\ commands < commands'
                                ELSE stage' = stage /\ commands' = commands,
         \/ acked' = acked
         \/ stage = "applying" /\ stage' = "idle" /\ acked' = acked \cup {commands}
  PROVE  /\ IdsCounted' /\ GoodTookAll' /\ DropsAreLast' /\ TornLast' /\ TearsPay'
         /\ dropped' \subseteq 1 .. commands' /\ acked' \subseteq 1 .. commands'
<1>1. Readable' = Readable
  BY DEF Readable
<1>2. /\ TypeOK /\ commands \in Nat /\ booted \in Nat
      /\ acked \subseteq 1 .. commands /\ dropped \subseteq 1 .. commands
      /\ Readable \subseteq 1 .. commands
      /\ stage = "applying" => commands \in 1 .. commands
  BY Numbers, RecordFields, SMTT(30) DEF IInv, IdsCounted, TypeOK
<1>3. dropped' \subseteq 1 .. commands' /\ acked' \subseteq 1 .. commands'
  <2>1. \A i \in 1 .. commands : i \in 1 .. commands'
    BY <1>2
  <2>2. dropped' \subseteq 1 .. commands /\ acked' \subseteq 1 .. commands
    BY <1>2
  <2>3. QED
    BY <2>1, <2>2
<1>4. IdsCounted'
  <2>1. Readable' \subseteq 1 .. commands'
    BY <1>1, <1>2
  <2>2. stage' = "logging" => commands' \notin Readable' \cup dropped'
    BY <1>1, <1>2 DEF IInv, IdsCounted
  <2>3. QED
    BY <2>1, <2>2 DEF IdsCounted
<1>5. GoodTookAll'
  BY <1>2 DEF IInv, GoodTookAll
<1>6. DropsAreLast'
  BY <1>1, <1>2 DEF IInv, DropsAreLast
<1>7. TornLast'
  <2>1. SUFFICES ASSUME ~newline
                 PROVE  /\ Len(file) > 0
                        /\ \/ file[Len(file)] = Junk
                           \/ file[Len(file)].id \in dropped
                           \/ /\ file[Len(file)].id \notin acked'
                              /\ stage' # "idle" => file[Len(file)].id < commands'
    BY DEF TornLast
  <2> DEFINE last == file[Len(file)]
  <2>2. /\ Len(file) > 0
        /\ \/ last = Junk
           \/ last.id \in dropped
           \/ last.id \notin acked /\ (stage # "idle" => last.id < commands)
    BY <2>1 DEF IInv, TornLast
  <2>3. last # Junk => last.id \in Readable
    <3>1. Len(file) \in DOMAIN file
      BY <1>2, <2>2, SeqIsFunction DEF TypeOK
    <3>2. QED
      BY <3>1 DEF Readable
  <2> HIDE DEF last
  <2>4. CASE last.id \notin acked /\ (stage # "idle" => last.id < commands) /\ last # Junk
    <3>1. last.id \in 1 .. commands
      BY <1>2, <2>3, <2>4
    <3>2. last.id \notin acked'
      BY <1>2, <2>4, <3>1
    <3>3. stage' # "idle" => last.id < commands'
      BY <1>2, <2>4, <3>1
    <3>4. QED
      BY <2>2, <3>2, <3>3 DEF last
  <2>5. QED
    BY <2>2, <2>4 DEF last
<1>8. TearsPay'
  <2>1. Lost' \subseteq Lost
    BY <1>1 DEF Lost
  <2>2. /\ Cardinality(Lost) \in Nat /\ Cardinality(Lost') \in Nat
        /\ Cardinality(Lost') <= Cardinality(Lost)
    BY <1>2, <2>1, LostFinite, OneMore
  <2>3. Unspent \in Nat /\ Unspent' = Unspent /\ tears \in Nat /\ tears' = tears
    BY <1>2, Numbers DEF Unspent
  <2>4. Cardinality(Lost) + Unspent <= tears
    BY DEF IInv, TearsPay
  <2>5. Cardinality(Lost') + Unspent' <= tears'
    BY <2>2, <2>3, <2>4
  <2>6. QED
    BY <2>5 DEF TearsPay
<1>9. QED
  BY <1>3, <1>4, <1>5, <1>6, <1>7, <1>8

\* SET and DEL begin, and a DEL that misses ends.
LEMMA BeginStep ==
  ASSUME IInv, NEW key \in Keys,
         \/ \E value \in Values : SetBegins(key, value)
         \/ DelMisses(key)
         \/ DelApplies(key)
  PROVE  IInv'
<1>1. /\ up /\ up' = up /\ stage = "idle" /\ commands < MaxCommands
      /\ commands' = commands + 1 /\ UNCHANGED disk
      /\ UNCHANGED <<crashes, booted, acked>>
  BY DEF SetBegins, DelMisses, DelApplies, Begins
<1>2. /\ TypeOK /\ commands \in Nat /\ booted \in Nat /\ MaxCommands \in Nat
      /\ acked \subseteq 1 .. commands /\ booted <= commands
  BY Numbers DEF IInv
<1>3. commands' \in 1 .. MaxCommands /\ commands' \notin acked
  BY <1>1, <1>2
<1>4. \/ /\ stage' = "logging" /\ apart' = apart /\ store' = store
         /\ \E value \in Values : pending' = [cmd |-> "SET", key |-> key,
                                              value |-> value, id |-> commands']
      \/ stage' = stage /\ apart' = apart /\ store' = store /\ pending' = pending
      \/ /\ stage' = "logging" /\ apart' = apart \ {key}
         /\ store' = [store EXCEPT ![key] = None]
         /\ pending' = [cmd |-> "DEL", key |-> key, value |-> None, id |-> commands']
  BY DEF SetBegins, DelMisses, DelApplies
<1>5. /\ stage' = "logging" => pending' \in Record /\ pending'.id = commands'
                                /\ pending'.key = key
      /\ stage' \in {"idle", "logging"}
  BY <1>1, <1>3, <1>4 DEF Record
<1>6. TypeOK'
  <2>1. /\ commands' \in 0 .. MaxCommands /\ booted' \in 0 .. commands'
        /\ tears' \in 0 .. crashes' + faults' /\ crashes' \in 0 .. MaxCrashes
        /\ faults' \in 0 .. MaxFaults
    <3>1. /\ booted' = booted /\ tears' = tears /\ crashes' = crashes
          /\ faults' = faults
      BY <1>1 DEF disk
    <3>2. /\ tears \in 0 .. crashes + faults /\ crashes \in 0 .. MaxCrashes
          /\ faults \in 0 .. MaxFaults
      BY <1>2 DEF TypeOK
    <3>3. commands' \in 0 .. MaxCommands /\ booted' \in 0 .. commands'
      BY <1>1, <1>2, <3>1
    <3>4. QED
      BY <3>1, <3>2, <3>3
  <2>2. dropped' \subseteq 1 .. commands' /\ acked' \subseteq 1 .. commands'
    <3>1. \A i \in 1 .. commands : i \in 1 .. commands'
      BY <1>1, <1>2
    <3>2. QED
      BY <1>1, <1>2, <3>1, Numbers DEF disk
  <2>3. store' \in [Keys -> Values \cup {None}] /\ apart' \subseteq Keys
    BY <1>2, <1>4 DEF TypeOK
  <2>4. IF stage' = "idle" THEN pending' = NoRecord ELSE pending' \in Record
    BY <1>1, <1>2, <1>4, <1>5 DEF TypeOK
  <2>5. QED
    BY <1>1, <1>2, <1>5, <2>1, <2>2, <2>3, <2>4 DEF TypeOK, disk
<1>7. IdsCounted' /\ GoodTookAll' /\ DropsAreLast' /\ TornLast' /\ TearsPay'
  BY <1>1, <1>2, <1>3, <1>5, DiskStep DEF disk
<1>8. Stages' /\ HalfDone' /\ LogMatchesStore'
  <2>1. file' = file /\ joined' = joined /\ dropped' = dropped
    BY <1>1 DEF disk
  <2>2. Stages'
    BY <1>1, <1>5 DEF Stages
  <2>3. HalfDone'
    BY <1>1, <1>2, <1>4, <1>5 DEF HalfDone, TypeOK
  <2>4. LogMatchesStore'
    <3>1. ASSUME ~joined', NEW k \in Keys \ apart'
          PROVE  Replayed(file')[k] = store'[k] \/ (stage' # "idle" /\ pending'.key = k)
      <4>1. CASE k = key /\ stage' = "logging"
        BY <1>5, <4>1
      <4>2. CASE k # key \/ stage' # "logging"
        <5>1. k \notin apart /\ store'[k] = store[k]
          BY <1>1, <1>2, <1>4, <4>2 DEF TypeOK
        <5>2. QED
          BY <1>1, <2>1, <3>1, <5>1 DEF IInv, LogMatchesStore
      <4>3. QED
        BY <4>1, <4>2
    <3>2. QED
      BY <3>1 DEF LogMatchesStore
  <2>5. QED
    BY <2>2, <2>3, <2>4
<1>9. QED
  BY <1>6, <1>7, <1>8 DEF IInv

\* The last step of SET, and a key that leaves Storage.
LEMMA StoreStep ==
  ASSUME IInv, SetApplies \/ SetThrows \/ \E key \in Keys : Leaves(key)
  PROVE  IInv'
<1>1. /\ up /\ up' = up /\ UNCHANGED disk
      /\ UNCHANGED <<crashes, booted, commands>>
  BY DEF SetApplies, SetThrows, Leaves
<1>2. /\ TypeOK /\ commands \in Nat /\ booted \in Nat
      /\ stage # "idle" => pending \in Record /\ pending.id = commands
                            /\ commands \notin acked
  BY Numbers DEF IInv, TypeOK, IdsCounted
<1>3. \/ /\ SetApplies /\ stage = "applying" /\ stage' = "idle" /\ pending' = NoRecord
         /\ acked' = acked \cup {commands}
         /\ store' = [store EXCEPT ![pending.key] = pending.value]
         /\ apart' = IF commands \in dropped THEN apart \cup {pending.key}
                                             ELSE apart \ {pending.key}
      \/ /\ SetThrows /\ stage = "applying" /\ stage' = "idle" /\ pending' = NoRecord
         /\ acked' = acked
         /\ store' = store \/ store' = [store EXCEPT ![pending.key] = pending.value]
         /\ apart' = apart \cup {pending.key}
      \/ /\ stage' = stage /\ pending' = pending /\ acked' = acked
         /\ \E key \in Keys : /\ store' = [store EXCEPT ![key] = None]
                              /\ apart' = apart \cup {key}
  BY <1>2 DEF SetApplies, SetThrows, Leaves, Acknowledge
<1>4. stage' \in {"idle", stage} /\ stage \in {"idle", "logging", "applying"}
  BY <1>2, <1>3 DEF TypeOK
<1>5. IdsCounted' /\ GoodTookAll' /\ DropsAreLast' /\ TornLast' /\ TearsPay'
      /\ acked' \subseteq 1 .. commands'
  <2>1. stage' # "idle" => stage' = stage /\ pending' = pending /\ acked' = acked
    BY <1>3
  <2>2. good' = good
    BY <1>1 DEF disk
  <2>3. commands <= commands' /\ booted <= booted'
    BY <1>1, <1>2
  <2>4. QED
    BY <1>1, <1>2, <1>3, <1>4, <2>1, <2>2, <2>3, DiskStep DEF disk
<1>6. TypeOK'
  <2>1. store' \in [Keys -> Values \cup {None}] /\ apart' \subseteq Keys
    BY <1>2, <1>3, RecordFields DEF TypeOK
  <2>2. IF stage' = "idle" THEN pending' = NoRecord ELSE pending' \in Record
    BY <1>2, <1>3 DEF TypeOK
  <2>3. QED
    BY <1>1, <1>2, <1>4, <1>5, <2>1, <2>2 DEF TypeOK, disk
<1>7. Stages' /\ HalfDone'
  <2>1. Stages'
    BY <1>1, <1>3 DEF IInv, Stages
  <2>2. CASE stage' = "idle"
    BY <2>1, <2>2 DEF HalfDone
  <2>3. CASE stage' # "idle"
    <3>1. PICK key \in Keys : store' = [store EXCEPT ![key] = None]
      BY <1>3, <2>3
    <3>2. stage' = stage /\ pending' = pending /\ pending.key \in Keys
      BY <1>2, <1>3, <2>3, RecordFields
    <3>3. store[pending.key] = None => store'[pending.key] = None
      BY <1>2, <3>1, <3>2 DEF TypeOK
    <3>4. QED
      BY <1>1, <2>1, <3>2, <3>3 DEF IInv, HalfDone, disk
  <2>4. QED
    BY <2>2, <2>3
<1>8. LogMatchesStore'
  <2>1. file' = file /\ joined' = joined /\ dropped' = dropped
    BY <1>1 DEF disk
  <2>2. SUFFICES ASSUME ~joined, NEW k \in Keys \ apart'
                 PROVE  \/ Replayed(file)[k] = store'[k]
                        \/ stage' # "idle" /\ pending'.key = k
    BY <2>1 DEF LogMatchesStore
  <2>3. CASE SetApplies
    <3>1. /\ stage = "applying" /\ store' = [store EXCEPT ![pending.key] = pending.value]
          /\ apart' = IF commands \in dropped THEN apart \cup {pending.key}
                                              ELSE apart \ {pending.key}
      BY <1>2, <2>3 DEF SetApplies
    <3>2. CASE k = pending.key
      <4>1. pending.id \notin dropped
        BY <1>2, <3>1, <3>2
      <4>2. Replayed(file)[k] = pending.value
        BY <1>1, <2>2, <3>1, <3>2, <4>1 DEF IInv, HalfDone
      <4>3. store'[k] = pending.value
        BY <1>2, <3>1, <3>2 DEF TypeOK
      <4>4. QED
        BY <4>2, <4>3
    <3>3. CASE k # pending.key
      <4>1. k \notin apart /\ store'[k] = store[k]
        BY <1>2, <3>1, <3>3 DEF TypeOK
      <4>2. QED
        BY <1>1, <2>2, <3>3, <4>1 DEF IInv, LogMatchesStore
    <3>4. QED
      BY <3>2, <3>3
  <2>4. CASE SetThrows
    <3>1. /\ store' = store \/ store' = [store EXCEPT ![pending.key] = pending.value]
          /\ apart' = apart \cup {pending.key}
      BY <2>4 DEF SetThrows
    <3>2. k \notin apart /\ store'[k] = store[k]
      BY <1>2, <2>2, <3>1 DEF TypeOK
    <3>3. QED
      BY <1>1, <2>2, <3>1, <3>2 DEF IInv, LogMatchesStore
  <2>5. CASE \E key \in Keys : Leaves(key)
    <3>1. PICK key \in Keys : /\ store' = [store EXCEPT ![key] = None]
                              /\ apart' = apart \cup {key}
                              /\ stage' = stage /\ pending' = pending
      BY <2>5 DEF Leaves
    <3>2. k \notin apart /\ store'[k] = store[k]
      BY <1>2, <3>1 DEF TypeOK
    <3>3. QED
      BY <1>1, <2>2, <3>1, <3>2 DEF IInv, LogMatchesStore
  <2>6. QED
    BY <2>3, <2>4, <2>5
<1>9. QED
  BY <1>5, <1>6, <1>7, <1>8 DEF IInv

\* The kill between two steps, and the start of the next process.
LEMMA LifeStep ==
  ASSUME IInv, Crash \/ \E opens \in BOOLEAN : Restart(opens)
  PROVE  IInv'
<1>1. /\ TypeOK /\ commands \in Nat /\ booted \in Nat /\ booted <= commands
      /\ UNCHANGED <<file, newline, tears, joined, dropped, commands, acked>>
  BY Numbers DEF IInv, Crash, Dies, Restart, disk
<1>2. /\ stage' = "idle" /\ pending' = NoRecord
      /\ \/ booted' = booted /\ good' = good
         \/ booted' = commands /\ good' \in BOOLEAN
  BY <1>1 DEF IInv, Stages, TypeOK, Crash, Dies, Restart, disk
<1>3. \/ /\ ~up' /\ up' \in BOOLEAN /\ store' = Nothing /\ apart' = apart
      \/ /\ up' /\ up' \in BOOLEAN /\ store' = Replayed(file) /\ apart' = {}
  BY DEF Crash, Dies, Restart
<1>4. /\ crashes' \in 0 .. MaxCrashes /\ faults' \in 0 .. MaxFaults
      /\ crashes <= crashes' /\ faults <= faults'
  <2>1. CASE Crash
    <3>1. crashes < MaxCrashes /\ crashes' = crashes + 1 /\ faults' = faults
      BY <2>1 DEF Crash, Dies, disk
    <3>2. QED
      BY <1>1, <3>1, Numbers
  <2>2. CASE \E opens \in BOOLEAN : Restart(opens)
    <3>1. /\ crashes' = crashes
          /\ faults' = faults \/ (faults < MaxFaults /\ faults' = faults + 1)
      BY <2>2 DEF Restart
    <3>2. QED
      BY <1>1, <3>1, Numbers
  <2>3. QED
    BY <2>1, <2>2
<1>5. IdsCounted' /\ GoodTookAll' /\ DropsAreLast' /\ TornLast' /\ TearsPay'
  <2>1. commands' \in Nat /\ booted' \in Nat /\ commands <= commands' /\ booted <= booted'
    BY <1>1, <1>2
  <2>2. good' => good \/ booted' = commands
    BY <1>2
  <2>3. QED
    BY <1>1, <1>2, <2>1, <2>2, DiskStep
<1>6. TypeOK'
  <2>1. store' \in [Keys -> Values \cup {None}]
    BY <1>1, <1>3, ReplayedAppend DEF TypeOK, Store, Line, Nothing
  <2>2. tears' \in 0 .. crashes' + faults' /\ booted' \in 0 .. commands'
    BY <1>1, <1>2, <1>4, Numbers
  <2>3. good' \in BOOLEAN /\ apart' \subseteq Keys
    BY <1>1, <1>2, <1>3 DEF TypeOK
  <2>4. QED
    BY <1>1, <1>2, <1>3, <1>4, <2>1, <2>2, <2>3 DEF TypeOK
<1>7. Stages' /\ HalfDone' /\ LogMatchesStore'
  BY <1>1, <1>2, <1>3 DEF Stages, HalfDone, LogMatchesStore
<1>8. QED
  BY <1>5, <1>6, <1>7 DEF IInv

\* Every step keeps the invariant.
LEMMA NextIInv == IInv /\ [Next]_vars => IInv'
<1> SUFFICES ASSUME IInv, [Next]_vars PROVE IInv'
  OBVIOUS
<1>1. CASE \E key \in Keys, value \in Values : SetBegins(key, value)
  BY <1>1, BeginStep
<1>2. CASE \E key \in Keys : DelMisses(key) \/ DelApplies(key)
  BY <1>2, BeginStep
<1>3. CASE SetLogs \/ DelLogs
  BY <1>3, LogStep
<1>4. CASE SetApplies \/ SetThrows \/ \E key \in Keys : Leaves(key)
  BY <1>4, StoreStep
<1>5. CASE Crash \/ \E opens \in BOOLEAN : Restart(opens)
  BY <1>5, LifeStep
<1>6. CASE CrashInAppend
  BY <1>6, TearStep
<1>7. CASE UNCHANGED vars
  BY <1>7
  DEF vars, disk, IInv, TypeOK, Stages, IdsCounted, GoodTookAll, DropsAreLast,
      HalfDone, LogMatchesStore, TornLast, TearsPay, Lost, Unspent, Readable
<1>8. QED
  BY <1>1, <1>2, <1>3, <1>4, <1>5, <1>6, <1>7 DEF Next, Over

\* So it always holds.
LEMMA AlwaysIInv == Spec => []IInv
BY InitIInv, NextIInv, PTL DEF Spec
-----------------------------------------------------------------------------
\* The log, Storage, the command being executed and the counters keep their
\* types.
THEOREM LogTypeCorrect == Spec => []TypeOK
<1>1. IInv => TypeOK
  BY DEF IInv
<1>2. QED
  BY <1>1, AlwaysIInv, PTL

\* append_line and replay are a pair: as long as nothing is written onto a torn
\* line, the log rebuilds Storage, but for the keys that left it unlogged and
\* the key the client is just changing.
THEOREM LogTellsStore == Spec => []LogMatchesStore
<1>1. IInv => LogMatchesStore
  BY DEF IInv
<1>2. QED
  BY <1>1, AlwaysIInv, PTL

\* A bad stream takes nothing until the next start, so the records append_line
\* drops are the last ones of the process's life.
THEOREM NoGapInLog == Spec => []DropsAreLast
<1>1. IInv => DropsAreLast
  BY DEF IInv
<1>2. QED
  BY <1>1, AlwaysIInv, PTL

\* A line without its newline costs at most one acknowledged command, however
\* the kills and the failing writes fall.
THEOREM TearsBoundLoss == Spec => []LossBounded
<1>1. ASSUME IInv PROVE LossBounded
  <2> DEFINE gone == acked \ (Readable \cup dropped)
  <2>1. IsFiniteSet(Lost) /\ gone \subseteq Lost
    BY <1>1, LostFinite DEF IInv, Lost
  <2>2. /\ Cardinality(Lost) \in Nat /\ Cardinality(gone) \in Nat
        /\ Cardinality(gone) <= Cardinality(Lost)
    BY <2>1, OneMore
  <2>3. Cardinality(Lost) + Unspent <= tears /\ tears \in Nat /\ Unspent \in Nat
    BY <1>1, Numbers DEF IInv, TearsPay, Unspent
  <2>4. Cardinality(gone) <= tears
    BY <2>2, <2>3
  <2>5. QED
    BY <2>4 DEF LossBounded
<1>2. QED
  BY <1>1, AlwaysIInv, PTL
=============================================================================
