-------------------------------- MODULE AOF --------------------------------
(***************************************************************************)
(* The append-only log between Server and Storage: what SET and DEL write  *)
(* to it and when, what a crash of the process leaves of it, and what      *)
(* replay rebuilds from it.                                                *)
(*                                                                         *)
(* Server executes one command at a time.  SET logs and then applies; DEL  *)
(* applies, and logs when it removed something.  The process can be killed *)
(* between any two of these steps and in the middle of append_line, whose  *)
(* line and newline go to the file in writes of their own: the file may    *)
(* then end in a piece of a line, or in a whole line without its newline.  *)
(* What was written survives, as it does in the kernel's page cache.       *)
(*                                                                         *)
(* A write can also fail, when the disk is full.  The stream is then bad,  *)
(* takes nothing until the process starts again, and nobody looks at it.   *)
(* (What its buffer still holds may be tried once more when the process    *)
(* exits in order; here it is killed.)                                     *)
(*                                                                         *)
(* A line is the record it parses to, or Junk when it does not parse; what *)
(* it is made of is in module Codec.  Storage is a map, from which keys    *)
(* also leave by eviction and expiry, and none of that is logged.          *)
(***************************************************************************)
EXTENDS Integers, Sequences, FiniteSets

CONSTANTS
  Keys,
  Values,
  None,         \* no value
  MaxCommands,  \* bound on the commands executed
  MaxCrashes,   \* bound on the crashes
  MaxFaults     \* bound on the writes and opens that fail

ASSUME AOFAssumption ==
  /\ None \notin Values
  /\ {MaxCommands, MaxCrashes, MaxFaults} \subseteq Nat

VARIABLES
  file,      \* the lines of the log
  newline,   \* whether the last line has its newline
  good,      \* file_.good()
  store,     \* Storage: the value of each key, None when it is absent
  up,        \* whether the process is up, its log replayed
  pending,   \* the record of the command being executed, if any
  stage,     \* how far that command is
  commands,  \* the commands executed so far; a record carries its number
  crashes,
  faults,    \* the writes and opens that have failed
  tears,     \* history: what left a line without its newline
  joined,    \* history: whether a line has been written onto a torn one
  dropped,   \* history: the commands whose record the stream did not take
  booted,    \* history: the commands executed before the process started
  acked,     \* history: the logged commands answered with success
  apart      \* history: keys whose value in Storage went its own way

disk == <<file, newline, good, faults, tears, joined, dropped>>
vars == <<disk, store, up, pending, stage, commands, crashes, booted, acked,
          apart>>

Record == [cmd : {"SET"}, key : Keys, value : Values, id : 1 .. MaxCommands]
     \cup [cmd : {"DEL"}, key : Keys, value : {None}, id : 1 .. MaxCommands]
Junk == [cmd |-> "junk"]
NoRecord == [cmd |-> "none"]

Nothing == [k \in Keys |-> None]
-----------------------------------------------------------------------------
\* `line' is written in append mode: after a last line that has no newline it
\* lands on that line, and what comes of it parses no more.
Write(line) ==
  /\ file' = IF newline THEN Append(file, line)
             ELSE [file EXCEPT ![Len(file)] = Junk]
  /\ joined' = (joined \/ ~newline)

\* The stream takes the line, its newline and the flush.
Written(record) ==
  /\ good
  /\ Write(record) /\ newline' = TRUE
  /\ UNCHANGED <<good, faults, tears, dropped>>

\* Part of a line reaches the file: a piece of it, or all but the newline.
Torn(record) ==
  /\ \E line \in {Junk, record} : Write(line)
  /\ newline' = FALSE
  /\ tears' = tears + 1

\* The write fails, with nothing or part of the line on the disk.
WriteFails(record) ==
  /\ good /\ faults < MaxFaults
  /\ Torn(record) \/ UNCHANGED <<file, newline, tears, joined>>
  /\ good' = FALSE /\ faults' = faults + 1
  /\ dropped' = dropped \cup {record.id}

\* A bad stream takes nothing.
Ignored(record) ==
  /\ ~good
  /\ dropped' = dropped \cup {record.id}
  /\ UNCHANGED <<file, newline, good, faults, tears, joined>>

\* A stream whose state is cleared before each line.
append_lineClears(record) ==
  \/ WriteFails(record)
  \/ /\ Write(record) /\ newline' = TRUE /\ good' = TRUE
     /\ UNCHANGED <<faults, tears, dropped>>

\* Lines that are not terminated.
append_unterminated(record) ==
  /\ Write(record) /\ newline' = FALSE
  /\ UNCHANGED <<good, faults, tears, dropped>>

append_line(record) == Written(record) \/ WriteFails(record) \/ Ignored(record)

\* What replay makes of one line: storage->set, storage->del, or nothing.
ReplayLine(st, line) ==
  IF line.cmd \in {"SET", "DEL"} THEN [st EXCEPT ![line.key] = line.value]
                                 ELSE st

\* What replay makes of a log.
Replayed(lines) ==
  LET upTo[i \in 0 .. Len(lines)] ==
        IF i = 0 THEN Nothing ELSE ReplayLine(upTo[i - 1], lines[i])
  IN  upTo[Len(lines)]
-----------------------------------------------------------------------------
(***************************************************************************)
(* Server::execute_command.                                                *)
(***************************************************************************)
Begins ==
  /\ up
  /\ stage = "idle"
  /\ commands < MaxCommands
  /\ commands' = commands + 1

\* The command is answered with success.
Acknowledge ==
  /\ acked' = acked \cup {pending.id}
  /\ pending' = NoRecord
  /\ stage' = "idle"

\* SET that passes its checks.
SetBegins(key, value) ==
  /\ Begins
  /\ pending' = [cmd |-> "SET", key |-> key, value |-> value, id |-> commands']
  /\ stage' = "logging"
  /\ UNCHANGED <<disk, store, up, crashes, booted, acked, apart>>

SetLogs ==
  /\ up /\ stage = "logging" /\ pending.cmd = "SET"
  /\ append_line(pending)
  /\ stage' = "applying"
  /\ UNCHANGED <<store, up, pending, commands, crashes, booted, acked, apart>>

\* storage_->set, and +OK.
SetApplies ==
  /\ up /\ stage = "applying"
  /\ store' = [store EXCEPT ![pending.key] = pending.value]
  /\ apart' = IF pending.id \in dropped THEN apart \cup {pending.key}
                                        ELSE apart \ {pending.key}
  /\ Acknowledge
  /\ UNCHANGED <<disk, up, commands, crashes, booted>>

\* storage_->set throws bad_alloc, before or after the value is in data_, and the
\* answer is -ERR out of memory.  The record stays in the log.
SetThrows ==
  /\ up /\ stage = "applying"
  /\ \/ UNCHANGED store
     \/ store' = [store EXCEPT ![pending.key] = pending.value]
  /\ apart' = apart \cup {pending.key}
  /\ pending' = NoRecord
  /\ stage' = "idle"
  /\ UNCHANGED <<disk, up, commands, crashes, booted, acked>>

\* DEL of a key that is not there: :0, and nothing is logged.
DelMisses(key) ==
  /\ Begins
  /\ store[key] = None
  /\ UNCHANGED <<disk, store, up, pending, stage, crashes, booted, acked, apart>>

\* storage_->del removes the key.
DelApplies(key) ==
  /\ Begins
  /\ store[key] # None
  /\ store' = [store EXCEPT ![key] = None]
  /\ pending' = [cmd |-> "DEL", key |-> key, value |-> None, id |-> commands']
  /\ stage' = "logging"
  /\ apart' = apart \ {key}
  /\ UNCHANGED <<disk, up, crashes, booted, acked>>

\* DEL that answers :1 and does not log.
DelSilent ==
  /\ up /\ stage = "logging" /\ pending.cmd = "DEL"
  /\ Acknowledge
  /\ UNCHANGED <<disk, store, up, commands, crashes, booted, apart>>

\* The removal is logged, and :1.
DelLogs ==
  /\ up /\ stage = "logging" /\ pending.cmd = "DEL"
  /\ append_line(pending)
  /\ apart' = IF pending.id \in dropped' THEN apart \cup {pending.key} ELSE apart
  /\ Acknowledge
  /\ UNCHANGED <<store, up, commands, crashes, booted>>

\* Eviction or expiry takes a key; while a SET is being applied too.
Leaves(key) ==
  /\ up
  /\ store[key] # None
  /\ store' = [store EXCEPT ![key] = None]
  /\ apart' = apart \cup {key}
  /\ UNCHANGED <<disk, up, pending, stage, commands, crashes, booted, acked>>
-----------------------------------------------------------------------------
(***************************************************************************)
(* Crash and restart.                                                      *)
(***************************************************************************)
Dies ==
  /\ up
  /\ crashes < MaxCrashes
  /\ crashes' = crashes + 1
  /\ up' = FALSE
  /\ store' = Nothing
  /\ pending' = NoRecord
  /\ stage' = "idle"
  /\ UNCHANGED <<commands, booted, acked, apart>>

\* The process is killed between two steps.
Crash == Dies /\ UNCHANGED disk

\* The process is killed inside append_line, when a piece of the line or all
\* of it but the newline has been written.
CrashInAppend ==
  /\ stage = "logging" /\ good
  /\ Dies
  /\ Torn(pending)
  /\ UNCHANGED <<good, faults, dropped>>

\* The process starts again: replay, and the log is opened for appending, which
\* may fail.
Restart(opens) ==
  /\ ~up
  /\ opens \/ faults < MaxFaults
  /\ up' = TRUE
  /\ store' = Replayed(file)
  /\ good' = opens /\ faults' = IF opens THEN faults ELSE faults + 1
  /\ booted' = commands
  /\ apart' = {}
  /\ UNCHANGED <<file, newline, tears, joined, dropped, pending, stage, commands,
                 crashes, acked>>

\* The bounds are reached and nothing is left to do.
Over == up /\ stage = "idle" /\ commands = MaxCommands /\ UNCHANGED vars
-----------------------------------------------------------------------------
Init ==
  /\ file = <<>>
  /\ newline = TRUE
  /\ good = TRUE
  /\ store = Nothing
  /\ up = TRUE
  /\ pending = NoRecord
  /\ stage = "idle"
  /\ commands = 0
  /\ crashes = 0
  /\ faults = 0
  /\ tears = 0
  /\ joined = FALSE
  /\ dropped = {}
  /\ booted = 0
  /\ acked = {}
  /\ apart = {}

Next ==
  \/ \E key \in Keys, value \in Values : SetBegins(key, value)
  \/ SetLogs
  \/ SetApplies
  \/ SetThrows
  \/ \E key \in Keys : DelMisses(key) \/ DelApplies(key) \/ Leaves(key)
  \/ DelLogs
  \/ Crash
  \/ CrashInAppend
  \/ \E opens \in BOOLEAN : Restart(opens)
  \/ Over

Spec == Init /\ [][Next]_vars
-----------------------------------------------------------------------------
\* The commands whose records replay can read.
Readable == {file[i].id : i \in {j \in DOMAIN file : file[j] # Junk}}

TypeOK ==
  /\ file \in Seq(Record \cup {Junk})
  /\ newline \in BOOLEAN
  /\ store \in [Keys -> Values \cup {None}]
  /\ up \in BOOLEAN
  /\ stage \in {"idle", "logging", "applying"}
  /\ IF stage = "idle" THEN pending = NoRecord ELSE pending \in Record
  /\ commands \in 0 .. MaxCommands
  /\ crashes \in 0 .. MaxCrashes
  /\ good \in BOOLEAN
  /\ faults \in 0 .. MaxFaults
  /\ tears \in 0 .. crashes + faults
  /\ joined \in BOOLEAN
  /\ dropped \subseteq 1 .. commands
  /\ booted \in 0 .. commands
  /\ acked \subseteq 1 .. commands
  /\ apart \subseteq Keys

\* The log says what Storage holds: as long as nothing was written onto a torn
\* line, a replay would rebuild the value of every key the client is
\* not just changing, wherever in the sequence of commands, crashes and
\* restarts the process is.  Apart are the keys evicted, expired, whose SET was
\* refused after it was logged, or whose record the stream did not take.
LogMatchesStore ==
  (up /\ ~joined)
    => \A k \in Keys \ apart :
          \/ Replayed(file)[k] = store[k]
          \/ stage # "idle" /\ pending.key = k

\* A torn tail costs at most one acknowledged command that append_line wrote:
\* the one that is appended to it after the restart.
LossBounded == Cardinality(acked \ (Readable \cup dropped)) <= tears

\* What a failing disk costs is the last commands of the process's life: once
\* append_line has dropped a record, no later one of that life is in the log,
\* which so never has a gap that a replay would step over.
DropsAreLast == \A i \in dropped, j \in Readable : i > booted => j <= i

\* What replay says of a torn tail (aof.cpp): it skips it and keeps replaying
\* the rest of the log.  Nothing that was acknowledged, and written, is lost
\* to it.
TornTailSkipped == acked \subseteq Readable \cup dropped

\* What README says of persistence: every applied SET and DEL is appended to
\* the log and flushed.  A known divergence (README.md): the code does not.
AppliedIsAppended == acked \subseteq Readable
=============================================================================
