------------------------------ MODULE Commands ------------------------------
(***************************************************************************)
(* Server::execute_command: what a command does to Storage and to the log, *)
(* and what it is answered.                                                *)
(*                                                                         *)
(* An argument is known by what execute_command asks of it: its size, the  *)
(* option it names, the integer it spells, the line ends inside it.        *)
(* Storage is a map from which keys also leave by eviction and expiry; the *)
(* steps of SET and DEL as a crash sees them are in module AOF.            *)
(***************************************************************************)
EXTENDS Integers, Sequences, FiniteSetsExt, Functions

CONSTANTS
  Inputs,          \* the commands a client may send: type and arguments
  Args,
  Size,            \* the size of each argument
  ExWords,         \* the arguments that lowercase to "ex"
  PxWords,         \* the ones that lowercase to "px"
  Spelled,         \* the integer spelt by each argument that spells one
  LineEnds,        \* the line ends inside each argument
  kMaxKeySize, max_value_size,
  Room,            \* the largest key and value that fit in the memory limit
  MaxInt,          \* INT_MAX
  MaxCommands      \* bound on the commands executed

\* What is assumed of the constants.
CommandsAssumption ==
  /\ \A cmd \in Inputs : cmd.args \in Seq(Args)
  /\ \A cmd \in Inputs : cmd.type = "UNKNOWN" => cmd.verb \in Args
  /\ ExWords \cap PxWords = {}
  /\ DOMAIN Spelled \subseteq Args \ (ExWords \cup PxWords)
  /\ \A a \in DOMAIN Spelled : Spelled[a] \in Int
  /\ Size \in [Args -> Nat] /\ LineEnds \in [Args -> Nat]
  /\ {kMaxKeySize, max_value_size, Room, MaxInt, MaxCommands} \subseteq Nat

VARIABLES
  store,    \* Storage: value and ttl of each key; ttl is 0 when it has none
  log,      \* the records given to AOFLogger
  latest,   \* the latest command executed, and its reply
  executed  \* the number of commands executed

vars == <<store, log, latest, executed>>

Reply(text) == [text |-> text, blob |-> {}, lines |-> 1]
\* A reply that repeats an argument.
Quoting(text, arg) == [Reply(text) EXCEPT !.lines = 1 + LineEnds[arg]]
Bulk(arg) == [Reply("bulk") EXCEPT !.blob = {arg}]

Errors == {"wrong_number", "key_too_large", "value_too_large", "syntax",
           "invalid_expire", "unsupported", "no_room", "unknown"}

Serve(cmd, reply) ==
  /\ executed' = executed + 1
  /\ latest' = [cmd |-> cmd, reply |-> reply]
-----------------------------------------------------------------------------
\* parse_int: stoi refuses what is no int.
IsInt(arg) == arg \in DOMAIN Spelled /\ Spelled[arg] \in -MaxInt - 1 .. MaxInt

\* The seconds of a PX: rounded down, and rounded up.
FromMillisDown(amount) == amount \div 1000
FromMillis(amount) == amount \div 1000 + (IF amount % 1000 # 0 THEN 1 ELSE 0)

Seconds(word, amount) == IF word \in PxWords THEN FromMillis(amount) ELSE amount

\* The old positional TTL, in the first place after the value.  k is one more
\* than in the code.
Legacy(args, k) == k = 3 /\ IsInt(args[k])

\* The loop over SET's options: how it ends from each of them on.  The last
\* one that it reads gives the ttl; 0 is none, which an EX or PX never gives.
Outcome(reply, ttl) == [reply |-> reply, ttl |-> ttl]
Options(args) ==
  LET n == Len(args)
      from[k \in 3 .. n + 2] ==
        LET after(next, ttl) ==
              IF from[next] = Outcome(Reply("OK"), 0)
              THEN Outcome(Reply("OK"), ttl) ELSE from[next]
        IN  CASE k > n -> Outcome(Reply("OK"), 0)
              [] k <= n /\ args[k] \in ExWords \cup PxWords ->
                   IF k = n THEN Outcome(Reply("syntax"), 0)
                   ELSE IF ~IsInt(args[k + 1]) \/ Spelled[args[k + 1]] <= 0
                   THEN Outcome(Reply("invalid_expire"), 0)
                   ELSE after(k + 2, Seconds(args[k], Spelled[args[k + 1]]))
              [] OTHER ->
                   IF Legacy(args, k) THEN after(k + 1, Spelled[args[k]])
                   ELSE Outcome(Quoting("unsupported", args[k]), 0)
  IN  from[3]

can_store(key, value) ==
  /\ Size[key] <= kMaxKeySize /\ Size[value] <= max_value_size
  /\ Size[key] + Size[value] <= Room

\* The checks of SET, in the code's order.
Checked(args) ==
  CASE Len(args) < 2 -> Outcome(Reply("wrong_number"), 0)
    [] Len(args) >= 2 /\ Size[args[1]] > kMaxKeySize ->
         Outcome(Reply("key_too_large"), 0)
    [] Len(args) >= 2 /\ Size[args[1]] <= kMaxKeySize ->
         IF Size[args[2]] > max_value_size
         THEN Outcome(Reply("value_too_large"), 0)
         ELSE IF Options(args).reply.text = "OK" /\ ~can_store(args[1], args[2])
         THEN Outcome(Reply("no_room"), 0)
         ELSE Options(args)
-----------------------------------------------------------------------------
\* A ttl kept as it is given.
StoredAsGiven(args, ttl) ==
  [k \in DOMAIN store \cup {args[1]} |->
     IF k = args[1] THEN [value |-> args[2], ttl |-> ttl] ELSE store[k]]

\* The store with a value under a key; Storage takes a ttl below 1 for none.
Stored(args, ttl) ==
  [k \in DOMAIN store \cup {args[1]} |->
     IF k = args[1] THEN [value |-> args[2], ttl |-> Max({ttl, 0})]
                    ELSE store[k]]
Without(key) == Restrict(store, DOMAIN store \ {key})

SetRecord(args, ttl) ==
  [cmd |-> "SET", key |-> args[1], value |-> args[2], ttl |-> ttl]

\* A SET that logs before its last check.
SetFailsLogged(cmd) ==
  /\ cmd.type = "SET"
  /\ Checked(cmd.args).reply.text # "OK"
  /\ Serve(cmd, Checked(cmd.args).reply)
  /\ log' = IF Checked(cmd.args).reply.text = "no_room"
            THEN Append(log, SetRecord(cmd.args, 0)) ELSE log
  /\ UNCHANGED store

SetFails(cmd) ==
  /\ cmd.type = "SET"
  /\ Checked(cmd.args).reply.text # "OK"
  /\ Serve(cmd, Checked(cmd.args).reply)
  /\ UNCHANGED <<store, log>>

SetStores(cmd) ==
  LET set == Checked(cmd.args)
  IN  /\ cmd.type = "SET"
      /\ set.reply.text = "OK"
      /\ Serve(cmd, set.reply)
      /\ log' = Append(log, SetRecord(cmd.args, set.ttl))
      /\ store' = Stored(cmd.args, set.ttl)

\* bad_alloc: in log_set, before anything is written; or in storage_->set, when
\* the value may be stored, with the ttl of the value it replaced or none.
SetThrows(cmd) ==
  LET set == Checked(cmd.args)
      key == cmd.args[1]
      left == IF key \in DOMAIN store THEN store[key].ttl ELSE 0
  IN  /\ cmd.type = "SET"
      /\ set.reply.text = "OK"
      /\ Serve(cmd, Reply("bad_alloc"))
      /\ \/ UNCHANGED <<store, log>>
         \/ /\ log' = Append(log, SetRecord(cmd.args, set.ttl))
            /\ \/ UNCHANGED store
               \/ store' = Stored(cmd.args, left)

GET(cmd) ==
  /\ cmd.type = "GET"
  /\ Serve(cmd, IF cmd.args = <<>> THEN Reply("wrong_number")
                ELSE IF cmd.args[1] \notin DOMAIN store THEN Reply("nil")
                ELSE Bulk(store[cmd.args[1]].value))
  /\ UNCHANGED <<store, log>>

DelFails(cmd) ==
  /\ cmd.type = "DEL"
  /\ cmd.args = <<>>
  /\ Serve(cmd, Reply("wrong_number"))
  /\ UNCHANGED <<store, log>>

\* A DEL of a key that is not there is not logged.
DEL(cmd) ==
  LET key == cmd.args[1]
      removed == key \in DOMAIN store
  IN  /\ cmd.type = "DEL"
      /\ cmd.args # <<>>
      /\ Serve(cmd, Reply(IF removed THEN "one" ELSE "zero"))
      /\ store' = Without(key)
      /\ log' = IF removed THEN Append(log, [cmd |-> "DEL", key |-> key]) ELSE log

\* PING, SELECT, METRICS, and verbs that are not known.
Others(cmd) ==
  /\ cmd.type \in {"PING", "SELECT", "METRICS", "UNKNOWN"}
  /\ Serve(cmd, CASE cmd.type = "PING" -> IF cmd.args = <<>> THEN Reply("PONG")
                                          ELSE Bulk(cmd.args[1])
                  [] cmd.type = "SELECT" -> Reply("OK")
                  [] cmd.type = "METRICS" -> Reply("metrics")
                  [] cmd.type = "UNKNOWN" -> Quoting("unknown", cmd.verb))
  /\ UNCHANGED <<store, log>>

\* make_shared throws.
PingThrows(cmd) ==
  /\ cmd.type = "PING" /\ cmd.args # <<>>
  /\ Serve(cmd, Reply("bad_alloc"))
  /\ UNCHANGED <<store, log>>

\* Eviction or expiry takes a key.
Leaves(key) ==
  /\ key \in DOMAIN store
  /\ store' = Without(key)
  /\ UNCHANGED <<log, latest, executed>>

Init ==
  /\ store = [k \in {} |-> 0] /\ log = <<>>
  /\ executed = 0
  /\ latest = [cmd |-> [type |-> "none", args |-> <<>>], reply |-> Reply("none")]

Next ==
  \/ /\ executed < MaxCommands
     /\ \E cmd \in Inputs :
        \/ SetFails(cmd) \/ SetStores(cmd) \/ SetThrows(cmd)
        \/ GET(cmd)
        \/ DelFails(cmd) \/ DEL(cmd)
        \/ Others(cmd) \/ PingThrows(cmd)
  \/ \E key \in DOMAIN store : Leaves(key)

Spec == Init /\ [][Next]_vars
-----------------------------------------------------------------------------
(***************************************************************************)
(* SET as the README has it: SET key value, EX seconds and PX milliseconds *)
(* as often as they come, and before them, for old clients, a number.      *)
(***************************************************************************)
OptionsFrom(args) == IF Len(args) > 2 /\ IsInt(args[3]) THEN 4 ELSE 3
Pairs(args) == {k \in OptionsFrom(args) .. Len(args) :
                  (k - OptionsFrom(args)) % 2 = 0}
Grammatical(args) ==
  \A k \in Pairs(args) :
     /\ args[k] \in ExWords \cup PxWords
     /\ k < Len(args) /\ IsInt(args[k + 1]) /\ Spelled[args[k + 1]] > 0

\* How long the last option asks the value to be kept, in milliseconds.
Asked(args) ==
  LET k == Max(Pairs(args))
  IN  IF Pairs(args) # {}
      THEN Spelled[args[k + 1]] * (IF args[k] \in PxWords THEN 1 ELSE 1000)
      ELSE IF Len(args) > 2 THEN Max({0, Spelled[args[3]]}) * 1000 ELSE 0

Acceptable(args) ==
  Len(args) >= 2 /\ Grammatical(args) /\ can_store(args[1], args[2])

TypeOK ==
  /\ DOMAIN store \subseteq Args
  /\ \A k \in DOMAIN store : store[k] \in [value : Args, ttl : Nat]
  /\ log \in Seq([cmd : {"SET"}, key : Args, value : Args,
                  ttl : -MaxInt - 1 .. MaxInt]
                 \cup [cmd : {"DEL"}, key : Args])
  /\ executed \in 0 .. MaxCommands
  /\ latest.reply \in
       [text : Errors \cup {"OK", "one", "zero", "nil", "bulk", "PONG", "metrics",
                            "bad_alloc", "none"},
        blob : SUBSET Args, lines : Nat]

\* execute_command takes a SET exactly when README's grammar and the limits do,
\* and keeps the value, in Storage and in the log, for the fewest seconds that
\* are not less than what was asked: a time-to-live below a second never turns
\* into none.
SetAsDocumented ==
  [][(/\ executed' # executed /\ latest'.cmd.type = "SET"
       /\ latest'.reply.text # "bad_alloc") =>
       LET args == latest'.cmd.args
           kept == store'[args[1]]
       IN  IF Acceptable(args)
           THEN /\ latest'.reply.text = "OK"
                /\ kept.value = args[2]
                /\ 1000 * kept.ttl >= Asked(args)
                /\ 1000 * (kept.ttl - 1) < Asked(args)
                /\ Max({log'[Len(log')].ttl, 0}) = kept.ttl
           ELSE latest'.reply.text \in Errors]_vars

\* execute_command leaves no trace of a command that it refuses: neither
\* Storage nor the log has changed when the reply is an error, running out of
\* memory apart.  A record of it would come to life in a replay.
RefusedWithoutTrace ==
  [][executed' # executed /\ latest'.reply.text \in Errors =>
       UNCHANGED <<store, log>>]_vars

\* What README says of options that are not supported: execute_command rejects
\* them rather than silently ignoring them.  A known divergence (README.md): the
\* code ignores what follows the first argument of GET and DEL.
Heeded(cmd) ==
  CASE cmd.type \in {"GET", "DEL"} -> Len(cmd.args) <= 1
    [] OTHER -> TRUE
NothingIgnored == Heeded(latest.cmd) \/ latest.reply.text \in Errors

\* One reply to each command: execute_command's replies, which queue_response
\* ends with a line end, have none inside them unless they are bulks.  A
\* known divergence (README.md): errors that repeat an argument may have some.
OneReplyEach == latest.reply.lines = 1
=============================================================================
