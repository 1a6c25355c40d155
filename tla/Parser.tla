------------------------------- MODULE Parser -------------------------------
(***************************************************************************)
(* The incremental RESP2 parser and the loop that feeds it.                *)
(*                                                                         *)
(* handle_readable receives what the socket has, however the network cut   *)
(* it, and calls Parser::consume until the bytes are used up.  consume is  *)
(* a loop over the parser's state; each action here is one turn of it,     *)
(* except that a header that is refused is one action for both headers.    *)
(* Between calls the parser keeps only its fields.  Once it has failed the *)
(* server closes the connection, and what the fields hold is never read.   *)
(***************************************************************************)
EXTENDS RESP, SequencesExt

CONSTANT Streams   \* what a client may send

Byte == 0 .. 255

ASSUME ParserAssumption == Streams \subseteq Seq(Byte)

VARIABLES
  state, header, error, argc, arg_index, args, bulk_len, bulk_read,  \* Parser's
  stream,     \* what the client sends
  received,   \* how many bytes of it recv has returned
  buf,        \* the bytes received and not yet consumed
  calling,    \* whether a call of consume is running
  executed    \* the commands given to execute_command

fields == <<header, argc, arg_index, args, bulk_len, bulk_read>>
vars == <<state, error, fields, stream, received, buf, calling, executed>>

\* recv returns n bytes, and consume is called.
Recv(n) ==
  /\ ~calling /\ state # "Failed"
  /\ received + n <= Len(stream)
  /\ received' = received + n
  /\ buf' = SubSeq(stream, received + 1, received + n)
  /\ calling' = TRUE
  /\ UNCHANGED <<state, error, fields, stream, executed>>

In(s) == calling /\ state = s /\ UNCHANGED <<stream, received>>

\* return Status::NeedMore: the loop in handle_readable ends, and the next recv
\* overwrites what is left in its buffer.
NeedMore ==
  calling' = FALSE /\ buf' = <<>> /\ UNCHANGED <<state, error, executed>>

\* return fail(message): the connection is closed.
fail(message) ==
  /\ state' = "Failed" /\ error' = message /\ calling' = FALSE /\ buf' = <<>>
  /\ UNCHANGED <<fields, executed>>

\* The turn ends with `continue'.
Continue == calling' = TRUE /\ UNCHANGED <<error, executed>>
-----------------------------------------------------------------------------
\* A header line whose beginning is `text' and whose rest is in the buffer:
\* what it is so far, whether it has ended, and what is left.
LineAfter(text) ==
  LET n == Min({i \in DOMAIN buf : buf[i] = LF} \cup {Len(buf) + 1}) - 1
      line == text \o SubSeq(buf, 1, n)
  IN  [bad   |-> Len(line) > MaxHeader,
       ended |-> n < Len(buf),
       text  |-> line,
       rest  |-> SubSeq(buf, n + 2, Len(buf))]

\* A read_line that looks at the length of a line only when it has ended.
read_lineLate ==
  [LineAfter(header) EXCEPT !.bad = @ /\ LineAfter(header).ended]

\* A read_line that forgets the part of a header read by an earlier call.
read_lineForgets == LineAfter(<<>>)

\* read_line: header_ keeps the beginning of a line between calls.
read_line == LineAfter(header)

Accepted(mark, max) ==
  /\ ~read_line.bad /\ read_line.ended
  /\ IsHeader(Stripped(read_line.text), mark, max)

Length == Uint(Tail(Stripped(read_line.text)))

\* The header goes on in bytes that have not come yet.
HeaderNeedsMore ==
  /\ In("ArrayLen") \/ In("BulkLen")
  /\ ~read_line.bad /\ ~read_line.ended
  /\ header' = read_line.text
  /\ NeedMore
  /\ UNCHANGED <<argc, arg_index, args, bulk_len, bulk_read>>

\* The header is too long, is none, or asks for too much.
HeaderFails ==
  /\ \/ In("ArrayLen") /\ ~Accepted(Star, kMaxArgs)
     \/ In("BulkLen") /\ ~Accepted(Dollar, max_bulk_len)
  /\ read_line.bad \/ read_line.ended
  /\ fail("invalid")

\* A command that counts on from the last one's arguments.
BeginCommandKeepsIndex == args' = <<>> /\ UNCHANGED arg_index

BeginCommand == args' = <<>> /\ arg_index' = 0

ArrayLen ==
  /\ In("ArrayLen") /\ Accepted(Star, kMaxArgs)
  /\ argc' = Length /\ BeginCommand /\ header' = <<>>
  /\ state' = IF Length = 0 THEN "Ready" ELSE "BulkLen"
  /\ buf' = read_line.rest
  /\ Continue
  /\ UNCHANGED <<bulk_len, bulk_read>>

\* The argument is allocated at its full length.
BulkLen ==
  /\ In("BulkLen") /\ Accepted(Dollar, max_bulk_len)
  /\ args' = Append(args, [i \in 1 .. Length |-> 0])
  /\ bulk_len' = Length /\ bulk_read' = 0 /\ header' = <<>>
  /\ state' = IF Length = 0 THEN "Trailer" ELSE "Payload"
  /\ buf' = read_line.rest
  /\ Continue
  /\ UNCHANGED <<argc, arg_index>>

\* The allocation throws bad_alloc.
BulkLenThrows ==
  /\ In("BulkLen") /\ Accepted(Dollar, max_bulk_len)
  /\ fail("bad_alloc")

\* memcpy of what has come of the payload.
Payload ==
  LET take == Min({bulk_len - bulk_read, Len(buf)})
  IN  /\ In("Payload")
      /\ args' = [args EXCEPT ![Len(args)] =
                    [i \in 1 .. bulk_len |->
                       IF i \in bulk_read + 1 .. bulk_read + take
                       THEN buf[i - bulk_read] ELSE @[i]]]
      /\ bulk_read' = bulk_read + take
      /\ IF bulk_read' < bulk_len
         THEN NeedMore
         ELSE /\ state' = "Trailer"
              /\ buf' = SubSeq(buf, take + 1, Len(buf))
              /\ Continue
      /\ UNCHANGED <<header, argc, arg_index, bulk_len>>

\* A TrailerNeedsMore that does not return.
TrailerSpins ==
  /\ In("Trailer") \/ In("TrailerLf")
  /\ buf = <<>>
  /\ Continue
  /\ UNCHANGED <<state, buf, fields>>

TrailerNeedsMore ==
  /\ In("Trailer") \/ In("TrailerLf")
  /\ buf = <<>>
  /\ NeedMore
  /\ UNCHANGED fields

TrailerCr ==
  /\ In("Trailer") /\ buf # <<>> /\ Head(buf) = CR
  /\ state' = "TrailerLf" /\ buf' = Tail(buf)
  /\ Continue
  /\ UNCHANGED fields

\* LF, with or without a CR before it, ends the argument.
TrailerLf ==
  /\ In("Trailer") \/ In("TrailerLf")
  /\ buf # <<>> /\ Head(buf) = LF
  /\ arg_index' = arg_index + 1
  /\ state' = IF arg_index' < argc THEN "BulkLen" ELSE "Ready"
  /\ buf' = Tail(buf)
  /\ Continue
  /\ UNCHANGED <<header, argc, args, bulk_len, bulk_read>>

TrailerFails ==
  /\ \/ In("Trailer") /\ buf # <<>> /\ Head(buf) \notin {CR, LF}
     \/ In("TrailerLf") /\ buf # <<>> /\ Head(buf) # LF
  /\ fail("invalid")

\* A command is complete.  handle_readable executes it, unless it has no verb,
\* and calls consume again while bytes are left.
Ready ==
  /\ In("Ready")
  /\ executed' = IF classify(args).verb = <<>> THEN executed
                 ELSE Append(executed, classify(args))
  /\ args' = <<>>
  /\ state' = "ArrayLen"
  /\ calling' = (buf # <<>>)
  /\ UNCHANGED <<buf, error, header, argc, arg_index, bulk_len, bulk_read>>
-----------------------------------------------------------------------------
\* The client has nothing more to send, or its connection is closed.
Over ==
  /\ ~calling
  /\ state = "Failed" \/ received = Len(stream)
  /\ UNCHANGED vars

Init ==
  /\ state = "ArrayLen" /\ error = "none" /\ header = <<>> /\ args = <<>>
  /\ argc = 0 /\ arg_index = 0 /\ bulk_len = 0 /\ bulk_read = 0
  /\ stream \in Streams
  /\ received = 0 /\ buf = <<>> /\ calling = FALSE /\ executed = <<>>

consume ==
  \/ HeaderNeedsMore \/ HeaderFails
  \/ ArrayLen
  \/ BulkLen \/ BulkLenThrows
  \/ Payload
  \/ TrailerNeedsMore \/ TrailerCr \/ TrailerLf \/ TrailerFails
  \/ Ready

Next == (\E n \in 1 .. Len(stream) : Recv(n)) \/ consume \/ Over

\* The loop runs, and recv returns what the client has sent.
Spec == Init /\ [][Next]_vars /\ WF_vars(Next)
-----------------------------------------------------------------------------
TypeOK ==
  /\ state \in {"ArrayLen", "BulkLen", "Payload", "Trailer", "TrailerLf",
                "Ready", "Failed"}
  /\ error \in {"none", "invalid", "bad_alloc"}
  /\ header \in Seq(Byte)
  /\ args \in Seq(Seq(Byte))
  /\ argc \in 0 .. kMaxArgs /\ arg_index \in 0 .. argc
  /\ bulk_len \in 0 .. max_bulk_len /\ bulk_read \in 0 .. bulk_len
  /\ received \in 0 .. Len(stream)
  /\ buf \in Seq(Byte)
  /\ calling \in BOOLEAN
  /\ executed \in Seq([verb : Seq(Byte), args : Seq(Seq(Byte)),
                       known : BOOLEAN])

\* The stream received so far, read as a whole.
Whole == Reading(SubSeq(stream, 1, received))

\* However recv cuts the stream up, Parser::consume gives the commands that
\* the stream received so far holds when it is read as a whole, in order and
\* byte for byte; it gives all of them before it asks for more, and it fails
\* exactly when the stream cannot be the beginning of a valid one.
SameAsWhole ==
  ~calling =>
    \/ error = "bad_alloc" /\ IsPrefix(executed, Whole.commands)
    \/ /\ executed = Whole.commands
       /\ Whole.end = IF state = "Failed" THEN Bad ELSE More

\* What the parser holds between two calls is bounded by its limits, whatever
\* it is sent: no more of a header than MaxHeader, no more arguments than
\* were announced, and for each the bytes announced.
HeldBounded ==
  /\ Len(header) <= MaxHeader
  /\ state # "Failed" => Len(args) <= argc /\ argc <= kMaxArgs
  /\ \A i \in DOMAIN args : Len(args[i]) <= max_bulk_len

\* Every call of consume returns, until all that was sent is used up or refused.
InputUsedUp == <>(~calling /\ (state = "Failed" \/ received = Len(stream)))

\* Every command the client sends is answered: with its reply, or with an error
\* when its verb is not known (README: "explicit errors for unknown commands").
\* A known divergence (README.md): the code passes over an empty verb.
EveryCommandAnswered ==
  (~calling /\ state # "Failed") =>
     Len(executed) = Len(SelectSeq(Whole.frames, LAMBDA f : f # <<>>))
=============================================================================
