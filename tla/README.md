# A TLA+ model of PolyCache

PolyCache is an in-memory cache server that speaks a subset of RESP2. This
directory holds TLA+ modules that model its state and its steps, TLC
configurations that check them on small instances, and TLAPS proofs of the
properties that matter most. Module, action and operator names follow the
names in the source; `PROJECT.json` maps each definition to the lines it
models.

## The system

| Part | State | Operations | Talks to |
|---|---|---|---|
| `LRU` (`eviction/lru.*`) behind `EvictionPolicy` | list, index, `memory_used_` | touch, add, remove, evict | called by Storage under its lock |
| `Storage` (`storage.*`) | `data_`, policy, counters, `lock_` | set, get, del, expire_key, metrics | calls LRU and TTLManager, called by Server, AdminServer, AOF replay and the sweeper |
| `TTLManager` (`ttl.*`) | `expiries_`, `stop_`, its own lock, sweeper thread | set_ttl, is_expired, erase, expired_keys, sweep_loop | calls back `Storage::expire_key` |
| `Server` (`server.*`) | parsers, outboxes, watch flags, epoll | accept, read, execute, queue, send, close; start, stop | parser, Storage, AOF, clients |
| RESP parser (`protocol.*`) | header, bulk and trailer being read | consume | Server |
| `AOFLogger` (`aof.*`) | the log file | log_set, log_del, replay | Server, Storage |
| `AdminServer` (`admin.*`) | epoll, thread; nothing of a connection | start, stop, one request per connection | Storage, clients |
| epoll shim (`epoll_compat.h`) | table of instances and their watches | epoll_create1, epoll_ctl, epoll_wait | both loops, on builds without epoll |
| `main` (`main.cpp`) | the objects, `g_server`, `g_admin` | boot, signal handler, shutdown | all |
| LFU, SIEVE (`eviction/`) | compiled, not wired | as LRU | nobody |

Three threads run: the client loop on the main thread, the admin loop, and
the expiry sweeper. They share Storage (one mutex), the TTL table (another,
taken inside the first), and the `running_` flags and wake-up pipes, which the
signal handler also writes.

What is hard here, and what would make it right:

- **Storage and the sweeper.** The sweeper collects deadlines under one lock
  and expires them under the other. The map, the policy and the byte counts
  have to move together on five paths; the limit has to hold whenever the lock
  is free; a deadline has to belong to the value that is stored now; the
  eviction loop and the destructor's join have to end.
- **The client loop.** Replies go out in pieces, in order, and once; nothing of
  a closed connection may reach the next user of its descriptor; a blocked
  reply must be resumed and the loop must not spin; the queue is bounded.
- **The parser.** Input is cut up anywhere. The commands must not depend on
  where, what is held must stay within the declared limits, and each call must
  come to an end, since one thread serves everybody.
- **Commands.** `SET`'s options come in any order and number, with integers at
  the edges of what an `int` and a second hold; what is refused must leave no
  trace in the store or the log.
- **The log.** A process killed between or inside the steps of a command must
  leave a log that agrees with what was acknowledged; a disk may fail a write;
  what was written must be read back as it was, byte for byte.
- **LFU and SIEVE.** A lower bound that must never pass the lowest frequency,
  or `evict` does not end; a pointer into a list whose nodes come and go.
- **The admin loop.** Requests and answers in pieces, on connections of which
  it remembers nothing.
- **The shim.** It knows connections by numbers that are used again, is called
  by two threads, and reports no more than fits in an array.
- **Boot and shutdown.** A stop request must not be slept through or
  overwritten, nothing may be destroyed under a running thread, and an
  exception must end the process in the way `main` means it to.

## Modules

| Module | Models | Role |
|---|---|---|
| `LRU` | the LRU object and its methods as operators | used by `LRUPolicy` and `Storage` |
| `Totals` | the sum over a map | used by `Storage` and the proofs |
| `EvictionPolicy` | the interface: what any policy promises | abstract specification |
| `LRUPolicy` | one LRU object under every sequence of calls | refines `EvictionPolicy` |
| `Storage` | Storage, its LRU and its TTLManager, with the client thread, the sweeper and the clock | composes the three classes |
| `LFU`, `SIEVE` | one object each under every sequence of calls | refine `EvictionPolicy` |
| `Policies` | an object of one of the three classes, chosen at the start | composes `LRUPolicy`, `LFU` and `SIEVE` |
| `AOF` | logging and applying in Server, the file, kills, failing writes, replay | |
| `Codec` | base64 and the fields of a log line, written, damaged and read | what a record of `AOF` is made of |
| `RESP` | what a request is, read from a whole stream | the reference for `Parser` |
| `Parser` | `Parser::consume` turn by turn and the loop that feeds it | checked against `RESP` |
| `Commands` | `execute_command`: checks, options, replies | what a command of `Server` does |
| `Server` | the event loop, outbox and clients | |
| `Admin` | the admin loop, its requests and answers, its clients | |
| `EpollShim` | the shim under both loops, and descriptor numbers | what `Server` and `Admin` assume of epoll |
| `Lifecycle` | main, both loops' start and stop, signals | |
| `Protocol` | the parser, the commands and the log's lines side by side | composes `Parser`, `Commands` and `Codec` |
| `TwoLoops` | the shim, and the admin's requests beside it | composes `EpollShim` and `Admin` |
| `PolicyLemmas`, `PolicyProofs`, `StorageProofs`, `LifecycleProofs`, `AOFProofs`, `ServerProofs`, `ProtocolProofs`, `LoopProofs` | | proofs |
| `MCProtocol` | one of the three parts | instance for TLC of `Protocol` |
| `MCLoops` | the admin's requests or the shim | instance for TLC of `TwoLoops` |
| `MCServer` | the client loop or the process around it | instance for TLC of `Server` and `Lifecycle` |
| `MCPolicies`, `MCStorage`, `MCLifecycle`, `MCAOF` | | instances for TLC of the modules they are named after |

**Storage.** `Storage::lock_` is held for the whole of each method and the TTL
lock for the whole of each TTLManager method, so a TTLManager method called by
Storage is one step and a Storage method is one step for each of them it calls.
The sweeper takes the TTL lock (`SweepLocks`) and lets go of it
(`SweepCollects`) in two steps, and whoever needs it waits in between
(`TtlUnlocked`).
`set` is `Set` (up to its eviction loop), one `EvictVictim` per turn of the
loop, and `SetReturns`; `setting` holds the key meanwhile and stands for the
lock. `get`, `del` and `expire_key` are one step each. The sweeper is
`SweepWakes`, `SweepLocks`, `SweepCollects`, `ExpireKey` per key, `SweepDone`. Values are
pairs of a size and a capacity, because the code accounts one and reports the
other. The bucket array is a function of the most keys ever held. `SetThrows`
is `set` left by `bad_alloc` at each of the five allocations before its loop,
and `SetReturns` at the one inside (`evict` copies the victim's key);
`ThrowPoints` says which may fail. `due` and `stored` are history variables.

**Server.** Every `recv` and every `send` is a step; clients and socket buffers
move in between. A command is what the parser delivers: answered by a short
reply, answered by a blob (head, blob, tail), blank, or a protocol error. The
bytes of replies are numbered, and `wire` remembers those sent.

**AOF.** A line is the record it parses to, or `Junk`. A kill may come between
any two steps, or inside `append_line` after a piece of the line or all of it
but the newline. A record appended to a line without a newline makes one line
that does not parse: the torn piece always lacks its closing brace, and two
records on a line are no JSON text. Keys that leave the store by eviction or
expiry are not logged, in the model as in the code; neither is a failed `SET`
taken back. A write, or the opening of the log, may also fail: the stream is
then bad until the process starts again, and drops what it is given. What the
standard library may still write out of a bad stream's buffer at an orderly
exit is left out, as is a log that cannot be read at boot.

**Codec.** A text is a sequence of byte values; the encoder and the decoder are
given group by group as in the code, and a line is the JSON object it parses
to, in the present shape or the plain one of old logs. A step damages one
character of an encoded field.

**RESP and Parser.** The stream is a sequence of bytes, of which the tokens the
parser looks at are kept; payloads are bytes like any others. Each turn of
`consume`'s loop is one action, by state and by what it finds. `RESP` reads the
whole stream at once by the same grammar and limits, written separately.

**Commands.** An argument is known by its size, the option it names, the
integer it spells and the line ends in it: that is all that `execute_command`
asks of it. A command is one step; the order of logging and applying inside it,
as a kill sees it, is in `AOF`.

**LFU, SIEVE.** A method is one step. LFU's buckets are lists by frequency, with
`min_freq_`; SIEVE's nodes have their `prev` and `next` and a `visited` bit,
and the list, `head_`, `tail_` and `hand_` are pointers, so that one that is not
set back would dangle.

**Admin.** A request is a sequence of tokens cut in at most two pieces. Every
`recv` and `send` is a step, and while one client is served no other is:
`handle_connection` runs until the connection is closed.

**EpollShim.** `epoll_create1` and `epoll_wait` are two steps each, because the
shim lets go of its mutex in between. Numbers of descriptors are given out
lowest first, across the two loops.

**Lifecycle.** Server and AdminServer have the same `start` and `stop`, so they
are two instances of one loop. `running_` is a plain `bool`; every read follows a
system call, so the build rereads it, and the model takes each access as one
step. The handler runs on any thread: it reads `g_server`, clears `running_`,
writes the pipe, and does the same for `g_admin`, a step each. SIGINT and
SIGTERM block only themselves, so a frame of the handler may be nested in
another one or run beside it on another thread. `main` destroys its objects one
by one, admin first and Storage, whose sweeper it joins, last; `objects` holds
those that exist. The try block is left by its end or by an exception:
`SpawnFails` unwinds it and goes on in the catch clause, and an exception out of
either loop (`Throws`) ends the process by `std::terminate` (`Terminates`), as
`admin_thread` was not joined. What a handler does to an object that is gone is
undefined; in the build it writes one byte of `main`'s stack frame, which nobody
reads any more, and finds the -1 that `start` left in `wake_pipe_`.

## Runs

| Run | Shows |
|---|---|
| `policies` | LRU: list, index and bytes agree; the list is sorted by last use; the victim is the least recently used. LFU: buckets, index and `min_freq_` agree; `evict` ends; the victim is the least frequently used. SIEVE: one list without dangling pointers; untouched keys leave in order. All three implement EvictionPolicy |
| `storage` | policy and map agree, bytes are exact, the limit holds when the lock is free, deadlines are kept, removals are counted, late reads happen only in the sweeper's window, the key being set goes last, the lock is released, expired values leave, the sweeper is joined |
| `storage_fresh` | violated: expiry takes a value stored after the deadline was collected |
| `storage_set_stores` | violated: `set` returns true for a value it has itself evicted |
| `storage_bad_alloc` | violated: after a `bad_alloc` late in `set` the store is over its limit |
| `protocol` | Parser: the same commands for every cutting of the input; bounded memory; all input used up. Commands: `SET` is taken exactly as documented, with the time-to-live asked for; what is refused leaves no trace. Codec: replay reads back what was logged, whatever bytes it holds; no damaged text is taken that the encoder would not have written |
| `aof` | the log agrees with the store; a torn tail costs at most one acknowledged command; a failed write leaves no gap in the log |
| `aof_torn` | violated: that one command is lost, although replay is said to skip only the torn line |
| `server` | The client loop: replies in order across partial sends and reused descriptors; output watched for exactly when there is some; outbox bounded; replies delivered. The process: no stop is slept through; every object outlives the threads, and the handlers on threads that `main` waits for, that are inside it; a signal that finds both loops running ends the process |
| `loops` | Admin: every client gets the answer to its own request; one that is sent in one piece is answered in full. Shim: no event is for another's connection; what is ready is reported |
| `lifecycle_dangling` | violated: a handler calls `stop` on an admin server that is destroyed, as `g_admin` is cleared only afterwards, or never |
| `lifecycle_signal` | violated: a signal before `running_ = true` is lost |

The violated properties state what a comment, a test or the README says;
`PROJECT.json` quotes each under `findings`.

`policies`, `server`, `protocol` and `loops` each check modules that do not act on
each other. Which of them runs is chosen in the initial state, and the others stand
still: the behaviours are those of each module alone.

Every module has a type invariant, `TypeOK` (`LifecycleTypeOK` in `Lifecycle`, whose
names keep apart from those of `Server`), which says what its variables hold.
`MCStorage.cfg` lists that of `Storage`, on which its other properties rest, and
`MCPolicies.cfg` those of `LFU` and `SIEVE` as conjuncts; the others hold as
well, and are left out of the configurations to keep them to properties of the
code's behaviour.

**Known divergences.** Six more disagreements between code and documents came
up while modelling. Each is a state formula of its module, which no run lists,
as it does not hold; put in the place of the properties of the `.cfg` named, it
gives the trace (those of `Commands` and `Admin` need a name in the MC module,
that of `Lifecycle` goes into `MCLifecycleDangling.cfg`).

| Formula | In | What the code does |
|---|---|---|
| `AppliedIsAppended` | `AOF`, `MCAOF.cfg` | after a failed write the log takes nothing more, and commands are still acknowledged (`aof.cpp:129`; `src/README.md:46` has every applied command appended) |
| `ExceptionsCaught` | `Lifecycle` | an exception from `server.start()` unwinds through the joinable `admin_thread`, and one from `admin.start()` leaves its thread: both end the process in `std::terminate` (`main.cpp:113`; `main.cpp:37` says exceptions are caught) |
| `EveryCommandAnswered` | `Parser`, `MCProtocol.cfg` | a command with an empty verb and arguments gets no reply (`server.cpp:266`; `src/README.md:51` promises explicit errors) |
| `NothingIgnored` | `Commands`, `MCProtocol.cfg` | further keys of `DEL` and `GET` are passed over (`server.cpp:383`; `src/README.md:100`) |
| `OneReplyEach` | `Commands`, `MCProtocol.cfg` | an error that repeats an argument with a line end in it is two lines (`server.cpp:350`, `server.cpp:401`) |
| `HealthAnswered` | `Admin`, `MCLoops.cfg` | a `GET /health` that comes in two pieces is answered 400 (`admin.cpp:220`; `src/README.md:71`) |

**Bounds.** `MCPolicies`: four keys, so that a node can be moved
or erased between two others, a bucket loses its middle, and SIEVE's hand meets
removals on both its sides; two sizes; seven calls. `MCStorage`: three keys, one of them empty, four values (small, with
spare capacity, fitting only if the bucket array is forgotten, never fitting),
TTL or none, four calls, two ticks: enough to fill the store, evict twice in
one `set`, expire and store again. `MCLifecycle`: one signal, which is enough
to come at the wrong time. `MCAOF`: four commands, two crashes and one failing
write or open, so that a tear, a restart, an append and a replay follow each
other. `MCProtocol`: streams of one and two commands, each sound and with one
byte wrong, under every cutting; up to four options in every order, integers on
both sides of zero, a second and what an `int` holds (5000 here), sizes on both
sides of each limit, pairs of commands; keys of up to four bytes (one group and
part of the next), values of none, two and six, two damaged characters.
`MCServer`: one descriptor and two connections of three commands, two bytes of
socket buffer and two queued replies, so that sends are cut, block, resume and
overflow, and the descriptor is used again; two signals, so that one can meet the
other's shutdown, interrupt its handler or be handled beside it. `MCLoops`: two clients of the
admin, one of whom makes a request of each kind, in one piece or two, and a
socket that holds half an answer; two descriptors for three connections, and an
array of two for three ready descriptors.

**Fairness.** Storage: inside `set` the client thread runs on and gets the TTL
lock (strong fairness: the sweeper holds it for a moment every 100 ms), and the
sweeper's timed wait ends and its loop runs; clients need not call and time need
not pass. Lifecycle: each thread and each frame of the handler proceed; no signal and no
client need come. Server: the loop runs, a ready descriptor is not passed over
for ever (the kernel's ready list is served in turn), and, for
`RepliesDelivered` only, clients read what they are sent.

Parser: `consume` runs on. Admin: the loop runs and clients read what comes; in
what order connections are served makes no difference, as each is served once,
and while it sends, the loop waits for one client at a time. EpollShim: both
threads run, and nothing is asked of clients; `ReadyIsServed` is about
behaviours in which, from some time on, no more descriptors are ready at once
than the array of events holds: what was left out in a crowd comes then. With
more for ever, the table's order, which is fixed while nothing is
added, lets the same ones be passed over each time: the fairness that `Server`
assumes is the kernel's, and the shim gives it only up to `kMaxEvents`.

**Deadlock** is checked except in the runs that stop at a bound of the model: on
calls (`policies`), on commands and damage (`protocol`) or on what clients ask
(`loops`). The parser's part of `protocol` never stops short of the end of its
input, which `InputUsedUp` says. The other specifications have an explicit step
for having finished.

## Proofs

All theorems hold for any keys, sizes, values, limits and number of calls.
Their assumptions are the named `ASSUME`s of the modules.

- `PolicyLemmas` has the facts about lists (what moving to the front, pushing and
  erasing keep) and about the byte count, and that each method keeps an object
  sound. A total over a list is a recursive function; the lemmas about it go
  by the least index at which a claim fails. Its last part is about the total
  of a map, which adds its entries in the order of a choice: any entry may go
  first (`SumsTakeAny`, by the least set for which that fails), and from it
  follows what replacing, adding and erasing an entry do to the total.
- `PolicyProofs`: each of the three policies is sound, takes the right victim
  and refines `EvictionPolicy`, for any keys, sizes and number of calls. Three
  parts, each with its own invariant. LRU: type correctness, soundness, recency
  order and the choice of victim; the invariant adds to soundness that no use
  lies in the future, without which a use would not outrank all earlier ones.
  The byte counts of the other two are totals of a map. LFU: that a bucket is sorted by when
  its keys came to their frequency is what makes its back the right victim, and
  that no frequency exceeds the number of calls keeps it among the buckets.
  SIEVE: the links follow the age of the nodes (`InOrder`), which excludes
  cycles and lost nodes; what the hand has left behind was touched
  (`HandBehind`). The loop of `evict` is a recursive function; each step leads
  to a newer node, so by the pigeonhole principle it stops (`WalkStops`), and
  by the least step that fails everything older than where it stops was
  touched (`OlderThanVictim`).
- `StorageProofs`: type correctness, `PolicyTracksData`, `WithinLimit`,
  `DeadlineKept`, `StaleOnlyInWindow`, `NewestSurvives`. The invariant is
  `StoreInv /\ DeadlineInv /\ LimitInv /\ CounterInv`. `WithinLimit` says
  nothing while `set` evicts, and rests on `PolicyTracksData`: an empty map
  means an empty policy, so the loop ends within the limit. `NewestSurvives`
  needs that the key being set heads the policy's list; `DeadlineKept` that the
  sweeper's vector is empty when it collects. The theorems assume `SafeThrows`:
  only the allocation of the blob, made before anything is changed, may fail.
  Run `storage_bad_alloc` shows that this is needed. `BucketAssumption` says
  that the bucket array alone does not exceed the limit, which is at least
  1 MiB. Its second part proves `BytesMatchData` and `KeysAccounted`, by
  `AccountInv` on top of the first: the policy keeps, for each key, the size it
  was charged, so that what an eviction gives back is what the entry had cost.
- `LifecycleProofs`: type correctness, `StopWakes` and `NoUseAfterDestroy`, for
  any number of signals. The invariant adds that the pipe is open while the
  loop can wait on it (`PipeOpen`), how far the loops are at each step of
  shutdown (`Stages`), when `g_server` is set (`ServerSet`), and where a frame of
  the handler can be: an outer one has stopped while another is nested in it
  (`Nested`), and on the admin thread only while that thread lives (`OnAdmin`).
  `NoUseAfterDestroy` is stated by the kind of user: the loops (`LoopsUse`), `main`
  (`MainUses`), and the handler inside `Server::stop` (`HandlersUse`), which holds
  up `main`'s thread, or the admin thread that `main` joins, as long as it is there.
- `AOFProofs`: type correctness, `LogMatchesStore`, `DropsAreLast` and
  `LossBounded`, for any number of commands, crashes and disk errors. What is
  needed of replay is one lemma, what a line appended to the log adds
  (`ReplayedAppend`). None of the three is inductive alone. The invariant adds
  what the log and the store hold at each stage of a command (`Stages`,
  `HalfDone`), that a stream that is good has taken every command of its
  process (`GoodTookAll`), that only the last line can be torn (`TornLast`) and
  that every line lost to a torn one is paid for by a tear (`TearsPay`), from
  which the bound on the loss follows.
- `ServerProofs`: type correctness, `RepliesInOrder`, `WatchedForOutput` and
  `OutboxBounded`, for any number of connections and commands, any limit on
  the queue and any size of the socket buffers. Order is an agreement of the
  commands executed, the chunks queued and the bytes sent (`Replies`): the
  queue holds the last of the replies, and the next byte is what its head has
  left. A first part proves what queueing, sending a piece of and popping a
  chunk do to that agreement, without the state machine. `WatchFits` says what
  the watch is at each place of the loop, not only where it waits.
- `LoopProofs`, the shim: type correctness and `NoStrayEvents`, for any number
  of descriptors and connections. The argument is ownership: what a loop watches,
  polls and holds as events is on descriptors that it accepted and has not
  closed (`WatchesOwn`, `PollsOwn`, `EventsFit`), and the two loops' instances
  are different (`Numbers`, which counts them). So no close or accept of the
  other loop, on a number of its own, can make an event stray.
  The admin loop: type correctness and `AnswersItsOwn`, for any clients,
  requests, cuts and sizes of buffer. `AnswersItsOwn` speaks of what was sent
  and is not inductive: it forgets what is still to be sent and what has been
  received. The invariant (`AdminInv`) adds that a client not answered yet has
  been sent nothing, that the request being received is the beginning of what
  its client asked, as long as what recv took of it, and that nothing is taken
  for the others (`RequestIsOwn`); and that what a client has got and what
  `send_all` still owes it are together one answer, which a beginning of its
  request deserves (`AnswerIsOwn`). `RequestIsOwn` needs that
  `handle_connection` begins with an empty request. What the answer to a text
  is, is of no matter to the proof. That requests are sequences of words is
  part of `AdminAssumption`.
- `ProtocolProofs`, the parser: type correctness and `HeldBounded`, for any bytes,
  cut up in any way. The bounds alone are not inductive: that no more arguments
  are held than were announced follows from how many there are in each of the
  parser's states, and that an argument gets no more bytes than were announced
  from `bulk_read` being what it has (`HoldsAsFar`). That a header's digits
  spell a natural number, which the checks against the limits rest on, goes by
  the least length of text at which it would fail (`UintIsNat`).
  `SameAsWhole`, for any stream and any cuts: what consume gives is what `RESP`
  reads from the whole (`ReadsLikeWhole`). What `RESP` makes of a stream changes
  as the stream grows, so nothing is compared from one stream to the next: the
  invariant (`ReadsTheSame`) speaks of every stream that what has been received
  may be the beginning of (`Later`), and receiving more only leaves fewer of
  them. It says where in the stream the parser is: the frame it is in (`AtFrame`),
  before which the commands executed have been read (`ReadUpTo`); in the frame,
  the arguments held and where the next begins (`InFrame`); and the bytes of the
  header (`HeaderFrom`) or of the argument (`AtBulk`) that have come. Each action
  then takes one step of the reading: a line that has ended (`LineMet`), or is
  too long in every stream to come; an argument that is complete (`BulkHeld`,
  `EolMet`); a command (`ReadsReady`). Between two calls the stream received is
  one of those spoken of, and the reading of it ends where the parser waits
  (`GivenBetweenCalls`). That the recursive functions of `RESP` exist is proved by
  the least place at which they would not (`StartsIs`, `ReadingIs`).
  The log's lines: `ReadsBack` and `NothingGlossedOver`, for any keys and values and
  any damage. Base64 goes group by group: a word cut into sixes or eights and
  put together again is the same word (`SixesTogether`, `EightsTogether`), so a
  group read back is the group written (`GroupRoundTrip`), and the groups
  joined are the bytes (`FlattenIs`). The other direction starts from a text that
  the decoder takes: its groups written again are the same letters, up to the
  bits that the pads leave unused (`GroupSaysTheSame`). `ReadsBack` needs that a
  line not damaged is the one written, present or old shape (`LogInv`), and
  `NothingGlossedOver` only that damage leaves a text a sequence of bytes.
  The commands: type correctness, `RefusedWithoutTrace` and `SetAsDocumented`, for
  any arguments, any number and order of options, and any limits. The loop over
  the options is a recursive function; that it exists is proved by the least
  number of options left for which it would not (`OptionsFunction`), and that it
  obeys the README backwards from the last option (`OptionStep`, `OptionsEnd`,
  `OptionsObey`): what is asked by the options seen so far and what the code
  keeps for it stay within a second of each other (`Keeps`). With the other checks
  of `SET` (`CheckedObeys`) this is `SetAsDocumented`.
  `ProtocolAssumption` and `ParserAssumption` say what the constants are:
  streams, keys and values are sequences of bytes, sizes and limits are natural
  numbers, and no option is also a number.

Every safety and action property that a passing run checks is thus proved for
every value of the constants. Liveness is only model-checked (`LockReleased`,
`ExpiredLeaves`, `SweeperJoined`, `StopsOnceServing`, `RepliesDelivered`,
`InputUsedUp`, `ReadyIsServed`, `WholeRequestAnswered`): fairness is about
`ENABLED`, which is out of the prover's reach. That `RESP`, the reference, reads
back two commands written one after the other is evaluated on the arguments of
the run only (an `ASSUME` of `MCProtocol`).

## Not modelled

- Counters that are only reported (`hits_`, `misses_`, peaks), `metrics()`, and
  `TTLManager::clear`, which nobody calls.
- JSON: a line of the log either parses to its record or does not. Loss of
  power, which the README disclaims. A log replayed under other limits than it
  was written under.
- Command line parsing, of which `memory_mb * 1024 * 1024` can wrap.
- The vendored JSON library, the benchmark and the tools.
- More than one client at a time in `Server`: clients share only the thread
  and Storage, and an event closes no descriptor but its own (`EpollShim` has
  several, for what the shim makes of their numbers).
- `stop()` while the admin's `send_all` waits for a client: an answer of some
  hundred bytes fits in the buffer of a fresh socket.

## Plan

1. Done: LRU and the policy interface; Storage with TTL; their proofs; the
   log; the client loop; boot and shutdown.
2. Done: the parser and its reference; LFU and SIEVE; commands and their
   options; the codec; disk errors; the admin loop; the shim; exceptions that
   end the process.
3. Done: proofs for the log, the client loop, the shim and the admin loop, for
   the accounts of Storage, and for LFU and SIEVE.
4. Done: proofs for the parser, for the lines of the log and for the commands.
   Nothing that a run checks is left but liveness.
