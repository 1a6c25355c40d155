----------------------------- MODULE Lifecycle -----------------------------
(***************************************************************************)
(* Boot and shutdown of the process: main(), the two event loops it starts *)
(* and the signal handler that stops them.                                 *)
(*                                                                         *)
(* Server and AdminServer have the same start() and stop(): start makes    *)
(* the socketpair wake_pipe_, sets running_ and blocks in epoll_wait for   *)
(* as long as running_ holds; stop clears running_ and writes a byte to    *)
(* the pipe.  Here they are the loops "server", which runs on the main     *)
(* thread, and "admin", which has a thread of its own.                     *)
(*                                                                         *)
(* SIGINT and SIGTERM are delivered to any thread of the process: the main *)
(* thread, the admin thread, or the expiry sweeper of Storage.  While the  *)
(* handler runs that thread does nothing else, and the other threads run   *)
(* on.  Each of the two signals is blocked in its own handler only: the    *)
(* one may interrupt the handler of the other, and the same one arrive on  *)
(* another thread.  An epoll_wait the handler interrupts returns EINTR.    *)
(* running_ is a plain bool that several threads access; every read of it  *)
(* follows a system call the compiler cannot see through, so each read and *)
(* each write is a memory access of its own.                               *)
(*                                                                         *)
(* main() destroys its objects in the reverse order of their declaration.  *)
(* Nothing keeps the handler from calling stop() on one that is gone.  In  *)
(* the build that writes a byte of main()'s stack that is no longer used,  *)
(* and finds the -1 that start() left in wake_pipe_.                       *)
(***************************************************************************)
EXTENDS Naturals

CONSTANT MaxSignals   \* bound on the signals sent
ASSUME MaxSignalsAssumption == MaxSignals \in Nat

Loops == {"server", "admin"}
Threads == {"main", "admin", "sweeper"}
Objects == {"storage", "aof", "server", "admin"}

\* The frames of handle_signal: one may be nested in another on each thread.
Frames == Threads \X {"outer", "inner"}

VARIABLES
  main,      \* where main() is, outside server.start()
  start,     \* where each loop's start() is
  running,   \* running_ of each loop
  wake,      \* wake_pipe_ of each loop: -1, or open and holding a byte or not
  g,         \* the loops g_server and g_admin point to
  objects,   \* the objects of main()'s try block that exist
  handler,   \* where each frame of handle_signal is, and with which loop
  signals    \* the signals sent so far

lifecycleVars == <<main, start, running, wake, g, objects, handler, signals>>

Idle == [at |-> "idle", of |-> "server"]

\* The process has ended.
Ended == main \in {"exited", "aborted"}

\* The thread a loop runs on.
Runs(l) == IF l = "server" THEN "main" ELSE "admin"

\* A thread goes on while the handler is not running on it.
Free(t) == handler[<<t, "outer">>] = Idle

Looping(l) == start[l] \in {"testing", "waiting"}
-----------------------------------------------------------------------------
(***************************************************************************)
(* start() of Server and AdminServer.                                      *)
(***************************************************************************)
At(l, here, there) ==
  /\ ~Ended
  /\ start[l] = here
  /\ Free(Runs(l))
  /\ start' = [start EXCEPT ![l] = there]

\* socket, bind, listen, epoll_create1 and socketpair succeed.
Opens(l) ==
  /\ At(l, "starting", "arming")
  /\ wake' = [wake EXCEPT ![l] = "empty"]
  /\ UNCHANGED <<main, running, g, objects, handler, signals>>

\* One of them fails: start returns, with everything closed again.
OpenFails(l) ==
  /\ At(l, "starting", "returned")
  /\ UNCHANGED <<main, running, wake, g, objects, handler, signals>>

\* running_ = true
Arms(l) ==
  /\ At(l, "arming", "testing")
  /\ running' = [running EXCEPT ![l] = TRUE]
  /\ UNCHANGED <<main, wake, g, objects, handler, signals>>

\* while (running_), and into epoll_wait.
Tests(l) ==
  /\ At(l, "testing", IF running[l] THEN "waiting" ELSE "closing")
  /\ UNCHANGED <<main, running, wake, g, objects, handler, signals>>

\* epoll_wait reports the pipe, whose bytes are read and dropped.
Wakes(l) ==
  /\ wake[l] = "full"
  /\ At(l, "waiting", "testing")
  /\ wake' = [wake EXCEPT ![l] = "empty"]
  /\ UNCHANGED <<main, running, g, objects, handler, signals>>

\* epoll_wait reports clients, who are served.
Serves(l) ==
  /\ At(l, "waiting", "testing")
  /\ UNCHANGED <<main, running, wake, g, objects, handler, signals>>

\* The descriptors are closed, and then wake_pipe_ is set to -1.
Closes(l) ==
  /\ At(l, "closing", "clearing")
  /\ wake' = [wake EXCEPT ![l] = "closed"]
  /\ UNCHANGED <<main, running, g, objects, handler, signals>>

Clears(l) ==
  /\ At(l, "clearing", "returned")
  /\ wake' = [wake EXCEPT ![l] = "none"]
  /\ UNCHANGED <<main, running, g, objects, handler, signals>>

\* Serving a client, start() throws, as when an allocation fails.
Throws(l) ==
  /\ At(l, "waiting", "thrown")
  /\ UNCHANGED <<main, running, wake, g, objects, handler, signals>>

\* An unwinding past an admin thread that runs on without an owner.
TerminatesNever(l) ==
  /\ l = "server"
  /\ At(l, "thrown", "returned")
  /\ main' = "unwinding"
  /\ UNCHANGED <<running, wake, g, objects, handler, signals>>

\* The exception leaves the thread's function, or, out of the server's loop,
\* main's try block, of which admin_thread is the first object to be destroyed:
\* it was not joined.  Both end the process.
Terminates(l) ==
  /\ At(l, "thrown", "thrown")
  /\ main' = "aborted"
  /\ UNCHANGED <<running, wake, g, objects, handler, signals>>

\* The steps of start() that wait for nothing but the thread.
Starts(l) ==
  \/ Opens(l) \/ OpenFails(l) \/ Arms(l) \/ Tests(l) \/ Wakes(l) \/ Closes(l)
  \/ Clears(l) \/ Terminates(l)
-----------------------------------------------------------------------------
(***************************************************************************)
(* stop() of Server and AdminServer, in its two steps.                     *)
(***************************************************************************)
\* A stop that only wakes the loop up.
DisarmNothing(l) == UNCHANGED running

\* running_ = false
Disarm(l) == running' = [running EXCEPT ![l] = FALSE]

\* A stop that leaves epoll_wait to find out by itself.
NotifyNobody(l) == UNCHANGED wake

\* write(wake_pipe_[1]): a closed pipe takes nothing.
Notify(l) ==
  wake' = IF wake[l] \in {"empty", "full"} THEN [wake EXCEPT ![l] = "full"]
                                           ELSE wake
-----------------------------------------------------------------------------
(***************************************************************************)
(* main().                                                                 *)
(***************************************************************************)
MainGoes(here, there) ==
  /\ main = here
  /\ Free("main")
  /\ main' = there

\* The objects are constructed, the log is replayed, sigaction installs the
\* handler.
Installs ==
  /\ MainGoes("booting", "installed")
  /\ objects' = Objects
  /\ UNCHANGED <<start, running, wake, g, handler, signals>>

\* A constructor or replay throws.  There is no handler yet.
BootFails ==
  /\ MainGoes("booting", "exited")
  /\ UNCHANGED <<start, running, wake, g, objects, handler, signals>>

PublishesAdmin ==
  /\ MainGoes("installed", "spawning")
  /\ g' = g \cup {"admin"}
  /\ UNCHANGED <<start, running, wake, objects, handler, signals>>

Spawns ==
  /\ MainGoes("spawning", "spawned")
  /\ start' = [start EXCEPT !["admin"] = "starting"]
  /\ UNCHANGED <<running, wake, g, objects, handler, signals>>

\* The admin thread cannot be created: the exception leaves the try block.
SpawnFails ==
  /\ MainGoes("spawning", "unwinding")
  /\ UNCHANGED <<start, running, wake, g, objects, handler, signals>>

\* g_server = &server, and into server.start().
StartsServer ==
  /\ MainGoes("spawned", "serving")
  /\ g' = g \cup {"server"}
  /\ start' = [start EXCEPT !["server"] = "starting"]
  /\ UNCHANGED <<running, wake, objects, handler, signals>>

\* A main() that leaves the handler the server.
LeavesServerSet ==
  /\ start["server"] = "returned"
  /\ MainGoes("serving", "stopping")
  /\ UNCHANGED <<start, running, wake, g, objects, handler, signals>>

\* server.start() has returned: g_server = nullptr.
LeavesServer ==
  /\ start["server"] = "returned"
  /\ MainGoes("serving", "stopping")
  /\ g' = g \ {"server"}
  /\ UNCHANGED <<start, running, wake, objects, handler, signals>>

\* admin.stop()
DisarmsAdmin ==
  /\ MainGoes("stopping", "waking")
  /\ Disarm("admin")
  /\ UNCHANGED <<start, wake, g, objects, handler, signals>>

NotifiesAdmin ==
  /\ MainGoes("waking", "joining")
  /\ Notify("admin")
  /\ UNCHANGED <<start, running, g, objects, handler, signals>>

\* main() with a detached admin thread.
JoinsNothing ==
  /\ MainGoes("joining", "destroying")
  /\ UNCHANGED <<start, running, wake, g, objects, handler, signals>>

\* admin_thread.join()
Joins ==
  /\ start["admin"] = "returned"
  /\ MainGoes("joining", "destroying")
  /\ UNCHANGED <<start, running, wake, g, objects, handler, signals>>

\* The objects declared after each, which are destroyed before it.
Later(o) ==
  CASE o = "admin"   -> {}
    [] o = "server"  -> {"admin"}
    [] o = "aof"     -> {"admin", "server"}
    [] o = "storage" -> {"admin", "server", "aof"}

\* The try block is left, by its end or by the exception: one object after the
\* other is destroyed.  ~Storage joins the sweeper thread, and so waits for a
\* handler that runs on it.
Destroys(o) ==
  /\ main \in {"destroying", "unwinding"}
  /\ Free("main")
  /\ o \in objects /\ objects \cap Later(o) = {}
  /\ o = "storage" => Free("sweeper")
  /\ objects' = objects \ {o}
  /\ UNCHANGED <<main, start, running, wake, g, handler, signals>>

\* g_admin = nullptr
LeavesAdmin ==
  /\ objects = {}
  /\ MainGoes("destroying", "returning")
  /\ g' = g \ {"admin"}
  /\ UNCHANGED <<start, running, wake, objects, handler, signals>>

\* The catch clause, which reports the exception and leaves g_admin as it is.
Catches ==
  /\ objects = {}
  /\ MainGoes("unwinding", "returning")
  /\ UNCHANGED <<start, running, wake, g, objects, handler, signals>>

Returns ==
  /\ MainGoes("returning", "exited")
  /\ UNCHANGED <<start, running, wake, g, objects, handler, signals>>

Main ==
  \/ Installs \/ BootFails \/ PublishesAdmin \/ Spawns \/ SpawnFails
  \/ StartsServer \/ LeavesServer \/ DisarmsAdmin \/ NotifiesAdmin \/ Joins
  \/ \E o \in Objects : Destroys(o)
  \/ LeavesAdmin \/ Catches \/ Returns
-----------------------------------------------------------------------------
(***************************************************************************)
(* Signals.                                                                *)
(***************************************************************************)
\* The threads that exist.
Alive(t) ==
  /\ ~Ended
  /\ t = "admin" => start["admin"] \notin {"none", "returned"}
  /\ t = "sweeper" => "storage" \in objects

\* A signal that comes before sigaction ends the process.
Kills ==
  /\ main = "booting"
  /\ signals < MaxSignals
  /\ signals' = signals + 1
  /\ main' = "exited"
  /\ UNCHANGED <<start, running, wake, g, objects, handler>>

Steps(f, to) == handler' = [handler EXCEPT ![f] = to]

\* handle_signal is entered, on a thread or inside the handler that runs there.
Delivers(t) ==
  /\ main # "booting"
  /\ Alive(t)
  /\ signals < MaxSignals
  /\ signals' = signals + 1
  /\ \E f \in {<<t, "outer">>, <<t, "inner">>} :
        /\ handler[f] = Idle
        /\ f[2] = "inner" => ~Free(t)
        /\ Steps(f, [at |-> "reading", of |-> "server"])
  /\ UNCHANGED <<main, start, running, wake, g, objects>>

\* A frame of the handler goes on, unless another is nested in it.
In(f, here, l) ==
  /\ ~Ended
  /\ handler[f] = [at |-> here, of |-> l]
  /\ f[2] = "outer" => handler[<<f[1], "inner">>] = Idle

\* What follows the call of stop() on a loop: that on the admin, or nothing.
After(l) == IF l = "server" THEN [at |-> "reading", of |-> "admin"]
                            ELSE [at |-> "leaving", of |-> "admin"]

\* Is the pointer set?
HandlerReads(f, l) ==
  /\ In(f, "reading", l)
  /\ Steps(f, IF l \in g THEN [at |-> "disarm", of |-> l] ELSE After(l))
  /\ UNCHANGED <<main, start, running, wake, g, objects, signals>>

\* Then stop() clears running_, and writes the pipe.
HandlerDisarms(f, l) ==
  /\ In(f, "disarm", l)
  /\ Disarm(l)
  /\ Steps(f, [at |-> "notify", of |-> l])
  /\ UNCHANGED <<main, start, wake, g, objects, signals>>

HandlerNotifies(f, l) ==
  /\ In(f, "notify", l)
  /\ Notify(l)
  /\ Steps(f, After(l))
  /\ UNCHANGED <<main, start, running, g, objects, signals>>

\* The handler returns, and interrupts the epoll_wait of its thread.
HandlerReturns(f) ==
  /\ In(f, "leaving", "admin")
  /\ Steps(f, Idle)
  /\ start' = [l \in Loops |->
                IF start[l] = "waiting" /\ f = <<Runs(l), "outer">>
                THEN "testing" ELSE start[l]]
  /\ UNCHANGED <<main, running, wake, g, objects, signals>>

Handler(f) ==
  \/ \E l \in Loops : HandlerReads(f, l) \/ HandlerDisarms(f, l) \/ HandlerNotifies(f, l)
  \/ HandlerReturns(f)
-----------------------------------------------------------------------------
LifecycleInit ==
  /\ main = "booting"
  /\ start = [l \in Loops |-> "none"]
  /\ running = [l \in Loops |-> FALSE]
  /\ wake = [l \in Loops |-> "none"]
  /\ g = {}
  /\ objects = {}
  /\ handler = [f \in Frames |-> Idle]
  /\ signals = 0

Exited == Ended /\ UNCHANGED lifecycleVars

LifecycleNext ==
  \/ Main
  \/ \E l \in Loops : Starts(l) \/ Serves(l) \/ Throws(l)
  \/ Kills
  \/ \E t \in Threads : Delivers(t)
  \/ \E f \in Frames : Handler(f)
  \/ Exited

\* Every thread runs; clients and signals need not come.
LifecycleFairness ==
  /\ WF_lifecycleVars(Main)
  /\ \A l \in Loops : WF_lifecycleVars(Starts(l))
  /\ \A f \in Frames : WF_lifecycleVars(Handler(f))

LifecycleSpec ==
  LifecycleInit /\ [][LifecycleNext]_lifecycleVars /\ LifecycleFairness
-----------------------------------------------------------------------------
LifecycleTypeOK ==
  /\ main \in {"booting", "installed", "spawning", "spawned", "serving",
               "stopping", "waking", "joining", "destroying", "unwinding",
               "returning", "exited", "aborted"}
  /\ start \in [Loops -> {"none", "starting", "arming", "testing", "waiting",
                         "thrown", "closing", "clearing", "returned"}]
  /\ running \in [Loops -> BOOLEAN]
  /\ wake \in [Loops -> {"none", "empty", "full", "closed"}]
  /\ g \subseteq Loops
  /\ objects \subseteq Objects
  /\ handler \in [Frames -> [at : {"idle", "reading", "disarm", "notify", "leaving"},
                             of : Loops]]
  /\ signals \in 0 .. MaxSignals

\* No stop() is slept through: a loop that is in epoll_wait with running_
\* cleared has a byte in its pipe, or whoever cleared it is about to write
\* one.  This is what the order of the two steps of stop() is for.
StopWakes ==
  \A l \in Loops :
     start[l] = "waiting" /\ ~running[l]
       => \/ wake[l] = "full"
          \/ \E f \in Frames : handler[f] = [at |-> "notify", of |-> l]
          \/ l = "admin" /\ main = "waking"

\* A frame of the handler is inside stop() of a loop.
Stopping(f, l) == handler[f] \in [at : {"disarm", "notify"}, of : {l}]

\* The threads inside the methods of each object: a loop's own in start(), where
\* it also calls Storage and the log; main() in admin.stop(); the sweeper in
\* Storage; and the handler in server.stop(), unless the sweeper runs it.
Users(o) ==
  {l \in Loops : start[l] \notin {"none", "returned"} /\ o \in {l, "storage", "aof"}}
  \cup {t \in {"main"} : o = "admin" /\ main \in {"stopping", "waking"}}
  \cup {f[1] : f \in {x \in Frames : o = "server" /\ x[1] # "sweeper"
                                                   /\ Stopping(x, "server")}}

\* Every object outlives its users: main() destroys none while another thread, or
\* a handler on a thread it has to wait for, is inside it, whether the try block
\* is left by its end or by an exception.
NoUseAfterDestroy == \A o \in Objects : Users(o) # {} => o \in objects

\* A signal has just been delivered.
Signalled ==
  \E f \in Frames : handler[f] = [at |-> "reading", of |-> "server"]

\* A signal that finds both loops running ends the process, whichever thread
\* it is delivered to: both loops leave, the admin thread is joined and
\* main() returns, unless a loop throws.
StopsOnceServing ==
  (Signalled /\ \A l \in Loops : Looping(l)) ~> Ended

\* The README: graceful shutdown on SIGINT and SIGTERM.  Every signal that the
\* handler takes ends the process.
GracefulShutdown == Signalled ~> Ended

\* What handle_signal's tests of g_server and g_admin are for, and the README's
\* graceful shutdown needs: the loop that the handler stops still exists.
StopsLiving ==
  \A f \in Frames, l \in Loops : Stopping(f, l) => l \in objects

\* What main.cpp says of exceptions: they are caught in main(), and reported.
\* The process never ends in std::terminate.  A known divergence (README.md): an
\* exception out of a loop does that.
ExceptionsCaught == main # "aborted"
=============================================================================
