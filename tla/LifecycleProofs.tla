-------------------------- MODULE LifecycleProofs --------------------------
(***************************************************************************)
(* The safety theorems about boot and shutdown, for any number of signals. *)
(*                                                                         *)
(* StopWakes is not inductive by itself: a byte can be left in the pipe of *)
(* a loop only while the pipe is open, which PipeOpen says it is from the  *)
(* socketpair on until the loop has left epoll_wait for good.              *)
(*                                                                         *)
(* That every object outlives its users needs to be known on the way to    *)
(* its destruction: how far the loops are at each place of main() (Stages),*)
(* that the handler is given the server only while main() is in start()    *)
(* (ServerSet), and that a handler on a thread main() has waited for is    *)
(* over (Nested, OnAdmin).                                                 *)
(***************************************************************************)
EXTENDS Lifecycle, TLAPS

Place == [at : {"idle", "reading", "disarm", "notify", "leaving"}, of : Loops]
Out == {"none", "returned"}

PipeOpen ==
  \A l \in Loops :
     start[l] \in {"arming", "testing", "waiting", "closing"}
       => wake[l] \in {"empty", "full"}

Stages ==
  /\ main \in {"booting", "installed", "spawning", "unwinding"}
       => \A l \in Loops : start[l] = "none"
  /\ main = "spawned" => start["server"] = "none"
  /\ main \in {"stopping", "waking", "joining", "destroying"}
       => start["server"] = "returned"
  /\ main = "destroying" => start["admin"] = "returned"
  /\ main \in {"installed", "spawning", "spawned", "serving", "stopping",
               "waking", "joining"} => objects = Objects

ServerSet == "server" \in g => main \in {"serving", "aborted"}

Nested ==
  \A t \in Threads : Free(t) => handler[<<t, "inner">>] = Idle

OnAdmin == start["admin"] \in Out => Free("admin")

\* NoUseAfterDestroy, by the kind of user.
LoopsUse ==
  \A l \in Loops : start[l] \notin Out => {l, "storage", "aof"} \subseteq objects
MainUses == main \in {"stopping", "waking"} => "admin" \in objects
HandlersUse ==
  \A f \in Frames :
     f[1] # "sweeper" /\ Stopping(f, "server") => "server" \in objects

IInv ==
  /\ LifecycleTypeOK /\ PipeOpen /\ StopWakes
  /\ Stages /\ ServerSet /\ Nested /\ OnAdmin
  /\ LoopsUse /\ MainUses /\ HandlersUse

\* A step of start().
StartStep(l) == Starts(l) \/ Serves(l) \/ Throws(l)

LEMMA InitIInv == LifecycleInit => IInv
<1> SUFFICES ASSUME LifecycleInit PROVE IInv
  OBVIOUS
<1> USE DEF LifecycleInit
<1>1. LifecycleTypeOK
  BY MaxSignalsAssumption DEF LifecycleTypeOK, Idle, Loops
<1>2. PipeOpen /\ StopWakes /\ Stages /\ ServerSet /\ OnAdmin
  BY DEF PipeOpen, StopWakes, Stages, ServerSet, OnAdmin, Loops, Free, Frames,
         Threads
<1>3. Nested
  BY DEF Nested, Frames
<1>4. LoopsUse /\ MainUses /\ HandlersUse
  BY DEF LoopsUse, MainUses, HandlersUse, Stopping, Idle, Out
<1>5. QED
  BY <1>1, <1>2, <1>3, <1>4 DEF IInv

\* start() of either loop.
LEMMA LoopStep ==
  ASSUME IInv, NEW l \in Loops, StartStep(l)
  PROVE  IInv'
<1>1. ~Ended /\ Free(Runs(l)) /\ UNCHANGED <<g, objects, handler, signals>>
  BY DEF StartStep, Starts, Opens, OpenFails, Arms, Tests, Wakes, Serves, Throws,
         Terminates, Closes, Clears, At
<1>2. PICK there \in {"arming", "testing", "waiting", "thrown", "closing",
                      "clearing", "returned"} :
        start' = [start EXCEPT ![l] = there]
  BY DEF StartStep, Starts, Opens, OpenFails, Arms, Tests, Wakes, Serves, Throws,
         Terminates, Closes, Clears, At
<1>3. start[l] \notin Out
  BY DEF StartStep, Starts, Opens, OpenFails, Arms, Tests, Wakes, Serves, Throws,
         Terminates, Closes, Clears, At, Out
<1>4. main' = main \/ main' = "aborted"
  BY DEF StartStep, Starts, Opens, OpenFails, Arms, Tests, Wakes, Serves, Throws,
         Terminates, Closes, Clears, At
<1>5. LifecycleTypeOK'
  <2>1. running' \in [Loops -> BOOLEAN]
    BY DEF IInv, LifecycleTypeOK, StartStep, Starts, Opens, OpenFails, Arms, Tests, Wakes,
           Serves, Throws, Terminates, Closes, Clears
  <2>2. wake' \in [Loops -> {"none", "empty", "full", "closed"}]
    BY DEF IInv, LifecycleTypeOK, StartStep, Starts, Opens, OpenFails, Arms, Tests, Wakes,
           Serves, Throws, Terminates, Closes, Clears
  <2>3. QED
    BY <1>1, <1>2, <1>4, <2>1, <2>2 DEF IInv, LifecycleTypeOK
<1>6. PipeOpen'
  BY DEF IInv, PipeOpen, LifecycleTypeOK, StartStep, Starts, Opens, OpenFails, Arms, Tests,
         Wakes, Serves, Throws, Terminates, Closes, Clears, At
<1>7. StopWakes'
  <2> DEFINE Woken(k) == \/ wake[k] = "full"
                         \/ \E f \in Frames : handler[f] = [at |-> "notify", of |-> k]
                         \/ k = "admin" /\ main = "waking"
  <2> SUFFICES ASSUME NEW k \in Loops, start'[k] = "waiting", ~running'[k]
               PROVE  Woken(k)'
    BY DEF StopWakes
  <2>1. k # l /\ start[k] = "waiting" /\ ~running[k] /\ wake'[k] = wake[k]
    BY DEF IInv, LifecycleTypeOK, StartStep, Starts, Opens, OpenFails, Arms, Tests,
           Wakes, Serves, Throws, Terminates, Closes, Clears, At
  <2>2. Woken(k)
    BY <2>1 DEF IInv, StopWakes
  <2>3. CASE k = "admin" /\ main = "waking"
    <3>1. start["server"] = "returned" /\ l = "server"
      BY <2>1, <2>3 DEF IInv, Stages, Loops
    <3>2. QED
      BY <3>1, <1>3 DEF Out
  <2>4. QED
    BY <1>1, <2>1, <2>2, <2>3
<1>8. Stages'
  BY <1>1, <1>2, <1>3, <1>4 DEF IInv, Stages, LifecycleTypeOK, Loops, Out
<1>9. ServerSet' /\ Nested' /\ MainUses' /\ HandlersUse'
  BY <1>1, <1>4 DEF IInv, ServerSet, Nested, Free, MainUses, HandlersUse, Stopping
<1>10. OnAdmin'
  BY <1>1, <1>2 DEF IInv, OnAdmin, Free, Runs, Loops, LifecycleTypeOK, Out
<1>11. LoopsUse'
  BY <1>1, <1>2, <1>3 DEF IInv, LoopsUse, LifecycleTypeOK
<1>12. QED
  BY <1>5, <1>6, <1>7, <1>8, <1>9, <1>10, <1>11 DEF IInv

\* main() before its try block is left.
Serving ==
  \/ Installs \/ BootFails \/ PublishesAdmin \/ Spawns \/ SpawnFails
  \/ StartsServer \/ LeavesServer \/ DisarmsAdmin \/ NotifiesAdmin \/ Joins \/ Kills

LEMMA ServingStep ==
  ASSUME IInv, Serving
  PROVE  IInv'
<1> USE DEF Serving, MainGoes, Installs, BootFails, PublishesAdmin, Spawns, SpawnFails,
        StartsServer, LeavesServer, DisarmsAdmin, NotifiesAdmin, Joins, Kills,
        Disarm, Notify
<1>1. LifecycleTypeOK'
  <2>1. running' \in [Loops -> BOOLEAN]
    BY DEF IInv, LifecycleTypeOK
  <2>2. signals' \in 0 .. MaxSignals
    BY MaxSignalsAssumption DEF IInv, LifecycleTypeOK
  <2>3. wake' \in [Loops -> {"none", "empty", "full", "closed"}]
    BY DEF IInv, LifecycleTypeOK
  <2>4. start' \in [Loops -> {"none", "starting", "arming", "testing", "waiting",
                             "thrown", "closing", "clearing", "returned"}]
    BY DEF IInv, LifecycleTypeOK
  <2>5. objects' \subseteq Objects /\ g' \subseteq Loops /\ handler' = handler
    BY DEF IInv, LifecycleTypeOK, Loops
  <2>6. QED
    BY <2>1, <2>2, <2>3, <2>4, <2>5 DEF IInv, LifecycleTypeOK
<1>2. PipeOpen'
  BY DEF IInv, PipeOpen, LifecycleTypeOK
<1>3. StopWakes'
  BY DEF IInv, StopWakes, PipeOpen, LifecycleTypeOK, Loops
<1>4. Stages'
  BY DEF IInv, Stages, LifecycleTypeOK, Loops
<1>5. ServerSet' /\ Nested' /\ HandlersUse'
  BY DEF IInv, ServerSet, Nested, Free, HandlersUse, Stages, Stopping, Objects
<1>6. OnAdmin'
  BY DEF IInv, OnAdmin, Free, LifecycleTypeOK, Loops, Out
<1>7. LoopsUse' /\ MainUses'
  BY DEF IInv, LoopsUse, MainUses, Stages, LifecycleTypeOK, Loops, Objects, Out
<1>8. QED
  BY <1>1, <1>2, <1>3, <1>4, <1>5, <1>6, <1>7 DEF IInv

\* An object is destroyed: it has no user.
LEMMA DestroyStep ==
  ASSUME IInv, NEW o \in Objects, Destroys(o)
  PROVE  IInv'
<1> USE DEF Destroys
<1>1. LifecycleTypeOK'
  BY DEF IInv, LifecycleTypeOK
<1>2. PipeOpen' /\ StopWakes' /\ ServerSet' /\ Nested' /\ OnAdmin'
  BY DEF IInv, PipeOpen, StopWakes, ServerSet, Nested, OnAdmin, Free
<1>3. Stages' /\ MainUses'
  BY DEF IInv, Stages, MainUses
<1>4. \A l \in Loops : start[l] \in Out
  BY DEF IInv, Stages, Out, Loops
<1>5. LoopsUse'
  BY <1>4 DEF LoopsUse
<1>6. HandlersUse'
  <2>1. Free("admin") /\ Free("main")
    BY <1>4 DEF IInv, OnAdmin, Loops
  <2>2. \A f \in Frames : f[1] # "sweeper" => handler[f] = Idle
    BY <2>1 DEF IInv, Nested, Free, Frames, Threads
  <2>3. QED
    BY <2>2 DEF HandlersUse, Stopping, Idle
<1>7. QED
  BY <1>1, <1>2, <1>3, <1>5, <1>6 DEF IInv

\* The end of main().
LEMMA ReturnStep ==
  ASSUME IInv, LeavesAdmin \/ Catches \/ Returns
  PROVE  IInv'
<1> USE DEF LeavesAdmin, Catches, Returns, MainGoes
<1>1. LifecycleTypeOK'
  BY DEF IInv, LifecycleTypeOK
<1>2. PipeOpen' /\ StopWakes' /\ Nested' /\ OnAdmin'
  BY DEF IInv, PipeOpen, StopWakes, Nested, OnAdmin, Free
<1>3. Stages' /\ ServerSet'
  BY DEF IInv, Stages, ServerSet
<1>4. LoopsUse' /\ MainUses' /\ HandlersUse'
  BY DEF IInv, LoopsUse, MainUses, HandlersUse, Stopping
<1>5. QED
  BY <1>1, <1>2, <1>3, <1>4 DEF IInv

\* A frame of the handler is elsewhere, and no stop() has just begun or ended.
LEMMA FrameStep ==
  ASSUME IInv, NEW f \in Frames, NEW to \in Place, Steps(f, to),
         UNCHANGED <<main, g, objects>>, LifecycleTypeOK', PipeOpen', StopWakes',
         \A l \in Loops : start'[l] = start[l] \/ {start[l], start'[l]} \cap Out = {},
         Nested', OnAdmin',
         f[1] # "sweeper" /\ to \in [at : {"disarm", "notify"}, of : {"server"}]
           => "server" \in objects,
         \A l \in Loops : start[l] \in Out => start'[l] = start[l]
  PROVE  IInv'
<1>1. handler' = [handler EXCEPT ![f] = to]
  BY DEF Steps
<1>2. Stages' /\ ServerSet' /\ MainUses'
  BY DEF IInv, Stages, ServerSet, MainUses, Out, Loops
<1>3. LoopsUse'
  BY DEF IInv, LoopsUse
<1>4. HandlersUse'
  BY <1>1 DEF IInv, HandlersUse, Stopping, LifecycleTypeOK
<1>5. QED
  BY <1>2, <1>3, <1>4 DEF IInv

LEMMA DeliverStep ==
  ASSUME IInv, NEW t \in Threads, Delivers(t)
  PROVE  IInv'
<1> DEFINE to == [at |-> "reading", of |-> "server"]
<1>1. PICK f \in {<<t, "outer">>, <<t, "inner">>} :
        /\ handler[f] = Idle /\ (f[2] = "inner" => ~Free(t)) /\ Steps(f, to)
  BY DEF Delivers
<1>2. f \in Frames /\ to \in Place
  BY <1>1 DEF Frames, Place, Loops
<1>3. handler' = [handler EXCEPT ![f] = to]
  BY <1>1 DEF Steps
<1>4. LifecycleTypeOK'
  BY <1>2, <1>3, MaxSignalsAssumption DEF IInv, LifecycleTypeOK, Delivers, Place
<1>5. PipeOpen'
  BY DEF IInv, PipeOpen, Delivers
<1>6. StopWakes'
  <2>1. \A x \in Frames, l \in Loops :
          handler[x] = [at |-> "notify", of |-> l] => handler'[x] = handler[x]
    BY <1>1, <1>3 DEF Idle, IInv, LifecycleTypeOK
  <2>2. QED
    BY <2>1 DEF IInv, StopWakes, Delivers
<1>7. Nested'
  <2>1. to # Idle
    BY DEF Idle
  <2>2. ~Free(t)'
    BY <1>1, <1>2, <1>3, <2>1 DEF IInv, LifecycleTypeOK, Free
  <2>3. ASSUME NEW u \in Threads, u # t, Free(u)'
        PROVE  handler'[<<u, "inner">>] = Idle
    BY <1>1, <1>3, <2>3 DEF IInv, Nested, Free, LifecycleTypeOK, Frames
  <2>4. QED
    BY <2>2, <2>3 DEF Nested
<1>8. OnAdmin'
  BY <1>1, <1>3 DEF IInv, OnAdmin, Free, Delivers, Alive, Out, LifecycleTypeOK, Frames,
                    Threads
<1>9. UNCHANGED <<main, g, objects, start>>
  BY DEF Delivers
<1>10. QED
  BY <1>1, <1>2, <1>4, <1>5, <1>6, <1>7, <1>8, <1>9, FrameStep DEF Out

\* The handler.
LEMMA HandlerStep ==
  ASSUME IInv, NEW f \in Frames, Handler(f)
  PROVE  IInv'
<1>1. f[1] \in Threads /\ f[2] \in {"outer", "inner"} /\ f = <<f[1], f[2]>>
  BY DEF Frames
<1>2. f[2] = "outer" => handler[<<f[1], "inner">>] = Idle
  BY DEF Handler, HandlerReads, HandlerDisarms, HandlerNotifies, HandlerReturns, In
<1>3. CASE \E l \in Loops : HandlerReads(f, l)
  <2>1. PICK l \in Loops : HandlerReads(f, l)
    BY <1>3
  <2> DEFINE to == IF l \in g THEN [at |-> "disarm", of |-> l] ELSE After(l)
  <2>2. /\ handler[f] = [at |-> "reading", of |-> l] /\ ~Ended
        /\ handler' = [handler EXCEPT ![f] = to]
        /\ UNCHANGED <<main, start, running, wake, g, objects, signals>>
    BY <2>1 DEF HandlerReads, In, Steps
  <2>3. to \in Place /\ to # Idle
    BY DEF After, Place, Loops, Idle
  <2>4. LifecycleTypeOK'
    BY <2>2, <2>3 DEF IInv, LifecycleTypeOK, Place
  <2>5. StopWakes'
    <3>1. \A x \in Frames, k \in Loops :
            handler[x] = [at |-> "notify", of |-> k] => handler'[x] = handler[x]
      BY <2>2 DEF IInv, LifecycleTypeOK
    <3>2. QED
      BY <2>2, <3>1 DEF IInv, StopWakes
  <2>6. handler[f] # Idle
    BY <2>2 DEF Idle
  <2>7. Nested' /\ OnAdmin'
    BY <1>1, <2>2, <2>3, <2>6 DEF IInv, Nested, OnAdmin, Free, LifecycleTypeOK
  <2>8. PipeOpen'
    BY <2>2 DEF IInv, PipeOpen
  <2>9. to \in [at : {"disarm", "notify"}, of : {"server"}] => "server" \in objects
    BY <2>2 DEF After, IInv, ServerSet, Stages, Ended, Objects
  <2>10. Steps(f, to)
    BY <2>2 DEF Steps
  <2>11. QED
    BY <2>2, <2>3, <2>4, <2>5, <2>7, <2>8, <2>9, <2>10, FrameStep
<1>4. CASE \E l \in Loops : HandlerDisarms(f, l)
  <2>1. PICK l \in Loops : HandlerDisarms(f, l)
    BY <1>4
  <2> DEFINE to == [at |-> "notify", of |-> l]
  <2>2. /\ handler[f] = [at |-> "disarm", of |-> l]
        /\ handler' = [handler EXCEPT ![f] = to]
        /\ running' = [running EXCEPT ![l] = FALSE]
        /\ UNCHANGED <<main, start, wake, g, objects, signals>>
    BY <2>1 DEF HandlerDisarms, In, Steps, Disarm
  <2>3. to \in Place /\ to # Idle
    BY DEF Place, Idle
  <2>4. LifecycleTypeOK'
    BY <2>2, <2>3 DEF IInv, LifecycleTypeOK, Place
  <2>5. StopWakes'
    <3> SUFFICES ASSUME NEW k \in Loops, start[k] = "waiting", ~running'[k]
                 PROVE  \/ wake[k] = "full"
                        \/ \E x \in Frames : handler'[x] = [at |-> "notify", of |-> k]
                        \/ k = "admin" /\ main = "waking"
      BY <2>2 DEF StopWakes
    <3>1. CASE k = l
      BY <2>2, <3>1 DEF IInv, LifecycleTypeOK
    <3>2. CASE k # l
      <4>1. ~running[k]
        BY <2>2, <3>2 DEF IInv, LifecycleTypeOK
      <4>2. \A x \in Frames :
              handler[x] = [at |-> "notify", of |-> k] => handler'[x] = handler[x]
        BY <2>2 DEF IInv, LifecycleTypeOK
      <4>3. QED
        BY <4>1, <4>2 DEF IInv, StopWakes
    <3>3. QED
      BY <3>1, <3>2
  <2>6. handler[f] # Idle
    BY <2>2 DEF Idle
  <2>7. Nested' /\ OnAdmin'
    BY <1>1, <2>2, <2>3, <2>6 DEF IInv, Nested, OnAdmin, Free, LifecycleTypeOK
  <2>8. PipeOpen'
    BY <2>2 DEF IInv, PipeOpen
  <2>9. f[1] # "sweeper" /\ to \in [at : {"disarm", "notify"}, of : {"server"}]
          => "server" \in objects
    BY <2>2 DEF IInv, HandlersUse, Stopping
  <2>10. Steps(f, to)
    BY <2>2 DEF Steps
  <2>11. QED
    BY <2>2, <2>3, <2>4, <2>5, <2>7, <2>8, <2>9, <2>10, FrameStep
<1>5. CASE \E l \in Loops : HandlerNotifies(f, l)
  <2>1. PICK l \in Loops : HandlerNotifies(f, l)
    BY <1>5
  <2> DEFINE to == After(l)
  <2>2. /\ handler[f] = [at |-> "notify", of |-> l]
        /\ handler' = [handler EXCEPT ![f] = to]
        /\ wake' = IF wake[l] \in {"empty", "full"}
                   THEN [wake EXCEPT ![l] = "full"] ELSE wake
        /\ UNCHANGED <<main, start, running, g, objects, signals>>
    BY <2>1 DEF HandlerNotifies, In, Steps, Notify
  <2>3. to \in Place /\ to # Idle /\ to.at \notin {"disarm", "notify"}
    BY DEF After, Place, Loops, Idle
  <2>4. LifecycleTypeOK'
    BY <2>2, <2>3 DEF IInv, LifecycleTypeOK, Place
  <2>5. StopWakes'
    <3> SUFFICES ASSUME NEW k \in Loops, start[k] = "waiting", ~running[k]
                 PROVE  \/ wake'[k] = "full"
                        \/ \E x \in Frames : handler'[x] = [at |-> "notify", of |-> k]
                        \/ k = "admin" /\ main = "waking"
      BY <2>2 DEF StopWakes
    <3>1. CASE k = l
      BY <2>2, <3>1 DEF IInv, LifecycleTypeOK, PipeOpen
    <3>2. CASE k # l
      <4>1. \A x \in Frames :
              handler[x] = [at |-> "notify", of |-> k] => handler'[x] = handler[x]
        BY <2>2, <3>2 DEF IInv, LifecycleTypeOK
      <4>2. wake'[k] = wake[k]
        BY <2>2, <3>2 DEF IInv, LifecycleTypeOK
      <4>3. QED
        BY <4>1, <4>2 DEF IInv, StopWakes
    <3>3. QED
      BY <3>1, <3>2
  <2>6. handler[f] # Idle
    BY <2>2 DEF Idle
  <2>7. Nested' /\ OnAdmin'
    BY <1>1, <2>2, <2>3, <2>6 DEF IInv, Nested, OnAdmin, Free, LifecycleTypeOK
  <2>8. PipeOpen'
    BY <2>2 DEF IInv, PipeOpen, LifecycleTypeOK
  <2>9. Steps(f, to)
    BY <2>2 DEF Steps
  <2>10. QED
    BY <2>2, <2>3, <2>4, <2>5, <2>7, <2>8, <2>9, FrameStep
<1>6. CASE HandlerReturns(f)
  <2>1. /\ handler[f] = [at |-> "leaving", of |-> "admin"]
        /\ handler' = [handler EXCEPT ![f] = Idle]
        /\ UNCHANGED <<main, running, wake, g, objects, signals>>
        /\ start' = [l \in Loops |->
                      IF start[l] = "waiting" /\ f = <<Runs(l), "outer">>
                      THEN "testing" ELSE start[l]]
    BY <1>6 DEF HandlerReturns, In, Steps
  <2>2. Idle \in Place /\ Idle \notin [at : {"disarm", "notify"}, of : {"server"}]
    BY DEF Idle, Place, Loops
  <2>3. LifecycleTypeOK'
    <3>1. handler' \in [Frames -> Place]
      BY <2>1, <2>2 DEF IInv, LifecycleTypeOK, Place
    <3>2. start' \in [Loops -> {"none", "starting", "arming", "testing", "waiting",
                               "thrown", "closing", "clearing", "returned"}]
      BY <2>1 DEF IInv, LifecycleTypeOK
    <3>3. QED
      BY <2>1, <3>1, <3>2 DEF IInv, LifecycleTypeOK, Place
  <2>4. StopWakes'
    <3>1. \A x \in Frames, k \in Loops :
            handler[x] = [at |-> "notify", of |-> k] => handler'[x] = handler[x]
      BY <2>1 DEF IInv, LifecycleTypeOK
    <3>2. \A l \in Loops : start'[l] = "waiting" => start[l] = "waiting"
      BY <2>1
    <3>3. QED
      BY <2>1, <3>1, <3>2 DEF IInv, StopWakes
  <2>5. Nested'
    BY <1>1, <1>2, <2>1 DEF IInv, Nested, Free, LifecycleTypeOK
  <2>6. OnAdmin' /\ PipeOpen'
    BY <1>1, <2>1 DEF IInv, OnAdmin, Free, PipeOpen, LifecycleTypeOK, Out, Loops
  <2>7. \A l \in Loops : /\ start'[l] = start[l] \/ {start[l], start'[l]} \cap Out = {}
                         /\ start[l] \in Out => start'[l] = start[l]
    BY <2>1 DEF Out
  <2>8. Steps(f, Idle)
    BY <2>1 DEF Steps
  <2>9. QED
    BY <2>1, <2>2, <2>3, <2>4, <2>5, <2>6, <2>7, <2>8, FrameStep
<1>7. QED
  BY <1>3, <1>4, <1>5, <1>6 DEF Handler

LEMMA NextIInv == IInv /\ [LifecycleNext]_lifecycleVars => IInv'
<1> SUFFICES ASSUME IInv, [LifecycleNext]_lifecycleVars PROVE IInv'
  OBVIOUS
<1>1. CASE \E l \in Loops : StartStep(l)
  BY <1>1, LoopStep
<1>2. CASE Serving
  BY <1>2, ServingStep
<1>3. CASE \E o \in Objects : Destroys(o)
  BY <1>3, DestroyStep
<1>4. CASE LeavesAdmin \/ Catches \/ Returns
  BY <1>4, ReturnStep
<1>5. CASE \E t \in Threads : Delivers(t)
  BY <1>5, DeliverStep
<1>6. CASE \E f \in Frames : Handler(f)
  BY <1>6, HandlerStep
<1>7. CASE UNCHANGED lifecycleVars
  BY <1>7 DEF lifecycleVars, IInv, LifecycleTypeOK, PipeOpen, StopWakes, Stages, ServerSet, Nested,
              OnAdmin, Free, LoopsUse, MainUses, HandlersUse, Stopping
<1>8. QED
  BY <1>1, <1>2, <1>3, <1>4, <1>5, <1>6, <1>7
  DEF LifecycleNext, Exited, StartStep, Main, Serving

LEMMA AlwaysIInv == LifecycleSpec => []IInv
BY InitIInv, NextIInv, PTL DEF LifecycleSpec
-----------------------------------------------------------------------------
\* main(), the loops, their flags and pipes, the objects and the handler keep
\* their types.
THEOREM LifecycleTypeCorrect == LifecycleSpec => []LifecycleTypeOK
<1>1. IInv => LifecycleTypeOK
  BY DEF IInv
<1>2. QED
  BY <1>1, AlwaysIInv, PTL

\* No loop stays in epoll_wait after a stop() without a byte in its pipe or
\* one about to be written, whichever threads call stop() and when.
THEOREM NoStopSleptThrough == LifecycleSpec => []StopWakes
<1>1. IInv => StopWakes
  BY DEF IInv
<1>2. QED
  BY <1>1, AlwaysIInv, PTL

\* main() destroys Storage, the log and the loops only when no thread is inside
\* them, nor a handler on a thread that main() waits for, by whichever way the
\* try block is left.
THEOREM DestroyedLast == LifecycleSpec => []NoUseAfterDestroy
<1>1. ASSUME IInv, NEW o \in Objects, Users(o) # {}
      PROVE  o \in objects
  <2>1. CASE \E l \in Loops : start[l] \notin Out /\ o \in {l, "storage", "aof"}
    BY <1>1, <2>1 DEF IInv, LoopsUse
  <2>2. CASE o = "admin" /\ main \in {"stopping", "waking"}
    BY <1>1, <2>2 DEF IInv, MainUses
  <2>3. CASE \E f \in Frames :
               o = "server" /\ f[1] # "sweeper" /\ Stopping(f, "server")
    BY <1>1, <2>3 DEF IInv, HandlersUse
  <2>4. QED
    BY <1>1, <2>1, <2>2, <2>3 DEF Users, Out
<1>2. IInv => NoUseAfterDestroy
  BY <1>1 DEF NoUseAfterDestroy
<1>3. QED
  BY <1>2, AlwaysIInv, PTL
=============================================================================
