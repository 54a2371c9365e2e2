------------------------------- MODULE Bridge -------------------------------
(***************************************************************************)
(* AsyncioBridge (adapters/async_bridge.py): the main thread queues calls  *)
(* and coroutines under a lock and wakes the event loop once for many of   *)
(* them; a drainer on the loop runs the calls and hands each coroutine to  *)
(* an idle worker, a new one, or a backlog; stop() tears everything down.  *)
(*                                                                         *)
(* The loop runs the callbacks of its ready queue in turn; an iteration    *)
(* covers those queued when it began.  Between the steps of a callback     *)
(* only the main thread moves.                                             *)
(***************************************************************************)
EXTENDS Naturals, Sequences, FiniteSets, Functions

CONSTANTS
  Items,        \* how many items main schedules, 1 .. Items in this order
  Calls,        \* which of them go through schedule_call
  MaxWorkers    \* _max_workers

ASSUME BridgeAssumption ==
  Items \in Nat /\ Calls \subseteq 1 .. Items /\ MaxWorkers \in Nat \ {0}

Workers == 1 .. MaxWorkers
Coros == (1 .. Items) \ Calls
None == 0

VARIABLES
  main,             \* where the main thread is
  next,             \* the next item it schedules
  pending, calls,   \* _pending, _pending_calls
  drainScheduled,   \* _drain_scheduled
  ready,            \* the loop's ready queue
  turn,             \* callbacks left in this iteration
  loop, at,         \* what the loop is executing, and for which worker
  batch,            \* _drain_pending's batch, not yet dispatched
  worker,           \* each worker task's state
  coro,             \* the coroutine a worker holds
  idle,             \* _idle_waiters, by worker
  backlog,          \* _ready
  poolClosing,      \* _pool_closing
  halting,          \* loop.stop was called
  started,          \* history: items begun, in order
  closed            \* history: items close()d or dropped by stop

shared == <<pending, calls, drainScheduled>>
pool == <<worker, coro, idle, backlog>>
vars == <<main, next, shared, ready, turn, loop, at, batch, pool, poolClosing, halting, started, closed>>

\* The callbacks of the ready queue.
Do(what) == <<what, None>>
Step(w) == <<"step", w>>
Callback == {Do("drain"), Do("close"), Do("halt")} \cup {Step(w) : w \in Workers}

TypeOK ==
  /\ main \in {"calling", "waking", "closing", "halting", "joining", "stopped"}
  /\ next \in 1 .. Items + 1
  /\ pending \in Seq(Coros) /\ calls \in Seq(Calls) /\ drainScheduled \in BOOLEAN
  /\ ready \in Seq(Callback) /\ turn \in 0 .. Len(ready)
  /\ loop \in {"idle", "taking", "dispatching", "advancing", "exited"} /\ at \in Workers
  /\ batch \in Seq(Coros) /\ backlog \in Seq(Coros) /\ idle \in Seq(Workers)
  /\ worker \in [Workers -> {"absent", "starting", "running", "waking", "idle", "handed", "gone"}]
  /\ coro \in [Workers -> Coros \cup {None}]
  /\ poolClosing \in BOOLEAN /\ halting \in BOOLEAN
  /\ started \in Seq(1 .. Items) /\ closed \subseteq 1 .. Items

Init ==
  /\ main = "calling" /\ next = 1
  /\ pending = << >> /\ calls = << >> /\ drainScheduled = FALSE
  /\ ready = << >> /\ turn = 0 /\ loop = "idle" /\ at = 1 /\ batch = << >>
  /\ worker = [w \in Workers |-> "absent"] /\ coro = [w \in Workers |-> None]
  /\ idle = << >> /\ backlog = << >>
  /\ poolClosing = FALSE /\ halting = FALSE
  /\ started = << >> /\ closed = {}

-----------------------------------------------------------------------------
(* The main thread. *)

\* schedule_coro or schedule_call, under the lock; the first to find the flag down wakes.
Schedule ==
  /\ main = "calling" /\ next <= Items
  /\ IF next \in Calls THEN calls' = Append(calls, next) /\ UNCHANGED pending
                       ELSE pending' = Append(pending, next) /\ UNCHANGED calls
  /\ main' = IF drainScheduled THEN "calling" ELSE "waking"
  /\ drainScheduled' = TRUE
  /\ next' = next + 1
  /\ UNCHANGED <<ready, turn, loop, at, batch, pool, poolClosing, halting, started, closed>>

\* call_soon_threadsafe(_drain_pending)
WakeLoop ==
  /\ main = "waking"
  /\ main' = "calling"
  /\ ready' = Append(ready, Do("drain"))
  /\ UNCHANGED <<next, shared, turn, loop, at, batch, pool, poolClosing, halting, started, closed>>

\* Mutant: what is pending is dropped without being closed.
StopDroppingPending ==
  /\ main = "calling"
  /\ main' = "closing"
  /\ pending' = << >> /\ calls' = << >> /\ drainScheduled' = FALSE
  /\ UNCHANGED <<next, ready, turn, loop, at, batch, pool, poolClosing, halting, started, closed>>

\* stop(): what is still pending is closed, under the lock ...
StopPending ==
  /\ main = "calling"
  /\ main' = "closing"
  /\ closed' = closed \cup Range(pending) \cup Range(calls)
  /\ pending' = << >> /\ calls' = << >> /\ drainScheduled' = FALSE
  /\ UNCHANGED <<next, ready, turn, loop, at, batch, pool, poolClosing, halting, started>>

\* Mutant: the loop is never told to stop.
QueueCloseOnly ==
  /\ main = "closing" /\ main' = "joining" /\ ready' = Append(ready, Do("close"))
  /\ UNCHANGED <<next, shared, turn, loop, at, batch, pool, poolClosing, halting, started, closed>>

\* ... _close_pool and loop.stop are queued ...
QueueTeardown ==
  /\ \/ main = "closing" /\ main' = "halting" /\ ready' = Append(ready, Do("close"))
     \/ main = "halting" /\ main' = "joining" /\ ready' = Append(ready, Do("halt"))
  /\ UNCHANGED <<next, shared, turn, loop, at, batch, pool, poolClosing, halting, started, closed>>

\* ... and the thread is joined.
Join ==
  /\ main = "joining" /\ loop = "exited"
  /\ main' = "stopped"
  /\ UNCHANGED <<next, shared, ready, turn, loop, at, batch, pool, poolClosing, halting, started, closed>>

-----------------------------------------------------------------------------
(* The event loop. *)

\* An iteration begins: the callbacks now in the queue.
Iterate ==
  /\ loop = "idle" /\ turn = 0 /\ ~halting /\ ready # << >>
  /\ turn' = Len(ready)
  /\ UNCHANGED <<main, next, shared, ready, loop, at, batch, pool, poolClosing, halting, started, closed>>

Pop ==
  /\ loop = "idle" /\ turn > 0
  /\ ready' = Tail(ready) /\ turn' = turn - 1

BeginDrain ==
  /\ Pop /\ Head(ready) = Do("drain")
  /\ loop' = "taking"
  /\ UNCHANGED <<main, next, shared, at, batch, pool, poolClosing, halting, started, closed>>

\* Mutant: the flag is cleared whenever the coroutines have run out.
TakeForgettingCalls ==
  /\ loop = "taking"
  /\ IF pending = << >>
     THEN /\ drainScheduled' = FALSE /\ loop' = "idle"
          /\ UNCHANGED <<pending, calls, batch, started>>
     ELSE /\ started' = started \o calls
          /\ batch' = pending
          /\ pending' = << >> /\ calls' = << >>
          /\ loop' = "dispatching"
          /\ UNCHANGED drainScheduled
  /\ UNCHANGED <<main, next, ready, turn, at, pool, poolClosing, halting, closed>>

\* Mutant: calls are handed to workers.
TakeMixed ==
  /\ loop = "taking"
  /\ IF pending = << >> /\ calls = << >>
     THEN drainScheduled' = FALSE /\ loop' = "idle" /\ UNCHANGED batch
     ELSE batch' = calls \o pending /\ loop' = "dispatching" /\ UNCHANGED drainScheduled
  /\ pending' = << >> /\ calls' = << >>
  /\ UNCHANGED <<main, next, ready, turn, at, pool, poolClosing, halting, started, closed>>

\* _drain_pending's locked section, and the calls it took: they run on the spot.
\* Only a drainer that finds nothing lowers the flag.
Take ==
  /\ loop = "taking"
  /\ IF pending = << >> /\ calls = << >>
     THEN /\ drainScheduled' = FALSE /\ loop' = "idle"
          /\ UNCHANGED <<pending, calls, batch, started>>
     ELSE /\ started' = started \o calls
          /\ batch' = pending
          /\ pending' = << >> /\ calls' = << >>
          /\ loop' = "dispatching"
          /\ UNCHANGED drainScheduled
  /\ UNCHANGED <<main, next, ready, turn, at, pool, poolClosing, halting, closed>>

Absent == {w \in Workers : worker[w] = "absent"}

\* Hands coroutine c to worker w, which the loop will step.
HandTo(w, how, c) ==
  /\ worker' = [worker EXCEPT ![w] = how]
  /\ coro' = [coro EXCEPT ![w] = c]
  /\ ready' = Append(ready, Step(w))

\* _dispatch: the oldest idle worker, else a new one, else the backlog.
HandOver(c) ==
  \/ /\ idle # << >>
     /\ HandTo(Head(idle), "handed", c)
     /\ idle' = Tail(idle)
     /\ UNCHANGED backlog
  \/ /\ idle = << >> /\ Absent # {}
     /\ \E w \in Absent : (\A v \in Absent : w <= v) /\ HandTo(w, "starting", c)
     /\ UNCHANGED <<idle, backlog>>
  \/ /\ idle = << >> /\ Absent = {}
     /\ backlog' = Append(backlog, c)
     /\ UNCHANGED <<worker, coro, idle, ready>>

Dispatch ==
  /\ loop = "dispatching" /\ batch # << >>
  /\ HandOver(Head(batch))
  /\ batch' = Tail(batch)
  /\ UNCHANGED <<main, next, shared, turn, loop, at, poolClosing, halting, started, closed>>

\* The batch is dispatched: the drainer looks again.
DrainAgain ==
  /\ loop = "dispatching" /\ batch = << >>
  /\ loop' = "taking"
  /\ UNCHANGED <<main, next, shared, ready, turn, at, batch, pool, poolClosing, halting, started, closed>>

\* A worker's task is stepped with a coroutine in hand: it runs until it awaits the
\* library, or to its end at once.
StepWorker(w) ==
  /\ Pop /\ Head(ready) = Step(w)
  /\ at' = w
  /\ \/ /\ worker[w] \in {"starting", "handed"}
        /\ started' = Append(started, coro[w])
        /\ worker' = [worker EXCEPT ![w] = "running"]
        /\ loop' \in {"idle", "advancing"}
     \/ /\ worker[w] = "waking" /\ loop' = "advancing"
        /\ UNCHANGED <<started, worker>>
     \/ /\ worker[w] = "gone" /\ loop' = "idle"
        /\ UNCHANGED <<started, worker>>
  /\ UNCHANGED <<main, next, shared, batch, coro, idle, backlog, poolClosing, halting, closed>>

\* The library completes the publish a worker awaits (from a callback of its own).
Complete(w) ==
  /\ loop = "idle" /\ worker[w] = "running"
  /\ worker' = [worker EXCEPT ![w] = "waking"]
  /\ ready' = Append(ready, Step(w))
  /\ UNCHANGED <<main, next, shared, turn, loop, at, batch, coro, idle, backlog, poolClosing, halting,
                 started, closed>>

\* Mutant: a worker done with its coroutine waits without a look at the backlog.
NextCoroIdling(w) ==
  /\ loop = "advancing" /\ at = w
  /\ loop' = "idle"
  /\ worker' = [worker EXCEPT ![w] = "idle"] /\ coro' = [coro EXCEPT ![w] = None]
  /\ idle' = Append(idle, w)
  /\ UNCHANGED <<main, next, shared, ready, turn, at, batch, backlog, poolClosing, halting, started, closed>>

\* The coroutine has ended: the next one from the backlog, or wait for a hand-over.
NextCoro(w) ==
  /\ loop = "advancing" /\ at = w
  /\ \/ /\ backlog # << >>
        /\ coro' = [coro EXCEPT ![w] = Head(backlog)]
        /\ started' = Append(started, Head(backlog))
        /\ backlog' = Tail(backlog)
        /\ worker' = [worker EXCEPT ![w] = "running"]
        /\ loop' \in {"idle", "advancing"}
        /\ UNCHANGED idle
     \/ /\ backlog = << >>
        /\ worker' = [worker EXCEPT ![w] = "idle"] /\ coro' = [coro EXCEPT ![w] = None]
        /\ idle' = Append(idle, w)
        /\ loop' = "idle"
        /\ UNCHANGED <<backlog, started>>
  /\ UNCHANGED <<main, next, shared, ready, turn, at, batch, poolClosing, halting, closed>>

\* _close_pool: the backlog is closed and every worker's task is cancelled, before
\* its next step.  A running coroutine ends; one in hand is never entered.
ClosePool ==
  /\ Pop /\ Head(ready) = Do("close")
  /\ poolClosing' = TRUE
  /\ worker' = [w \in Workers |-> IF worker[w] = "absent" THEN "absent" ELSE "gone"]
  /\ idle' = << >>
  /\ closed' = closed \cup Range(backlog) /\ backlog' = << >>
  /\ UNCHANGED <<main, next, shared, loop, at, batch, coro, halting, started>>

\* loop.stop: this iteration is the last.
Halt ==
  /\ Pop /\ Head(ready) = Do("halt")
  /\ halting' = TRUE
  /\ UNCHANGED <<main, next, shared, loop, at, batch, pool, poolClosing, started, closed>>

Exit ==
  /\ loop = "idle" /\ turn = 0 /\ halting
  /\ loop' = "exited"
  /\ UNCHANGED <<main, next, shared, ready, turn, at, batch, pool, poolClosing, halting, started, closed>>

Stopped == main = "stopped" /\ UNCHANGED vars

MainStep == Schedule \/ WakeLoop \/ StopPending \/ QueueTeardown \/ Join
LoopStep ==
  \/ Iterate \/ BeginDrain \/ Take \/ Dispatch \/ DrainAgain
  \/ \E w \in Workers : StepWorker(w) \/ NextCoro(w)
  \/ ClosePool \/ Halt \/ Exit

Next ==
  \/ MainStep
  \/ LoopStep
  \/ \E w \in Workers : Complete(w)
  \/ Stopped

\* Both threads run.  Main may stop scheduling; once it has begun to wake or to stop it
\* goes on.  The library owes no completion.
Fairness ==
  /\ WF_vars(WakeLoop \/ QueueTeardown \/ Join)
  /\ WF_vars(LoopStep)

Spec == Init /\ [][Next]_vars
FairSpec == Spec /\ Fairness

-----------------------------------------------------------------------------
(* Properties. *)

Stopping == main \notin {"calling", "waking"}

\* No lost wake-up: while something is queued, a drainer is on its way that will see it.
DrainComing ==
  pending # << >> \/ calls # << >> =>
    main = "waking" \/ Do("drain") \in Range(ready) \/ loop \in {"taking", "dispatching"}

\* Nothing waits in the backlog while a worker could run it.
BacklogMeansSaturated ==
  backlog # << >> => \A w \in Workers : worker[w] \notin {"absent", "idle"}

\* Whatever waits, in the queues or in the backlog, has someone coming for it.
WorkIsAttended == DrainComing /\ BacklogMeansSaturated

InHand == {coro[w] : w \in {v \in Workers : worker[v] \in {"starting", "handed"}}}

\* Until the pool closes, every scheduled item is in exactly one place: queued, in a
\* worker's hand, begun, or closed by stop.  So none is lost and none is begun twice.
NothingMislaid ==
  ~poolClosing =>
    /\ 1 .. next - 1 = Range(pending) \cup Range(calls) \cup Range(batch) \cup Range(backlog)
                         \cup InHand \cup Range(started) \cup closed
    /\ next - 1 = Len(pending) + Len(calls) + Len(batch) + Len(backlog)
                    + Cardinality(InHand) + Len(started) + Cardinality(closed)

\* What is scheduled begins, unless the bridge is stopped or every worker awaits the
\* library.
ScheduledBegins ==
  \A i \in 1 .. Items :
    next > i ~> \/ i \in Range(started)
                \/ Stopping
                \/ \A w \in Workers : worker[w] = "running"

\* stop() returns, whatever the loop was doing.
StopReturns == Stopping ~> main = "stopped"

\* Of what was scheduled before stop, all that is neither begun nor closed afterwards is
\* what a cancelled worker had in hand.
OnlyHandsAreLost ==
  main = "stopped" =>
    \A i \in 1 .. next - 1 : \/ i \in Range(started) \/ i \in closed
                            \/ \E w \in Workers : worker[w] = "gone" /\ coro[w] = i

\* Every item scheduled can be accounted for, before and after stop.
ItemsAreTraced == NothingMislaid /\ OnlyHandsAreLost

\* "Close undelivered coroutines so they do not raise 'never awaited'" (async_bridge.py:92).
UndeliveredAreClosed ==
  main = "stopped" => \A i \in 1 .. next - 1 : i \in Range(started) \/ i \in closed
=============================================================================
