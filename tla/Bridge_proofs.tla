---------------------------- MODULE Bridge_proofs ----------------------------
(***************************************************************************)
(* The asyncio bridge, for any number of items and workers: no wake-up is  *)
(* lost, nothing waits in the backlog while a worker could run it, every   *)
(* coroutine is in exactly one place until the pool closes, and stop()     *)
(* loses nothing but what a cancelled worker had in hand.  The invariant   *)
(* counts each coroutine once: the places' sizes add up to what was        *)
(* scheduled, and their union is all of it, so no two of them overlap.     *)
(***************************************************************************)
EXTENDS Bridge, SequenceTheorems, FunctionTheorems, FiniteSetTheorems, TLAPS

-----------------------------------------------------------------------------
(* Sequences as the queues they are used for. *)

LEMMA RangeAppend ==
  ASSUME NEW S, NEW s \in Seq(S), NEW e \in S
  PROVE  Range(Append(s, e)) = Range(s) \cup {e}
<1> DEFINE t == Append(s, e)
<1>1. /\ Len(t) = Len(s) + 1 /\ Len(s) \in Nat /\ t \in Seq(S)
      /\ \A i \in 1 .. Len(s) : t[i] = s[i]
      /\ t[Len(s) + 1] = e
  BY AppendProperties
<1>2. DOMAIN s = 1 .. Len(s) /\ DOMAIN t = 1 .. (Len(s) + 1)
  BY <1>1
<1> HIDE DEF t
<1>3. Range(t) = Range(s) \cup {e}
  BY <1>1, <1>2 DEF Range
<1>4. QED
  BY <1>3 DEF t

LEMMA RangeTail ==
  ASSUME NEW S, NEW s \in Seq(S), s # << >>
  PROVE  Range(s) = {Head(s)} \cup Range(Tail(s))
<1> DEFINE t == Tail(s)
<1>1. /\ Len(t) = Len(s) - 1 /\ Len(s) \in Nat \ {0} /\ t \in Seq(S)
      /\ \A i \in 1 .. Len(t) : t[i] = s[i + 1]
      /\ Head(s) = s[1]
  BY HeadTailProperties, EmptySeq
<1>2. DOMAIN s = 1 .. Len(s) /\ DOMAIN t = 1 .. (Len(s) - 1)
  BY <1>1
<1> HIDE DEF t
<1>3. Range(s) \subseteq {Head(s)} \cup Range(t)
  <2> SUFFICES ASSUME NEW i \in 1 .. Len(s), i # 1 PROVE s[i] \in Range(t)
    BY <1>1, <1>2 DEF Range
  <2>1. i - 1 \in 1 .. Len(t) /\ t[i - 1] = s[i]
    BY <1>1
  <2>2. QED
    BY <1>1, <1>2, <2>1 DEF Range
<1>4. {Head(s)} \cup Range(t) \subseteq Range(s)
  BY <1>1, <1>2 DEF Range
<1>5. QED
  BY <1>3, <1>4 DEF t

LEMMA RangeConcat ==
  ASSUME NEW S, NEW s \in Seq(S), NEW t \in Seq(S)
  PROVE  Range(s \o t) = Range(s) \cup Range(t)
<1> DEFINE u == s \o t
<1>1. /\ Len(u) = Len(s) + Len(t) /\ Len(s) \in Nat /\ Len(t) \in Nat /\ u \in Seq(S)
      /\ \A i \in 1 .. Len(s) + Len(t) : u[i] = IF i <= Len(s) THEN s[i] ELSE t[i - Len(s)]
  BY ConcatProperties
<1>2. /\ DOMAIN s = 1 .. Len(s) /\ DOMAIN t = 1 .. Len(t)
      /\ DOMAIN u = 1 .. (Len(s) + Len(t))
  BY <1>1
<1> HIDE DEF u
<1>3. Range(u) \subseteq Range(s) \cup Range(t)
  <2> SUFFICES ASSUME NEW i \in 1 .. (Len(s) + Len(t)) PROVE u[i] \in Range(s) \cup Range(t)
    BY <1>2 DEF Range
  <2>1. CASE i <= Len(s)
    BY <1>1, <1>2, <2>1 DEF Range
  <2>2. CASE i > Len(s)
    <3>1. i - Len(s) \in 1 .. Len(t) /\ u[i] = t[i - Len(s)]
      BY <1>1, <2>2
    <3>2. QED
      BY <1>2, <3>1 DEF Range
  <2>3. QED
    BY <1>1, <2>1, <2>2
<1>4. Range(s) \subseteq Range(u)
  BY <1>1, <1>2 DEF Range
<1>5. Range(t) \subseteq Range(u)
  <2> SUFFICES ASSUME NEW i \in 1 .. Len(t) PROVE t[i] \in Range(u)
    BY <1>2 DEF Range
  <2>1. /\ Len(s) + i \in 1 .. Len(s) + Len(t) /\ ~(Len(s) + i <= Len(s))
        /\ (Len(s) + i) - Len(s) = i
    BY <1>1
  <2>2. u[Len(s) + i] = t[i]
    BY <1>1, <2>1
  <2>3. QED
    BY <1>1, <1>2, <2>1, <2>2 DEF Range
<1>6. QED
  BY <1>3, <1>4, <1>5 DEF u

LEMMA RangeEmpty == Range(<< >>) = {}
  BY DEF Range

\* A member of a sequence is of its type.
LEMMA RangeType ==
  ASSUME NEW S, NEW s \in Seq(S)
  PROVE  Range(s) \subseteq S
  BY DEF Range

-----------------------------------------------------------------------------
(* Types. *)

\* A worker about to be stepped has a coroutine.
Hands == \A w \in Workers : worker[w] \in {"starting", "handed"} => coro[w] \in Coros

\* Only a worker that has run something is looking for the next one.
Busy == loop = "advancing" => worker[at] \in {"running", "waking"}

TypeInv == TypeOK /\ Hands /\ Busy

LEMMA Callbacks ==
  /\ Do("drain") \in Callback /\ Do("close") \in Callback /\ Do("halt") \in Callback
  /\ \A w \in Workers : Step(w) \in Callback
  /\ Do("drain") # Do("close") /\ Do("drain") # Do("halt") /\ Do("close") # Do("halt")
  /\ \A w \in Workers : Step(w) \notin {Do("drain"), Do("close"), Do("halt")}
  BY DEF Callback, Do, Step

LEMMA Numbers == Items \in Nat /\ Calls \subseteq 1 .. Items /\ MaxWorkers \in Nat \ {0}
                 /\ Coros \subseteq 1 .. Items /\ 1 \in Workers /\ Workers \subseteq Nat
  BY BridgeAssumption DEF Coros, Workers

LEMMA InitType == Init => TypeInv
<1> SUFFICES ASSUME Init PROVE TypeInv
  OBVIOUS
<1>1. TypeOK
  <2>1. \A S : << >> \in Seq(S)
    BY EmptySeq
  <2>2. turn \in 0 .. Len(ready) /\ next \in 1 .. Items + 1
    BY Numbers DEF Init
  <2>3. worker \in [Workers -> {"absent", "starting", "running", "waking", "idle", "handed", "gone"}]
    BY DEF Init
  <2>4. coro \in [Workers -> Coros \cup {None}]
    BY DEF Init
  <2>5. QED
    BY Numbers, <2>1, <2>2, <2>3, <2>4 DEF Init, TypeOK
<1>2. Hands /\ Busy
  BY DEF Init, Hands, Busy
<1>3. QED
  BY <1>1, <1>2 DEF TypeInv

\* What a callback is taken from, and what is left of it.
LEMMA PopType ==
  ASSUME TypeInv, Pop
  PROVE  /\ ready # << >> /\ ready' \in Seq(Callback) /\ turn' \in 0 .. Len(ready')
         /\ Range(ready) = {Head(ready)} \cup Range(ready')
         /\ Len(ready') = Len(ready) - 1 /\ Len(ready) \in Nat
         /\ \A i \in 1 .. Len(ready') : ready'[i] = ready[i + 1]
         /\ Head(ready) = ready[1]
<1>1. /\ ready \in Seq(Callback) /\ turn \in 0 .. Len(ready) /\ turn > 0
      /\ ready' = Tail(ready) /\ turn' = turn - 1
  BY DEF TypeInv, TypeOK, Pop
<1>2. Len(ready) \in Nat /\ ready # << >>
  BY <1>1, EmptySeq
<1>3. /\ Tail(ready) \in Seq(Callback) /\ Len(Tail(ready)) = Len(ready) - 1
      /\ \A i \in 1 .. Len(Tail(ready)) : Tail(ready)[i] = ready[i + 1]
  BY <1>1, <1>2, HeadTailProperties
<1>4. Range(ready) = {Head(ready)} \cup Range(Tail(ready))
  BY <1>1, <1>2, RangeTail
<1>5. Head(ready) = ready[1]
  BY <1>1, <1>2
<1>6. turn' \in 0 .. Len(Tail(ready))
  BY <1>1, <1>2, <1>3
<1>7. QED
  BY <1>1, <1>2, <1>3, <1>4, <1>5, <1>6

\* What is left when a callback is queued.
LEMMA QueueType ==
  ASSUME TypeInv, NEW c \in Callback, ready' = Append(ready, c), turn' = turn
  PROVE  /\ ready' \in Seq(Callback) /\ turn' \in 0 .. Len(ready')
         /\ Range(ready') = Range(ready) \cup {c}
         /\ Len(ready') = Len(ready) + 1 /\ Len(ready) \in Nat
         /\ \A i \in 1 .. Len(ready) : ready'[i] = ready[i]
         /\ ready'[Len(ready) + 1] = c
<1>1. ready \in Seq(Callback) /\ turn \in 0 .. Len(ready) /\ Len(ready) \in Nat
  BY DEF TypeInv, TypeOK
<1>2. /\ Append(ready, c) \in Seq(Callback) /\ Len(Append(ready, c)) = Len(ready) + 1
      /\ \A i \in 1 .. Len(ready) : Append(ready, c)[i] = ready[i]
      /\ Append(ready, c)[Len(ready) + 1] = c
  BY <1>1, AppendProperties
<1>3. Range(Append(ready, c)) = Range(ready) \cup {c}
  BY <1>1, RangeAppend
<1>4. turn' \in 0 .. Len(Append(ready, c))
  BY <1>1, <1>2
<1>5. QED
  BY <1>1, <1>2, <1>3, <1>4

LEMMA MainTypes == TypeInv /\ MainStep => TypeInv'
<1>1. ASSUME TypeInv, Schedule PROVE TypeInv'
  <2>1. next' \in 1 .. Items + 1
    BY <1>1, Numbers DEF Schedule, TypeInv, TypeOK
  <2>2. CASE next \in Calls
    <3>1. calls' = Append(calls, next) /\ pending' = pending /\ calls \in Seq(Calls)
      BY <1>1, <2>2 DEF Schedule, TypeInv, TypeOK
    <3>2. calls' \in Seq(Calls)
      BY <2>2, <3>1, AppendProperties
    <3>3. QED
      BY <1>1, <2>1, <3>1, <3>2 DEF Schedule, TypeInv, TypeOK, Hands, Busy, pool
  <2>3. CASE next \notin Calls
    <3>1. next \in Coros
      BY <1>1, <2>3, Numbers DEF Schedule, TypeInv, TypeOK, Coros
    <3>2. pending' = Append(pending, next) /\ calls' = calls /\ pending \in Seq(Coros)
      BY <1>1, <2>3 DEF Schedule, TypeInv, TypeOK
    <3>3. pending' \in Seq(Coros)
      BY <3>1, <3>2, AppendProperties
    <3>4. QED
      BY <1>1, <2>1, <3>2, <3>3 DEF Schedule, TypeInv, TypeOK, Hands, Busy, pool
  <2>4. QED
    BY <2>2, <2>3
<1>2. ASSUME TypeInv, WakeLoop PROVE TypeInv'
  <2>1. ready' \in Seq(Callback) /\ turn' \in 0 .. Len(ready')
    BY <1>2, QueueType, Callbacks DEF WakeLoop
  <2>2. QED
    BY <1>2, <2>1 DEF WakeLoop, TypeInv, TypeOK, Hands, Busy, shared, pool
<1>3. ASSUME TypeInv, StopPending PROVE TypeInv'
  <2>1. << >> \in Seq(Coros) /\ << >> \in Seq(Calls)
    BY EmptySeq
  <2>2. closed' \subseteq 1 .. Items
    <3>1. Range(pending) \subseteq Coros /\ Range(calls) \subseteq Calls
      BY <1>3, RangeType DEF TypeInv, TypeOK
    <3>2. QED
      BY <1>3, <3>1, Numbers DEF StopPending, TypeInv, TypeOK
  <2>3. QED
    BY <1>3, <2>1, <2>2 DEF StopPending, TypeInv, TypeOK, Hands, Busy, pool
<1>4. ASSUME TypeInv, QueueTeardown PROVE TypeInv'
  <2>1. ready' \in Seq(Callback) /\ turn' \in 0 .. Len(ready')
    BY <1>4, QueueType, Callbacks DEF QueueTeardown
  <2>2. QED
    BY <1>4, <2>1 DEF QueueTeardown, TypeInv, TypeOK, Hands, Busy, shared, pool
<1>5. ASSUME TypeInv, Join PROVE TypeInv'
  BY <1>5 DEF Join, TypeInv, TypeOK, Hands, Busy, shared, pool
<1>6. QED
  BY <1>1, <1>2, <1>3, <1>4, <1>5 DEF MainStep

\* A hand-over keeps the workers' types.
LEMMA HandType ==
  ASSUME TypeInv, NEW w \in Workers, NEW c \in Coros, NEW how \in {"starting", "handed"},
         HandTo(w, how, c), turn' = turn
  PROVE  /\ worker' \in [Workers -> {"absent", "starting", "running", "waking", "idle", "handed", "gone"}]
         /\ coro' \in [Workers -> Coros \cup {None}]
         /\ Hands'
         /\ ready' \in Seq(Callback) /\ turn' \in 0 .. Len(ready')
<1>1. Step(w) \in Callback /\ ready' = Append(ready, Step(w))
  BY Callbacks DEF HandTo
<1>2. ready' \in Seq(Callback) /\ turn' \in 0 .. Len(ready')
  BY <1>1, QueueType
<1>3. QED
  BY <1>2 DEF HandTo, TypeInv, TypeOK, Hands

LEMMA DrainTypes == TypeInv /\ (Iterate \/ BeginDrain \/ Take \/ Dispatch \/ DrainAgain) => TypeInv'
<1>1. ASSUME TypeInv, Iterate PROVE TypeInv'
  <2>1. turn' \in 0 .. Len(ready)
    BY <1>1 DEF Iterate, TypeInv, TypeOK
  <2>2. QED
    BY <1>1, <2>1 DEF Iterate, TypeInv, TypeOK, Hands, Busy, shared, pool
<1>2. ASSUME TypeInv, BeginDrain PROVE TypeInv'
  <2>1. ready' \in Seq(Callback) /\ turn' \in 0 .. Len(ready')
    BY <1>2, PopType DEF BeginDrain
  <2>2. QED
    BY <1>2, <2>1 DEF BeginDrain, TypeInv, TypeOK, Hands, Busy, shared, pool
<1>3. ASSUME TypeInv, Take PROVE TypeInv'
  <2>1. << >> \in Seq(Coros) /\ << >> \in Seq(Calls)
    BY EmptySeq
  <2>2. started \o calls \in Seq(1 .. Items)
    <3>1. calls \in Seq(1 .. Items)
      BY <1>3, Numbers, SeqMonotonic DEF TypeInv, TypeOK
    <3>2. QED
      BY <1>3, <3>1, ConcatProperties DEF TypeInv, TypeOK
  <2>3. QED
    BY <1>3, <2>1, <2>2 DEF Take, TypeInv, TypeOK, Hands, Busy, pool
<1>4. ASSUME TypeInv, Dispatch PROVE TypeInv'
  <2> DEFINE c == Head(batch)
  <2>1. c \in Coros /\ batch' \in Seq(Coros)
    BY <1>4, HeadTailProperties DEF Dispatch, TypeInv, TypeOK
  <2>2. /\ UNCHANGED <<main, next, shared, turn, loop, at, poolClosing, halting, started, closed>>
        /\ HandOver(c) /\ loop = "dispatching"
    BY <1>4 DEF Dispatch
  <2> HIDE DEF c
  <2>3. CASE idle # << >> /\ HandTo(Head(idle), "handed", c) /\ idle' = Tail(idle) /\ UNCHANGED backlog
    <3>1. Head(idle) \in Workers /\ idle' \in Seq(Workers)
      BY <1>4, <2>3, HeadTailProperties DEF TypeInv, TypeOK
    <3>2. /\ worker' \in [Workers -> {"absent", "starting", "running", "waking", "idle", "handed", "gone"}]
          /\ coro' \in [Workers -> Coros \cup {None}] /\ Hands'
          /\ ready' \in Seq(Callback) /\ turn' \in 0 .. Len(ready')
      BY <1>4, <2>1, <2>2, <2>3, <3>1, HandType
    <3>3. QED
      BY <1>4, <2>1, <2>2, <2>3, <3>1, <3>2 DEF TypeInv, TypeOK, Busy, shared
  <2>4. ASSUME NEW w \in Workers, HandTo(w, "starting", c), UNCHANGED <<idle, backlog>>
        PROVE  TypeInv'
    <3>1. /\ worker' \in [Workers -> {"absent", "starting", "running", "waking", "idle", "handed", "gone"}]
          /\ coro' \in [Workers -> Coros \cup {None}] /\ Hands'
          /\ ready' \in Seq(Callback) /\ turn' \in 0 .. Len(ready')
      BY <1>4, <2>1, <2>2, <2>4, HandType
    <3>2. QED
      BY <1>4, <2>1, <2>2, <2>4, <3>1 DEF TypeInv, TypeOK, Busy, shared
  <2>5. CASE backlog' = Append(backlog, c) /\ UNCHANGED <<worker, coro, idle, ready>>
    <3>1. backlog' \in Seq(Coros)
      BY <1>4, <2>1, <2>5, AppendProperties DEF TypeInv, TypeOK
    <3>2. QED
      BY <1>4, <2>1, <2>2, <2>5, <3>1 DEF TypeInv, TypeOK, Hands, Busy, shared
  <2>6. QED
    BY <2>2, <2>3, <2>4, <2>5 DEF HandOver, Absent
<1>5. ASSUME TypeInv, DrainAgain PROVE TypeInv'
  BY <1>5 DEF DrainAgain, TypeInv, TypeOK, Hands, Busy, shared, pool
<1>6. QED
  BY <1>1, <1>2, <1>3, <1>4, <1>5

LEMMA WorkerTypes ==
  ASSUME TypeInv, NEW w \in Workers, StepWorker(w) \/ NextCoro(w) \/ Complete(w)
  PROVE  TypeInv'
<1>1. ASSUME StepWorker(w) PROVE TypeInv'
  <2>1. ready' \in Seq(Callback) /\ turn' \in 0 .. Len(ready')
    BY <1>1, PopType DEF StepWorker
  <2>2. /\ UNCHANGED <<main, next, shared, batch, coro, idle, backlog, poolClosing, halting, closed>>
        /\ at' = w
    BY <1>1 DEF StepWorker
  <2>3. CASE /\ worker[w] \in {"starting", "handed"} /\ started' = Append(started, coro[w])
             /\ worker' = [worker EXCEPT ![w] = "running"] /\ loop' \in {"idle", "advancing"}
    <3>1. coro[w] \in 1 .. Items
      BY <2>3, Numbers DEF TypeInv, Hands
    <3>2. started' \in Seq(1 .. Items)
      BY <2>3, <3>1, AppendProperties DEF TypeInv, TypeOK
    <3>3. QED
      BY <2>1, <2>2, <2>3, <3>2 DEF TypeInv, TypeOK, Hands, Busy, shared
  <2>4. CASE UNCHANGED <<started, worker>>
    BY <1>1, <2>1, <2>2, <2>4 DEF StepWorker, TypeInv, TypeOK, Hands, Busy, shared
  <2>5. QED
    BY <1>1, <2>3, <2>4 DEF StepWorker
<1>2. ASSUME NextCoro(w) PROVE TypeInv'
  <2>1. /\ UNCHANGED <<main, next, shared, ready, turn, at, batch, poolClosing, halting, closed>>
        /\ at = w
    BY <1>2 DEF NextCoro
  <2>2. CASE /\ backlog # << >> /\ coro' = [coro EXCEPT ![w] = Head(backlog)]
             /\ started' = Append(started, Head(backlog)) /\ backlog' = Tail(backlog)
             /\ worker' = [worker EXCEPT ![w] = "running"] /\ loop' \in {"idle", "advancing"}
             /\ UNCHANGED idle
    <3>1. Head(backlog) \in Coros /\ backlog' \in Seq(Coros)
      BY <2>2, HeadTailProperties DEF TypeInv, TypeOK
    <3>2. started' \in Seq(1 .. Items)
      BY <2>2, <3>1, Numbers, AppendProperties DEF TypeInv, TypeOK
    <3>3. QED
      BY <2>1, <2>2, <3>1, <3>2 DEF TypeInv, TypeOK, Hands, Busy, shared
  <2>3. CASE /\ worker' = [worker EXCEPT ![w] = "idle"] /\ coro' = [coro EXCEPT ![w] = None]
             /\ idle' = Append(idle, w) /\ loop' = "idle" /\ UNCHANGED <<backlog, started>>
    <3>1. idle' \in Seq(Workers)
      BY <2>3, AppendProperties DEF TypeInv, TypeOK
    <3>2. QED
      BY <2>1, <2>3, <3>1 DEF TypeInv, TypeOK, Hands, Busy, shared
  <2>4. QED
    BY <1>2, <2>2, <2>3 DEF NextCoro
<1>3. ASSUME Complete(w) PROVE TypeInv'
  <2>1. ready' \in Seq(Callback) /\ turn' \in 0 .. Len(ready')
    BY <1>3, QueueType, Callbacks DEF Complete
  <2>2. QED
    BY <1>3, <2>1 DEF Complete, TypeInv, TypeOK, Hands, Busy, shared
<1>4. QED
  BY <1>1, <1>2, <1>3

LEMMA TeardownTypes == TypeInv /\ (ClosePool \/ Halt \/ Exit) => TypeInv'
<1>1. ASSUME TypeInv, ClosePool PROVE TypeInv'
  <2>1. ready' \in Seq(Callback) /\ turn' \in 0 .. Len(ready')
    BY <1>1, PopType DEF ClosePool
  <2>2. << >> \in Seq(Coros) /\ << >> \in Seq(Workers)
    BY EmptySeq
  <2>3. closed' \subseteq 1 .. Items
    <3>1. Range(backlog) \subseteq Coros
      BY <1>1, RangeType DEF TypeInv, TypeOK
    <3>2. QED
      BY <1>1, <3>1, Numbers DEF ClosePool, TypeInv, TypeOK
  <2>4. worker' \in [Workers -> {"absent", "starting", "running", "waking", "idle", "handed", "gone"}]
    BY <1>1 DEF ClosePool
  <2>5. Hands'
    BY <1>1 DEF ClosePool, Hands
  <2>6. loop = "idle"
    BY <1>1 DEF ClosePool, Pop
  <2>7. QED
    BY <1>1, <2>1, <2>2, <2>3, <2>4, <2>5, <2>6 DEF ClosePool, TypeInv, TypeOK, Busy, shared
<1>2. ASSUME TypeInv, Halt PROVE TypeInv'
  <2>1. ready' \in Seq(Callback) /\ turn' \in 0 .. Len(ready')
    BY <1>2, PopType DEF Halt
  <2>2. QED
    BY <1>2, <2>1 DEF Halt, TypeInv, TypeOK, Hands, Busy, shared, pool
<1>3. ASSUME TypeInv, Exit PROVE TypeInv'
  BY <1>3 DEF Exit, TypeInv, TypeOK, Hands, Busy, shared, pool
<1>4. QED
  BY <1>1, <1>2, <1>3

LEMMA NextType == TypeInv /\ [Next]_vars => TypeInv'
<1>1. TypeInv /\ UNCHANGED vars => TypeInv'
  BY DEF vars, TypeInv, TypeOK, Hands, Busy, shared, pool
<1>2. QED
  BY <1>1, MainTypes, DrainTypes, WorkerTypes, TeardownTypes DEF Next, LoopStep, Stopped

-----------------------------------------------------------------------------
(* The coalesced wake-up. *)

\* The flag is up while something is queued, and up only while a drainer is due.
Flag ==
  /\ pending # << >> \/ calls # << >> => drainScheduled
  /\ drainScheduled =>
       main = "waking" \/ Do("drain") \in Range(ready) \/ loop \in {"taking", "dispatching"}
  /\ Stopping => ~drainScheduled

LEMMA InitFlag == Init => Flag
  BY DEF Init, Flag, Stopping

\* A step that neither queues nor takes, and keeps the drainer coming.
LEMMA FlagKept ==
  ASSUME Flag, UNCHANGED shared, main = "waking" => main' = "waking",
         Stopping' => Stopping \/ ~drainScheduled,
         Do("drain") \in Range(ready) => Do("drain") \in Range(ready') \/ loop' = "taking",
         loop \in {"taking", "dispatching"} => loop' \in {"taking", "dispatching"}
  PROVE  Flag'
  BY DEF Flag, shared, Stopping

LEMMA MainFlag == TypeInv /\ Flag /\ MainStep => Flag'
<1>1. ASSUME TypeInv, Flag, Schedule PROVE Flag'
  BY <1>1 DEF Schedule, Flag, Stopping
<1>2. ASSUME TypeInv, Flag, WakeLoop PROVE Flag'
  <2>1. Do("drain") \in Range(ready')
    BY <1>2, QueueType, Callbacks DEF WakeLoop
  <2>2. QED
    BY <1>2, <2>1 DEF WakeLoop, Flag, Stopping, shared
<1>3. ASSUME TypeInv, Flag, StopPending PROVE Flag'
  BY <1>3 DEF StopPending, Flag
<1>4. ASSUME TypeInv, Flag, QueueTeardown PROVE Flag'
  BY <1>4 DEF QueueTeardown, Flag, Stopping, shared
<1>5. ASSUME TypeInv, Flag, Join PROVE Flag'
  BY <1>5 DEF Join, Flag, Stopping, shared
<1>6. QED
  BY <1>1, <1>2, <1>3, <1>4, <1>5 DEF MainStep

\* A hand-over or a completion adds to the ready queue; a callback taken leaves the rest.
LEMMA HandKeeps ==
  ASSUME TypeInv, NEW w \in Workers, ready' = Append(ready, Step(w)), turn' = turn
  PROVE  Range(ready) \subseteq Range(ready')
  BY QueueType, Callbacks

LEMMA LoopFlag ==
  TypeInv /\ Flag /\ (LoopStep \/ \E w \in Workers : Complete(w)) => Flag'
<1>1. ASSUME TypeInv, Flag, Iterate \/ DrainAgain \/ Exit PROVE Flag'
  BY <1>1, FlagKept DEF Iterate, DrainAgain, Exit, Stopping
<1>2. ASSUME TypeInv, Flag, BeginDrain PROVE Flag'
  BY <1>2, FlagKept DEF BeginDrain, Stopping
<1>3. ASSUME TypeInv, Flag, Take PROVE Flag'
  BY <1>3 DEF Take, Flag, Stopping
<1>4. ASSUME TypeInv, Flag, Dispatch PROVE Flag'
  <2>1. Range(ready) \subseteq Range(ready')
    <3>1. turn' = turn
      BY <1>4 DEF Dispatch
    <3>2. CASE ready' = ready
      BY <3>2
    <3>3. ASSUME NEW w \in Workers, ready' = Append(ready, Step(w))
          PROVE Range(ready) \subseteq Range(ready')
      BY <1>4, <3>1, <3>3, HandKeeps
    <3>4. idle # << >> => Head(idle) \in Workers
      BY <1>4, HeadTailProperties DEF TypeInv, TypeOK
    <3>5. QED
      BY <1>4, <3>2, <3>3, <3>4 DEF Dispatch, HandOver, HandTo, Absent
  <2>2. QED
    BY <1>4, <2>1, FlagKept DEF Dispatch, Stopping
<1>5. ASSUME TypeInv, Flag, NEW w \in Workers, StepWorker(w) PROVE Flag'
  <2>1. Range(ready) = {Step(w)} \cup Range(ready')
    BY <1>5, PopType DEF StepWorker
  <2>2. Do("drain") \in Range(ready) => Do("drain") \in Range(ready')
    BY <2>1, Callbacks
  <2>3. QED
    BY <1>5, <2>2, FlagKept DEF StepWorker, Pop, Stopping
<1>6. ASSUME TypeInv, Flag, NEW w \in Workers, NextCoro(w) PROVE Flag'
  BY <1>6, FlagKept DEF NextCoro, Stopping
<1>7. ASSUME TypeInv, Flag, NEW w \in Workers, Complete(w) PROVE Flag'
  <2>1. Range(ready) \subseteq Range(ready')
    BY <1>7, HandKeeps DEF Complete
  <2>2. QED
    BY <1>7, <2>1, FlagKept DEF Complete, Stopping
<1>8. ASSUME TypeInv, Flag, ClosePool \/ Halt PROVE Flag'
  <2>1. Range(ready) = {Head(ready)} \cup Range(ready') /\ Head(ready) \in {Do("close"), Do("halt")}
    BY <1>8, PopType DEF ClosePool, Halt
  <2>2. Do("drain") \in Range(ready) => Do("drain") \in Range(ready')
    BY <2>1, Callbacks
  <2>3. QED
    BY <1>8, <2>2, FlagKept DEF ClosePool, Halt, Pop, Stopping
<1>9. QED
  BY <1>1, <1>2, <1>3, <1>4, <1>5, <1>6, <1>7, <1>8 DEF LoopStep

LEMMA NextFlag == TypeInv /\ Flag /\ [Next]_vars => Flag'
<1>1. Flag /\ UNCHANGED vars => Flag'
  BY DEF vars, Flag, Stopping, shared
<1>2. QED
  BY <1>1, MainFlag, LoopFlag DEF Next, Stopped

-----------------------------------------------------------------------------
(* The pool. *)

Distinct(s) == \A i, j \in 1 .. Len(s) : s[i] = s[j] => i = j

LEMMA DistinctTail ==
  ASSUME NEW S, NEW s \in Seq(S), s # << >>, Distinct(s)
  PROVE  Distinct(Tail(s)) /\ Head(s) \notin Range(Tail(s))
<1> DEFINE t == Tail(s)
<1>1. /\ Len(t) = Len(s) - 1 /\ Len(s) \in Nat \ {0} /\ t \in Seq(S)
      /\ \A i \in 1 .. Len(t) : t[i] = s[i + 1]
      /\ Head(s) = s[1]
  BY HeadTailProperties, EmptySeq
<1>2. DOMAIN t = 1 .. (Len(s) - 1)
  BY <1>1
<1> HIDE DEF t
<1>3. \A i \in 1 .. Len(t) : i + 1 \in 1 .. Len(s) /\ 1 \in 1 .. Len(s) /\ i + 1 # 1
  BY <1>1
<1>4. Head(s) \notin Range(t)
  BY <1>1, <1>2, <1>3 DEF Range, Distinct
<1>5. Distinct(t)
  <2> SUFFICES ASSUME NEW i \in 1 .. Len(t), NEW j \in 1 .. Len(t), t[i] = t[j] PROVE i = j
    BY DEF Distinct
  <2>1. s[i + 1] = s[j + 1] /\ i + 1 \in 1 .. Len(s) /\ j + 1 \in 1 .. Len(s)
    BY <1>1, <1>3
  <2>2. i + 1 = j + 1
    BY <2>1 DEF Distinct
  <2>3. QED
    BY <1>1, <2>2
<1>6. QED
  BY <1>4, <1>5 DEF t

LEMMA DistinctAppend ==
  ASSUME NEW S, NEW s \in Seq(S), NEW e \in S, Distinct(s), e \notin Range(s)
  PROVE  Distinct(Append(s, e))
<1> DEFINE t == Append(s, e)
<1>1. /\ Len(t) = Len(s) + 1 /\ Len(s) \in Nat
      /\ \A i \in 1 .. Len(s) : t[i] = s[i]
      /\ t[Len(s) + 1] = e
  BY AppendProperties
<1>2. \A i \in 1 .. Len(s) : s[i] # e
  BY DEF Range
<1> HIDE DEF t
<1>3. ASSUME NEW i \in 1 .. Len(t), NEW j \in 1 .. Len(t), t[i] = t[j] PROVE i = j
  <2>1. CASE i \in 1 .. Len(s) /\ j \in 1 .. Len(s)
    BY <1>1, <1>3, <2>1 DEF Distinct
  <2>2. CASE i = Len(s) + 1 /\ j = Len(s) + 1
    BY <2>2
  <2>3. CASE \/ i = Len(s) + 1 /\ j \in 1 .. Len(s)
             \/ j = Len(s) + 1 /\ i \in 1 .. Len(s)
    BY <1>1, <1>2, <1>3, <2>3
  <2>4. QED
    BY <1>1, <2>1, <2>2, <2>3
<1>4. QED
  BY <1>3 DEF Distinct, t

\* The queue of the idle is the idle workers, each once.
Pool ==
  /\ BacklogMeansSaturated
  /\ \A w \in Workers : worker[w] = "idle" <=> w \in Range(idle)
  /\ Distinct(idle)

LEMMA InitPool == Init => Pool
  BY RangeEmpty DEF Init, Pool, BacklogMeansSaturated, Distinct

LEMMA DispatchPool == TypeInv /\ Pool /\ Dispatch => Pool'
<1> SUFFICES ASSUME TypeInv, Pool, Dispatch PROVE Pool'
  OBVIOUS
<1> DEFINE c == Head(batch)
<1>1. HandOver(c)
  BY DEF Dispatch
<1>2. worker \in [Workers -> {"absent", "starting", "running", "waking", "idle", "handed", "gone"}]
      /\ idle \in Seq(Workers)
  BY DEF TypeInv, TypeOK
<1> HIDE DEF c
<1>3. CASE idle # << >> /\ HandTo(Head(idle), "handed", c) /\ idle' = Tail(idle) /\ UNCHANGED backlog
  <2> DEFINE h == Head(idle)
  <2>1. /\ h \in Workers /\ Range(idle) = {h} \cup Range(idle')
        /\ h \notin Range(idle') /\ Distinct(idle')
    BY <1>2, <1>3, RangeTail, DistinctTail, HeadTailProperties DEF Pool
  <2>2. worker' = [worker EXCEPT ![h] = "handed"]
    BY <1>3 DEF HandTo
  <2> HIDE DEF h
  <2>3. \A w \in Workers : worker'[w] = "idle" <=> w \in Range(idle')
    BY <1>2, <2>1, <2>2 DEF Pool
  <2>4. backlog' = << >>
    BY <1>2, <1>3, <2>1 DEF Pool, BacklogMeansSaturated
  <2>5. QED
    BY <2>1, <2>3, <2>4 DEF Pool, BacklogMeansSaturated
<1>4. ASSUME NEW w \in Absent, HandTo(w, "starting", c), UNCHANGED <<idle, backlog>> PROVE Pool'
  <2>1. /\ w \in Workers /\ worker[w] = "absent" /\ worker' = [worker EXCEPT ![w] = "starting"]
    BY <1>4 DEF HandTo, Absent
  <2>2. QED
    BY <1>2, <1>4, <2>1 DEF Pool, BacklogMeansSaturated
<1>5. CASE idle = << >> /\ Absent = {} /\ UNCHANGED <<worker, coro, idle, ready>>
  BY <1>5, RangeEmpty DEF Pool, BacklogMeansSaturated, Absent
<1>6. QED
  BY <1>1, <1>3, <1>4, <1>5 DEF HandOver

LEMMA NextCoroPool == ASSUME TypeInv, Pool, NEW w \in Workers, NextCoro(w) PROVE Pool'
<1>1. /\ worker \in [Workers -> {"absent", "starting", "running", "waking", "idle", "handed", "gone"}]
      /\ idle \in Seq(Workers) /\ worker[w] \in {"running", "waking"}
  BY DEF TypeInv, TypeOK, Busy, NextCoro
<1>2. CASE backlog # << >> /\ worker' = [worker EXCEPT ![w] = "running"] /\ UNCHANGED idle
  BY <1>1, <1>2 DEF Pool, BacklogMeansSaturated
<1>3. CASE backlog' = << >> /\ worker' = [worker EXCEPT ![w] = "idle"] /\ idle' = Append(idle, w)
  <2>1. w \notin Range(idle)
    BY <1>1 DEF Pool
  <2>2. Range(idle') = Range(idle) \cup {w} /\ Distinct(idle')
    BY <1>1, <1>3, <2>1, RangeAppend, DistinctAppend DEF Pool
  <2>3. QED
    BY <1>1, <1>3, <2>2 DEF Pool, BacklogMeansSaturated
<1>4. QED
  BY <1>2, <1>3 DEF NextCoro

LEMMA NextPool == TypeInv /\ Pool /\ [Next]_vars => Pool'
<1> SUFFICES ASSUME TypeInv, Pool, [Next]_vars PROVE Pool'
  OBVIOUS
<1>1. worker \in [Workers -> {"absent", "starting", "running", "waking", "idle", "handed", "gone"}]
  BY DEF TypeInv, TypeOK
<1>2. CASE UNCHANGED <<worker, idle, backlog>>
  BY <1>2 DEF Pool, BacklogMeansSaturated
<1>3. ASSUME NEW w \in Workers, StepWorker(w) \/ Complete(w) PROVE Pool'
  BY <1>1, <1>3 DEF StepWorker, Complete, Pool, BacklogMeansSaturated
<1>4. CASE ClosePool
  BY <1>1, <1>4, RangeEmpty DEF ClosePool, Pool, BacklogMeansSaturated, Distinct
<1>5. ASSUME \/ MainStep \/ Iterate \/ BeginDrain \/ Take \/ DrainAgain \/ Halt \/ Exit \/ Stopped
             \/ UNCHANGED vars
      PROVE  UNCHANGED <<worker, idle, backlog>>
  BY <1>5 DEF MainStep, Schedule, WakeLoop, StopPending, QueueTeardown, Join, Iterate, BeginDrain,
     Take, DrainAgain, Halt, Exit, Stopped, vars, pool
<1>6. QED
  BY <1>2, <1>3, <1>4, <1>5, DispatchPool, NextCoroPool DEF Next, LoopStep

-----------------------------------------------------------------------------
(* The order of the teardown. *)

\* The pool is closed before the loop is told to stop, with nothing queued any more.
Ended ==
  /\ batch # << >> => loop = "dispatching"
  /\ Do("close") \in Range(ready) => Stopping
  /\ poolClosing => Stopping /\ backlog = << >> /\ batch = << >>
  /\ main = "halting" => poolClosing \/ Do("close") \in Range(ready)
  /\ \A j \in 1 .. Len(ready) :
       ready[j] = Do("halt") =>
         poolClosing \/ \E k \in 1 .. Len(ready) : k < j /\ ready[k] = Do("close")
  /\ halting => poolClosing
  /\ loop = "exited" => halting
  /\ main = "stopped" => loop = "exited"

LEMMA InitEnded == Init => Ended
  BY RangeEmpty DEF Init, Ended

\* Once main is stopping, nothing is queued.
LEMMA NothingQueued == Flag /\ Stopping => pending = << >> /\ calls = << >>
  BY DEF Flag

\* The ready queue as the teardown sees it, after a step that adds another callback to it.
LEMMA ReadyGrows ==
  ASSUME TypeInv, Ended, NEW c \in Callback, ready' = Append(ready, c), turn' = turn,
         poolClosing' = poolClosing, c # Do("halt")
  PROVE  /\ Range(ready') = Range(ready) \cup {c}
         /\ \A j \in 1 .. Len(ready') :
              ready'[j] = Do("halt") =>
                poolClosing' \/ \E k \in 1 .. Len(ready') : k < j /\ ready'[k] = Do("close")
<1>1. /\ Range(ready') = Range(ready) \cup {c}
      /\ Len(ready') = Len(ready) + 1 /\ Len(ready) \in Nat
      /\ \A i \in 1 .. Len(ready) : ready'[i] = ready[i]
      /\ ready'[Len(ready) + 1] = c
  BY QueueType
<1>2. ASSUME NEW j \in 1 .. Len(ready'), ready'[j] = Do("halt"), ~poolClosing'
      PROVE  \E k \in 1 .. Len(ready') : k < j /\ ready'[k] = Do("close")
  <2>1. j \in 1 .. Len(ready)
    BY <1>1, <1>2
  <2>2. ready[j] = Do("halt")
    BY <1>1, <1>2, <2>1
  <2>3. PICK k \in 1 .. Len(ready) : k < j /\ ready[k] = Do("close")
    BY <1>2, <2>1, <2>2 DEF Ended
  <2>4. k \in 1 .. Len(ready') /\ ready'[k] = Do("close")
    BY <1>1, <2>3
  <2>5. QED
    BY <2>3, <2>4
<1>3. QED
  BY <1>1, <1>2

\* The same after a step that takes a callback other than the pool's closing.
LEMMA ReadyShrinks ==
  ASSUME TypeInv, Ended, Pop, Head(ready) # Do("close"), poolClosing' = poolClosing
  PROVE  /\ Range(ready) = {Head(ready)} \cup Range(ready')
         /\ \A j \in 1 .. Len(ready') :
              ready'[j] = Do("halt") =>
                poolClosing' \/ \E k \in 1 .. Len(ready') : k < j /\ ready'[k] = Do("close")
<1>1. /\ Range(ready) = {Head(ready)} \cup Range(ready')
      /\ Len(ready') = Len(ready) - 1 /\ Len(ready) \in Nat
      /\ \A i \in 1 .. Len(ready') : ready'[i] = ready[i + 1]
      /\ Head(ready) = ready[1]
  BY PopType
<1>2. ASSUME NEW j \in 1 .. Len(ready'), ready'[j] = Do("halt"), ~poolClosing'
      PROVE  \E k \in 1 .. Len(ready') : k < j /\ ready'[k] = Do("close")
  <2>1. j + 1 \in 1 .. Len(ready) /\ ready[j + 1] = Do("halt")
    BY <1>1, <1>2
  <2>2. PICK k \in 1 .. Len(ready) : k < j + 1 /\ ready[k] = Do("close")
    BY <1>2, <2>1 DEF Ended
  <2>3. k # 1
    BY <1>1, <2>2
  <2>4. k - 1 \in 1 .. Len(ready') /\ k - 1 < j
    BY <1>1, <2>2, <2>3
  <2>5. ready'[k - 1] = Do("close")
    <3>1. (k - 1) + 1 = k
      BY <2>2
    <3>2. QED
      BY <1>1, <2>2, <2>4, <3>1
  <2>6. QED
    BY <2>4, <2>5
<1>3. QED
  BY <1>1, <1>2

LEMMA MainEnded == TypeInv /\ Flag /\ Ended /\ MainStep => Ended'
<1>1. ASSUME TypeInv, Ended, Schedule \/ StopPending PROVE Ended'
  BY <1>1 DEF Schedule, StopPending, Ended, Stopping, pool
<1>2. ASSUME TypeInv, Ended, WakeLoop PROVE Ended'
  <2>1. /\ Range(ready') = Range(ready) \cup {Do("drain")}
        /\ \A j \in 1 .. Len(ready') :
             ready'[j] = Do("halt") =>
               poolClosing' \/ \E k \in 1 .. Len(ready') : k < j /\ ready'[k] = Do("close")
    BY <1>2, ReadyGrows, Callbacks DEF WakeLoop
  <2>2. Do("close") \in Range(ready') => Do("close") \in Range(ready)
    BY <2>1, Callbacks
  <2>3. QED
    BY <1>2, <2>1, <2>2 DEF WakeLoop, Ended, Stopping, pool
<1>3. ASSUME TypeInv, Ended, QueueTeardown, main = "closing" PROVE Ended'
  <2>1. /\ Range(ready') = Range(ready) \cup {Do("close")}
        /\ \A j \in 1 .. Len(ready') :
             ready'[j] = Do("halt") =>
               poolClosing' \/ \E k \in 1 .. Len(ready') : k < j /\ ready'[k] = Do("close")
    BY <1>3, ReadyGrows, Callbacks DEF QueueTeardown
  <2>2. QED
    BY <1>3, <2>1 DEF QueueTeardown, Ended, Stopping, pool
<1>4. ASSUME TypeInv, Ended, QueueTeardown, main = "halting" PROVE Ended'
  <2>1. /\ Range(ready') = Range(ready) \cup {Do("halt")}
        /\ Len(ready') = Len(ready) + 1 /\ Len(ready) \in Nat
        /\ \A i \in 1 .. Len(ready) : ready'[i] = ready[i]
    BY <1>4, QueueType, Callbacks DEF QueueTeardown
  <2>2. ASSUME NEW j \in 1 .. Len(ready'), ready'[j] = Do("halt"), ~poolClosing'
        PROVE  \E k \in 1 .. Len(ready') : k < j /\ ready'[k] = Do("close")
    <3>1. ~poolClosing
      BY <1>4, <2>2 DEF QueueTeardown
    <3>2. CASE j \in 1 .. Len(ready)
      <4>1. ready[j] = Do("halt")
        BY <2>1, <2>2, <3>2
      <4>2. PICK k \in 1 .. Len(ready) : k < j /\ ready[k] = Do("close")
        BY <1>4, <3>1, <3>2, <4>1 DEF Ended
      <4>3. k \in 1 .. Len(ready') /\ ready'[k] = Do("close")
        BY <2>1, <4>2
      <4>4. QED
        BY <4>2, <4>3
    <3>3. CASE j = Len(ready) + 1
      <4>1. Do("close") \in Range(ready)
        BY <1>4, <3>1 DEF Ended
      <4>2. DOMAIN ready = 1 .. Len(ready)
        BY <1>4 DEF TypeInv, TypeOK
      <4>3. PICK k \in 1 .. Len(ready) : ready[k] = Do("close")
        BY <4>1, <4>2 DEF Range
      <4>4. k \in 1 .. Len(ready') /\ k < j /\ ready'[k] = Do("close")
        BY <2>1, <3>3, <4>3
      <4>5. QED
        BY <4>4
    <3>4. QED
      BY <2>1, <3>2, <3>3
  <2>3. Do("close") \in Range(ready') => Do("close") \in Range(ready)
    BY <2>1, Callbacks
  <2>4. QED
    BY <1>4, <2>2, <2>3 DEF QueueTeardown, Ended, Stopping, pool
<1>5. ASSUME TypeInv, Ended, Join PROVE Ended'
  BY <1>5 DEF Join, Ended, Stopping, pool
<1>6. QED
  BY <1>1, <1>2, <1>3, <1>4, <1>5 DEF MainStep, QueueTeardown

LEMMA LoopEnded ==
  TypeInv /\ Flag /\ Ended /\ (LoopStep \/ \E w \in Workers : Complete(w)) => Ended'
<1>1. ASSUME TypeInv, Ended, Iterate \/ DrainAgain \/ Exit PROVE Ended'
  BY <1>1 DEF Iterate, DrainAgain, Exit, Ended, Stopping, pool
<1>2. ASSUME TypeInv, Ended, BeginDrain PROVE Ended'
  <2>1. /\ Range(ready) = {Do("drain")} \cup Range(ready')
        /\ \A j \in 1 .. Len(ready') :
             ready'[j] = Do("halt") =>
               poolClosing' \/ \E k \in 1 .. Len(ready') : k < j /\ ready'[k] = Do("close")
    BY <1>2, ReadyShrinks, Callbacks DEF BeginDrain
  <2>2. Do("close") \in Range(ready') <=> Do("close") \in Range(ready)
    BY <2>1, Callbacks
  <2>3. QED
    BY <1>2, <2>1, <2>2 DEF BeginDrain, Pop, Ended, Stopping, pool
<1>3. ASSUME TypeInv, Flag, Ended, Take PROVE Ended'
  <2>1. Stopping => pending = << >> /\ calls = << >>
    BY <1>3, NothingQueued
  <2>2. UNCHANGED <<main, ready, poolClosing, halting, backlog>> /\ loop = "taking"
    BY <1>3 DEF Take, pool
  <2>3. \/ batch' = batch /\ loop' = "idle"
        \/ batch' = pending /\ loop' = "dispatching"
    BY <1>3 DEF Take
  <2>4. batch = << >>
    BY <1>3, <2>2 DEF Ended
  <2>5. QED
    BY <1>3, <2>1, <2>2, <2>3, <2>4 DEF Ended, Stopping
<1>4. ASSUME TypeInv, Ended, Dispatch PROVE Ended'
  <2>1. /\ UNCHANGED <<main, loop, poolClosing, halting, turn>> /\ loop = "dispatching" /\ batch # << >>
        /\ ~poolClosing
    BY <1>4 DEF Dispatch, Ended
  <2>2. /\ Do("close") \in Range(ready') <=> Do("close") \in Range(ready)
        /\ \A j \in 1 .. Len(ready') :
             ready'[j] = Do("halt") =>
               poolClosing' \/ \E k \in 1 .. Len(ready') : k < j /\ ready'[k] = Do("close")
    <3>1. CASE ready' = ready
      BY <1>4, <2>1, <3>1 DEF Ended
    <3>2. ASSUME NEW w \in Workers, ready' = Append(ready, Step(w))
          PROVE  /\ Do("close") \in Range(ready') <=> Do("close") \in Range(ready)
                 /\ \A j \in 1 .. Len(ready') :
                      ready'[j] = Do("halt") =>
                        poolClosing' \/ \E k \in 1 .. Len(ready') : k < j /\ ready'[k] = Do("close")
      BY <1>4, <2>1, <3>2, ReadyGrows, Callbacks
    <3>3. idle # << >> => Head(idle) \in Workers
      BY <1>4, HeadTailProperties DEF TypeInv, TypeOK
    <3>4. QED
      BY <1>4, <3>1, <3>2, <3>3 DEF Dispatch, HandOver, HandTo, Absent
  <2>3. QED
    BY <1>4, <2>1, <2>2 DEF Ended, Stopping
<1>5. ASSUME TypeInv, Ended, NEW w \in Workers, StepWorker(w) PROVE Ended'
  <2>1. /\ Range(ready) = {Step(w)} \cup Range(ready')
        /\ \A j \in 1 .. Len(ready') :
             ready'[j] = Do("halt") =>
               poolClosing' \/ \E k \in 1 .. Len(ready') : k < j /\ ready'[k] = Do("close")
    BY <1>5, ReadyShrinks, Callbacks DEF StepWorker
  <2>2. Do("close") \in Range(ready') <=> Do("close") \in Range(ready)
    BY <2>1, Callbacks
  <2>3. QED
    BY <1>5, <2>1, <2>2 DEF StepWorker, Pop, Ended, Stopping
<1>6. ASSUME TypeInv, Ended, NEW w \in Workers, NextCoro(w) PROVE Ended'
  <2>1. /\ UNCHANGED <<main, ready, batch, poolClosing, halting>> /\ loop = "advancing"
        /\ loop' \in {"idle", "advancing"}
        /\ backlog = << >> => backlog' = << >>
    BY <1>6 DEF NextCoro
  <2>2. QED
    BY <1>6, <2>1 DEF Ended, Stopping
<1>7. ASSUME TypeInv, Ended, NEW w \in Workers, Complete(w) PROVE Ended'
  <2>1. /\ Do("close") \in Range(ready') <=> Do("close") \in Range(ready)
        /\ \A j \in 1 .. Len(ready') :
             ready'[j] = Do("halt") =>
               poolClosing' \/ \E k \in 1 .. Len(ready') : k < j /\ ready'[k] = Do("close")
    BY <1>7, ReadyGrows, Callbacks DEF Complete
  <2>2. QED
    BY <1>7, <2>1 DEF Complete, Ended, Stopping
<1>8. ASSUME TypeInv, Ended, ClosePool PROVE Ended'
  <2>1. Range(ready) = {Do("close")} \cup Range(ready')
    BY <1>8, PopType DEF ClosePool
  <2>2. Stopping /\ batch = << >>
    BY <1>8, <2>1 DEF ClosePool, Pop, Ended
  <2>3. QED
    BY <1>8, <2>1, <2>2 DEF ClosePool, Pop, Ended, Stopping
<1>9. ASSUME TypeInv, Ended, Halt PROVE Ended'
  <2>1. /\ Range(ready) = {Do("halt")} \cup Range(ready')
        /\ \A j \in 1 .. Len(ready') :
             ready'[j] = Do("halt") =>
               poolClosing' \/ \E k \in 1 .. Len(ready') : k < j /\ ready'[k] = Do("close")
    BY <1>9, ReadyShrinks, Callbacks DEF Halt
  <2>2. Do("close") \in Range(ready') <=> Do("close") \in Range(ready)
    BY <2>1, Callbacks
  <2>3. poolClosing
    <3>1. Len(ready) \in Nat /\ ready # << >> /\ ready[1] = Do("halt") /\ Len(ready') = Len(ready) - 1
          /\ turn' \in 0 .. Len(ready')
      BY <1>9, PopType DEF Halt
    <3>2. 1 \in 1 .. Len(ready) /\ ~(\E k \in 1 .. Len(ready) : k < 1)
      BY <3>1
    <3>3. QED
      BY <1>9, <3>1, <3>2 DEF Ended
  <2>4. QED
    BY <1>9, <2>1, <2>2, <2>3 DEF Halt, Pop, Ended, Stopping, pool
<1>10. QED
  BY <1>1, <1>2, <1>3, <1>4, <1>5, <1>6, <1>7, <1>8, <1>9 DEF LoopStep

LEMMA NextEnded == TypeInv /\ Flag /\ Ended /\ [Next]_vars => Ended'
<1>1. Ended /\ UNCHANGED vars => Ended'
  BY DEF vars, Ended, Stopping, pool
<1>2. QED
  BY <1>1, MainEnded, LoopEnded DEF Next, Stopped

\* Once the pool is closed, no worker has anything to enter.
Cancelled == poolClosing => \A w \in Workers : worker[w] \in {"absent", "gone"}

LEMMA NextCancelled == TypeInv /\ Ended /\ Cancelled /\ [Next]_vars => Cancelled'
<1> SUFFICES ASSUME TypeInv, Ended, Cancelled, [Next]_vars PROVE Cancelled'
  OBVIOUS
<1>1. worker \in [Workers -> {"absent", "starting", "running", "waking", "idle", "handed", "gone"}]
  BY DEF TypeInv, TypeOK
<1>2. CASE ClosePool
  BY <1>1, <1>2 DEF ClosePool, Cancelled
<1>3. CASE Dispatch
  BY <1>3 DEF Dispatch, Ended, Cancelled
<1>4. ASSUME NEW w \in Workers, StepWorker(w) \/ Complete(w) PROVE Cancelled'
  BY <1>1, <1>4 DEF StepWorker, Complete, Cancelled
<1>5. ASSUME NEW w \in Workers, NextCoro(w) PROVE Cancelled'
  <2>1. worker[w] \in {"running", "waking"} /\ poolClosing' = poolClosing
    BY <1>5 DEF NextCoro, TypeInv, Busy
  <2>2. QED
    BY <2>1 DEF Cancelled
<1>6. ASSUME \/ MainStep \/ Iterate \/ BeginDrain \/ Take \/ DrainAgain \/ Halt \/ Exit \/ Stopped
             \/ UNCHANGED vars
      PROVE  Cancelled'
  BY <1>6 DEF MainStep, Schedule, WakeLoop, StopPending, QueueTeardown, Join, Iterate, BeginDrain,
     Take, DrainAgain, Halt, Exit, Stopped, vars, pool, Cancelled
<1>7. QED
  BY <1>2, <1>3, <1>4, <1>5, <1>6 DEF Next, LoopStep

-----------------------------------------------------------------------------
(* Where each item is. *)

\* What a worker holds that it has not entered: for good, once it is cancelled.
Held(w, i) == worker[w] \in {"starting", "handed", "gone"} /\ coro[w] = i

Placed(i) ==
  \/ i \in Range(pending) \cup Range(calls) \cup Range(batch) \cup Range(backlog)
  \/ i \in Range(started) \cup closed
  \/ \E w \in Workers : Held(w, i)

Traced == \A i \in 1 .. next - 1 : Placed(i)

LEMMA InitTraced == Init => Traced
  BY DEF Init, Traced

\* A step that takes no item out of its place.
LEMMA TracedKept ==
  ASSUME Traced, next' = next,
         Range(pending) \cup Range(calls) \cup Range(batch) \cup Range(backlog)
            \cup Range(started) \cup closed
           \subseteq Range(pending') \cup Range(calls') \cup Range(batch') \cup Range(backlog')
            \cup Range(started') \cup closed',
         \A w \in Workers, i \in 1 .. next - 1 :
           Held(w, i) => \/ Held(w, i)'
                        \/ i \in Range(started')
  PROVE  Traced'
<1> SUFFICES ASSUME NEW i \in 1 .. next - 1 PROVE Placed(i)'
  BY DEF Traced
<1>1. Placed(i)
  BY DEF Traced
<1>2. QED
  BY <1>1 DEF Placed

LEMMA ScheduleTraced == TypeInv /\ Traced /\ Schedule => Traced'
<1> SUFFICES ASSUME TypeInv, Traced, Schedule PROVE Traced'
  OBVIOUS
<1>1. /\ UNCHANGED <<batch, backlog, worker, coro, started, closed>> /\ next' = next + 1
      /\ next \in Nat /\ next \in 1 .. Items
  BY Numbers DEF Schedule, TypeInv, TypeOK, pool
<1>2. /\ Range(pending) \cup Range(calls) \subseteq Range(pending') \cup Range(calls')
      /\ next \in Range(pending') \cup Range(calls')
  <2>1. CASE next \in Calls
    <3>1. calls \in Seq(Calls) /\ calls' = Append(calls, next) /\ pending' = pending
      BY <2>1 DEF Schedule, TypeInv, TypeOK
    <3>2. Range(calls') = Range(calls) \cup {next}
      BY <2>1, <3>1, RangeAppend
    <3>3. QED
      BY <3>1, <3>2
  <2>2. CASE next \notin Calls
    <3>1. pending \in Seq(Coros) /\ pending' = Append(pending, next) /\ calls' = calls
      BY <2>2 DEF Schedule, TypeInv, TypeOK
    <3>2. next \in Coros
      BY <1>1, <2>2 DEF Coros
    <3>3. Range(pending') = Range(pending) \cup {next}
      BY <3>1, <3>2, RangeAppend
    <3>4. QED
      BY <3>1, <3>3
  <2>3. QED
    BY <2>1, <2>2
<1>3. ASSUME NEW i \in 1 .. next' - 1 PROVE Placed(i)'
  <2>1. i \in 1 .. next - 1 \/ i = next
    BY <1>1
  <2>2. CASE i = next
    BY <1>2, <2>2 DEF Placed
  <2>3. CASE i \in 1 .. next - 1
    BY <1>1, <1>2, <2>3 DEF Traced, Placed, Held
  <2>4. QED
    BY <2>1, <2>2, <2>3
<1>4. QED
  BY <1>3 DEF Traced

LEMMA TakeTraced == TypeInv /\ Flag /\ Ended /\ Traced /\ Take => Traced'
<1> SUFFICES ASSUME TypeInv, Ended, Traced, Take PROVE Traced'
  OBVIOUS
<1>1. /\ UNCHANGED <<next, backlog, worker, coro, closed>> /\ batch = << >>
  BY DEF Take, Ended, pool
<1>2. \/ UNCHANGED <<pending, calls, batch, started>>
      \/ started' = started \o calls /\ batch' = pending
  BY DEF Take
<1>3. Range(started \o calls) = Range(started) \cup Range(calls)
  <2>1. calls \in Seq(1 .. Items) /\ started \in Seq(1 .. Items)
    BY Numbers, SeqMonotonic DEF TypeInv, TypeOK
  <2>2. QED
    BY <2>1, RangeConcat
<1>4. Range(pending) \cup Range(calls) \cup Range(batch) \cup Range(started)
        \subseteq Range(pending') \cup Range(calls') \cup Range(batch') \cup Range(started')
  BY <1>1, <1>2, <1>3, RangeEmpty
<1>5. \A w \in Workers, i \in 1 .. next - 1 : Held(w, i) => Held(w, i)'
  BY <1>1 DEF Held
<1>6. QED
  BY <1>1, <1>4, <1>5, TracedKept

LEMMA DispatchTraced == TypeInv /\ Pool /\ Traced /\ Dispatch => Traced'
<1> SUFFICES ASSUME TypeInv, Pool, Traced, Dispatch PROVE Traced'
  OBVIOUS
<1> DEFINE c == Head(batch)
<1>1. /\ UNCHANGED <<next, pending, calls, started, closed>>
      /\ HandOver(c) /\ batch' = Tail(batch) /\ batch # << >>
  BY DEF Dispatch, shared
<1>2. /\ c \in Coros /\ Range(batch) = {c} \cup Range(batch')
      /\ worker \in [Workers -> {"absent", "starting", "running", "waking", "idle", "handed", "gone"}]
      /\ coro \in [Workers -> Coros \cup {None}]
      /\ backlog \in Seq(Coros) /\ idle \in Seq(Workers)
  BY <1>1, HeadTailProperties, RangeTail DEF TypeInv, TypeOK
<1> HIDE DEF c
<1>3. ASSUME NEW w \in Workers, worker[w] \in {"absent", "idle"}, NEW how \in {"starting", "handed"},
             HandTo(w, how, c), backlog' = backlog
      PROVE  Traced'
  <2>1. /\ worker' = [worker EXCEPT ![w] = how] /\ coro' = [coro EXCEPT ![w] = c]
    BY <1>3 DEF HandTo
  <2>2. worker'[w] \in {"starting", "handed", "gone"} /\ coro'[w] = c
    BY <1>2, <2>1
  <2>3. \A v \in Workers, i \in 1 .. next - 1 : Held(v, i) => Held(v, i)'
    BY <1>2, <1>3, <2>1 DEF Held
  <2>4. ASSUME NEW i \in 1 .. next - 1 PROVE Placed(i)'
    <3>1. Placed(i)
      BY DEF Traced
    <3>2. CASE i = c
      BY <2>2, <3>2 DEF Placed, Held
    <3>3. CASE i # c
      <4>1. CASE i \in Range(pending) \cup Range(calls) \cup Range(batch) \cup Range(backlog)
                         \cup Range(started) \cup closed
        <5>1. i \in Range(pending) \cup Range(calls) \cup Range(batch') \cup Range(backlog)
                     \cup Range(started) \cup closed
          BY <1>2, <3>3, <4>1
        <5>2. QED
          BY <1>1, <1>3, <5>1 DEF Placed
      <4>2. CASE \E v \in Workers : Held(v, i)
        <5>1. \E v \in Workers : Held(v, i)'
          BY <2>3, <4>2
        <5>2. QED
          BY <5>1 DEF Placed
      <4>3. QED
        BY <3>1, <4>1, <4>2 DEF Placed
    <3>4. QED
      BY <3>2, <3>3
  <2>5. QED
    BY <1>1, <2>4 DEF Traced
<1>4. CASE backlog' = Append(backlog, c) /\ UNCHANGED <<worker, coro, idle, ready>>
  <2>1. Range(backlog') = Range(backlog) \cup {c}
    BY <1>2, <1>4, RangeAppend
  <2>2. \A v \in Workers, i \in 1 .. next - 1 : Held(v, i) => Held(v, i)'
    BY <1>4 DEF Held
  <2>3. QED
    BY <1>1, <1>2, <2>1, <2>2, TracedKept
<1>5. idle # << >> => Head(idle) \in Workers /\ worker[Head(idle)] = "idle"
  BY <1>2, RangeTail, HeadTailProperties DEF Pool
<1>6. QED
  BY <1>1, <1>3, <1>4, <1>5 DEF HandOver, Absent

LEMMA Begins ==
  ASSUME TypeInv, NEW i \in 1 .. Items
  PROVE  Range(Append(started, i)) = Range(started) \cup {i}
<1> DEFINE S == 1 .. Items
<1>1. started \in Seq(S) /\ i \in S
  BY DEF TypeInv, TypeOK
<1> HIDE DEF S
<1>2. QED
  BY <1>1, RangeAppend

LEMMA WorkerTraced ==
  ASSUME TypeInv, Traced, NEW w \in Workers, StepWorker(w) \/ NextCoro(w) \/ Complete(w)
  PROVE  Traced'
<1>1. /\ worker \in [Workers -> {"absent", "starting", "running", "waking", "idle", "handed", "gone"}]
      /\ coro \in [Workers -> Coros \cup {None}]
      /\ backlog \in Seq(Coros) /\ started \in Seq(1 .. Items)
      /\ UNCHANGED <<next, pending, calls, batch, closed>>
  BY DEF TypeInv, TypeOK, StepWorker, NextCoro, Complete, shared
<1>2. CASE StepWorker(w)
  <2>1. CASE worker[w] \in {"starting", "handed"} /\ started' = Append(started, coro[w])
             /\ worker' = [worker EXCEPT ![w] = "running"]
    <3>1. coro[w] \in 1 .. Items
      BY <2>1, Numbers DEF TypeInv, Hands
    <3>2. Range(started') = Range(started) \cup {coro[w]}
      BY <2>1, <3>1, Begins
    <3>3. \A v \in Workers, i \in 1 .. next - 1 : Held(v, i) => Held(v, i)' \/ i \in Range(started')
      BY <1>1, <1>2, <2>1, <3>2 DEF Held, StepWorker
    <3>4. QED
      BY <1>1, <1>2, <3>2, <3>3, TracedKept DEF StepWorker
  <2>2. CASE UNCHANGED <<started, worker>>
    <3>1. \A v \in Workers, i \in 1 .. next - 1 : Held(v, i) => Held(v, i)'
      BY <1>2, <2>2 DEF Held, StepWorker
    <3>2. QED
      BY <1>1, <1>2, <2>2, <3>1, TracedKept DEF StepWorker
  <2>3. QED
    BY <1>2, <2>1, <2>2 DEF StepWorker
<1>3. CASE NextCoro(w)
  <2>1. worker[w] \in {"running", "waking"}
    BY <1>3 DEF NextCoro, TypeInv, Busy
  <2>2. ASSUME NEW how \in {"running", "idle"}, NEW x, worker' = [worker EXCEPT ![w] = how],
               coro' = [coro EXCEPT ![w] = x]
        PROVE  \A v \in Workers, i \in 1 .. next - 1 : Held(v, i) => Held(v, i)'
    BY <1>1, <2>1, <2>2 DEF Held
  <2>3. CASE /\ backlog # << >> /\ coro' = [coro EXCEPT ![w] = Head(backlog)]
             /\ started' = Append(started, Head(backlog)) /\ backlog' = Tail(backlog)
             /\ worker' = [worker EXCEPT ![w] = "running"]
    <3>1. /\ Head(backlog) \in 1 .. Items
          /\ Range(backlog) = {Head(backlog)} \cup Range(backlog')
      BY <1>1, <2>3, Numbers, HeadTailProperties, RangeTail
    <3>2. Range(started') = Range(started) \cup {Head(backlog)}
      BY <2>3, <3>1, Begins
    <3>3. QED
      BY <1>1, <2>2, <2>3, <3>1, <3>2, TracedKept
  <2>4. CASE /\ worker' = [worker EXCEPT ![w] = "idle"] /\ coro' = [coro EXCEPT ![w] = None]
             /\ UNCHANGED <<backlog, started>>
    BY <1>1, <2>2, <2>4, TracedKept
  <2>5. QED
    BY <1>3, <2>3, <2>4 DEF NextCoro
<1>4. CASE Complete(w)
  <2>1. \A v \in Workers, i \in 1 .. next - 1 : Held(v, i) => Held(v, i)'
    BY <1>1, <1>4 DEF Complete, Held
  <2>2. QED
    BY <1>1, <1>4, <2>1, TracedKept DEF Complete
<1>5. QED
  BY <1>2, <1>3, <1>4

LEMMA NextTraced == TypeInv /\ Flag /\ Pool /\ Ended /\ Traced /\ [Next]_vars => Traced'
<1> SUFFICES ASSUME TypeInv, Flag, Pool, Ended, Traced, [Next]_vars PROVE Traced'
  OBVIOUS
<1>1. CASE StopPending
  <2>1. \A v \in Workers, i \in 1 .. next - 1 : Held(v, i) => Held(v, i)'
    BY <1>1 DEF StopPending, Held, pool
  <2>2. QED
    BY <1>1, <2>1, TracedKept DEF StopPending, pool
<1>2. CASE ClosePool
  <2>1. \A v \in Workers, i \in 1 .. next - 1 : Held(v, i) => Held(v, i)'
    BY <1>2 DEF ClosePool, Held
  <2>2. QED
    BY <1>2, <2>1, TracedKept DEF ClosePool, shared
<1>3. ASSUME \/ WakeLoop \/ QueueTeardown \/ Join \/ Iterate \/ BeginDrain \/ DrainAgain
             \/ Halt \/ Exit \/ Stopped \/ UNCHANGED vars
      PROVE  Traced'
  <2>1. UNCHANGED <<next, pending, calls, batch, backlog, started, closed, worker, coro>>
    BY <1>3 DEF WakeLoop, QueueTeardown, Join, Iterate, BeginDrain, DrainAgain, Halt, Exit, Stopped,
       vars, shared, pool
  <2>2. QED
    BY <2>1 DEF Traced, Placed, Held
<1>4. QED
  BY <1>1, <1>2, <1>3, ScheduleTraced, TakeTraced, DispatchTraced, WorkerTraced
     DEF Next, MainStep, LoopStep

-----------------------------------------------------------------------------
(* Every item in one place. *)

\* A queue holds at most as many items as it has places, and as many if they differ.
LEMMA RangeCount ==
  ASSUME NEW S, NEW s \in Seq(S)
  PROVE  /\ IsFiniteSet(Range(s)) /\ Cardinality(Range(s)) \in Nat /\ Len(s) \in Nat
         /\ Cardinality(Range(s)) <= Len(s)
         /\ Distinct(s) => Cardinality(Range(s)) = Len(s)
<1> DEFINE places == 1 .. Len(s)
<1>1. s \in [places -> S] /\ Len(s) \in Nat
  OBVIOUS
<1>2. IsFiniteSet(places) /\ Cardinality(places) = Len(s)
  <2>1. \A n \in Nat : IsFiniteSet(1 .. n) /\ Cardinality(1 .. n) = n
    BY FS_Interval
  <2>2. QED
    BY <1>1, <2>1
<1>3. Distinct(s) => \A i, j \in places : s[i] = s[j] => i = j
  BY DEF Distinct
<1> HIDE DEF places
<1>4. s \in Surjection(places, Range(s))
  BY <1>1, Fun_RangeProperties
<1>5. /\ IsFiniteSet(Range(s)) /\ Cardinality(Range(s)) <= Cardinality(places)
      /\ Cardinality(Range(s)) = Cardinality(places) <=> s \in Injection(places, Range(s))
  BY <1>2, <1>4, FS_Surjection
<1>6. Distinct(s) => s \in Injection(places, Range(s))
  BY <1>3, <1>4 DEF Surjection, Injection, IsInjective
<1>7. QED
  BY <1>1, <1>2, <1>5, <1>6, FS_CardinalityType

LEMMA UnionAtMost ==
  ASSUME NEW A, NEW B, IsFiniteSet(A), IsFiniteSet(B)
  PROVE  /\ IsFiniteSet(A \cup B)
         /\ Cardinality(A \cup B) \in Nat /\ Cardinality(A) \in Nat /\ Cardinality(B) \in Nat
         /\ Cardinality(A \cup B) <= Cardinality(A) + Cardinality(B)
<1>1. /\ IsFiniteSet(A \cup B)
      /\ Cardinality(A \cup B) = Cardinality(A) + Cardinality(B) - Cardinality(A \cap B)
  BY FS_Union
<1>2. IsFiniteSet(A \cap B)
  BY FS_Intersection
<1>3. /\ Cardinality(A) \in Nat /\ Cardinality(B) \in Nat /\ Cardinality(A \cap B) \in Nat
      /\ Cardinality(A \cup B) \in Nat
  BY <1>1, <1>2, FS_CardinalityType
<1>4. QED
  BY <1>1, <1>3

Holders == {w \in Workers : worker[w] \in {"starting", "handed"}}

Everywhere ==
  Range(pending) \cup Range(calls) \cup Range(batch) \cup Range(backlog) \cup InHand
    \cup Range(started) \cup closed

Total ==
  Len(pending) + Len(calls) + Len(batch) + Len(backlog) + Cardinality(InHand) + Len(started)
    + Cardinality(closed)

\* The places hold what was scheduled, all of it, and together no more than that: then
\* no item is in two of them, nor twice in one.
Counted ==
  ~poolClosing =>
    /\ 1 .. next - 1 = Everywhere /\ next - 1 = Total
    /\ \A v, w \in Holders : coro[v] = coro[w] => v = w
    /\ Distinct(pending) /\ Distinct(calls)
    /\ \A w \in Workers : worker[w] # "gone"

\* Nothing is closed but by stop.
ClosedByStop == closed # {} => Stopping

LEMMA HandIsHolders == InHand = {coro[w] : w \in Holders}
  BY DEF InHand, Holders

LEMMA Sizes ==
  ASSUME TypeInv
  PROVE  /\ Len(pending) \in Nat /\ Len(calls) \in Nat /\ Len(batch) \in Nat /\ Len(backlog) \in Nat
         /\ Len(started) \in Nat /\ Cardinality(InHand) \in Nat /\ Cardinality(closed) \in Nat
         /\ IsFiniteSet(InHand) /\ IsFiniteSet(closed) /\ next \in Nat /\ next >= 1
<1>1. /\ Len(pending) \in Nat /\ Len(calls) \in Nat /\ Len(batch) \in Nat /\ Len(backlog) \in Nat
      /\ Len(started) \in Nat /\ next \in Nat /\ next >= 1
  BY Numbers DEF TypeInv, TypeOK
<1>2. InHand \subseteq 1 .. Items /\ closed \subseteq 1 .. Items
  BY Numbers DEF TypeInv, TypeOK, Hands, InHand
<1>3. IsFiniteSet(1 .. Items)
  BY Numbers, FS_Interval
<1>4. IsFiniteSet(InHand) /\ IsFiniteSet(closed)
  BY <1>2, <1>3, FS_Subset
<1>5. QED
  BY <1>1, <1>4, FS_CardinalityType

\* What the drainer is about to hand over is in nobody's hand: there would be too few
\* places for all that was scheduled.
LEMMA NotInHand ==
  ASSUME TypeInv, Counted, ~poolClosing, batch # << >>
  PROVE  Head(batch) \notin InHand
<1> DEFINE rest == Tail(batch)
<1>1. SUFFICES ASSUME Head(batch) \in InHand PROVE FALSE
  OBVIOUS
<1>2. /\ pending \in Seq(Coros) /\ calls \in Seq(Calls) /\ batch \in Seq(Coros) /\ backlog \in Seq(Coros)
      /\ started \in Seq(1 .. Items)
  BY DEF TypeInv, TypeOK
<1>3. /\ rest \in Seq(Coros) /\ Len(rest) = Len(batch) - 1 /\ Range(batch) = {Head(batch)} \cup Range(rest)
  BY <1>2, HeadTailProperties, RangeTail
<1> HIDE DEF rest
<1>4. /\ IsFiniteSet(Range(pending)) /\ Cardinality(Range(pending)) \in 0 .. Len(pending)
      /\ IsFiniteSet(Range(calls)) /\ Cardinality(Range(calls)) \in 0 .. Len(calls)
      /\ IsFiniteSet(Range(rest)) /\ Cardinality(Range(rest)) \in 0 .. Len(rest) /\ Len(rest) \in Nat
      /\ IsFiniteSet(Range(backlog)) /\ Cardinality(Range(backlog)) \in 0 .. Len(backlog)
      /\ IsFiniteSet(Range(started)) /\ Cardinality(Range(started)) \in 0 .. Len(started)
  BY <1>2, <1>3, RangeCount
<1>5. /\ Len(pending) \in Nat /\ Len(calls) \in Nat /\ Len(batch) \in Nat /\ Len(backlog) \in Nat
      /\ Len(started) \in Nat /\ Cardinality(InHand) \in Nat /\ Cardinality(closed) \in Nat
      /\ IsFiniteSet(InHand) /\ IsFiniteSet(closed) /\ next \in Nat /\ next >= 1
  BY Sizes
<1> DEFINE A == Range(pending) \cup Range(calls)
           B == A \cup Range(rest)
           C == B \cup Range(backlog)
           D == C \cup InHand
           E == D \cup Range(started)
           F == E \cup closed
<1>6. /\ IsFiniteSet(A) /\ Cardinality(A) \in Nat
      /\ Cardinality(A) <= Cardinality(Range(pending)) + Cardinality(Range(calls))
  BY <1>4, UnionAtMost
<1>7. Everywhere = F
  BY <1>1, <1>3 DEF Everywhere
<1> HIDE DEF A
<1>8. IsFiniteSet(B) /\ Cardinality(B) \in Nat /\ Cardinality(B) <= Cardinality(A) + Cardinality(Range(rest))
  BY <1>4, <1>5, <1>6, UnionAtMost
<1> HIDE DEF B
<1>9. IsFiniteSet(C) /\ Cardinality(C) \in Nat /\ Cardinality(C) <= Cardinality(B) + Cardinality(Range(backlog))
  BY <1>4, <1>5, <1>8, UnionAtMost
<1> HIDE DEF C
<1>10. IsFiniteSet(D) /\ Cardinality(D) \in Nat /\ Cardinality(D) <= Cardinality(C) + Cardinality(InHand)
  BY <1>4, <1>5, <1>9, UnionAtMost
<1> HIDE DEF D
<1>11. IsFiniteSet(E) /\ Cardinality(E) \in Nat /\ Cardinality(E) <= Cardinality(D) + Cardinality(Range(started))
  BY <1>4, <1>5, <1>10, UnionAtMost
<1> HIDE DEF E
<1>12. IsFiniteSet(F) /\ Cardinality(F) \in Nat /\ Cardinality(F) <= Cardinality(E) + Cardinality(closed)
  BY <1>4, <1>5, <1>11, UnionAtMost
<1> HIDE DEF F
<1>13. Cardinality(F) = next - 1
  BY <1>5, <1>7, FS_Interval DEF Counted
<1>14. next - 1 = Len(pending) + Len(calls) + Len(batch) + Len(backlog) + Cardinality(InHand)
                              + Len(started) + Cardinality(closed)
  BY DEF Counted, Total
<1>15. QED
  <2>1. Cardinality(B) <= Len(pending) + Len(calls) + Len(rest)
    BY <1>4, <1>5, <1>6, <1>8, SMTT(30)
  <2>2. Cardinality(D) <= Len(pending) + Len(calls) + Len(rest) + Len(backlog) + Cardinality(InHand)
    BY <1>4, <1>5, <1>8, <1>9, <1>10, <2>1, SMTT(30)
  <2>3. Cardinality(F) <= Len(pending) + Len(calls) + Len(rest) + Len(backlog) + Cardinality(InHand)
                            + Len(started) + Cardinality(closed)
    <3>1. Cardinality(F) \in Nat /\ Cardinality(F) <= Cardinality(E) + Cardinality(closed)
      BY <1>12
    <3>2. Cardinality(E) \in Nat /\ Cardinality(E) <= Cardinality(D) + Cardinality(Range(started))
      BY <1>11
    <3>3. /\ Cardinality(D) \in Nat /\ Cardinality(Range(started)) \in Nat
          /\ Cardinality(Range(started)) <= Len(started)
      BY <1>4, <1>5, <1>10
    <3>4. /\ Len(pending) \in Nat /\ Len(calls) \in Nat /\ Len(rest) \in Nat /\ Len(backlog) \in Nat
          /\ Len(started) \in Nat /\ Cardinality(InHand) \in Nat /\ Cardinality(closed) \in Nat
      BY <1>4, <1>5
    <3>5. QED
      BY <2>2, <3>1, <3>2, <3>3, <3>4, SMTT(30)
  <2>4. QED
    BY <1>3, <1>5, <1>13, <1>14, <2>3, SMTT(30)

LEMMA InitCounted == Init => Counted /\ ClosedByStop
<1> SUFFICES ASSUME Init PROVE Counted /\ ClosedByStop
  OBVIOUS
<1>1. /\ next = 1 /\ pending = << >> /\ calls = << >> /\ batch = << >> /\ backlog = << >>
      /\ started = << >> /\ closed = {} /\ \A w \in Workers : worker[w] = "absent"
  BY DEF Init
<1>2. InHand = {} /\ Holders = {}
  BY <1>1 DEF InHand, Holders
<1>3. Cardinality(InHand) = 0 /\ Cardinality(closed) = 0 /\ Len(<< >>) = 0
  BY <1>1, <1>2, FS_EmptySet
<1>4. Everywhere = {} /\ Total = 0
  BY <1>1, <1>2, <1>3, RangeEmpty DEF Everywhere, Total
<1>5. 1 .. next - 1 = {} /\ next - 1 = 0
  BY <1>1
<1>6. Distinct(pending) /\ Distinct(calls)
  BY <1>1 DEF Distinct
<1>7. QED
  BY <1>1, <1>2, <1>4, <1>5, <1>6 DEF Counted, ClosedByStop

\* A step that leaves the items where they are.
LEMMA CountedKept ==
  ASSUME Counted, UNCHANGED <<next, pending, calls, batch, backlog, started, closed, coro>>,
         poolClosing' = poolClosing, Holders' = Holders,
         ~poolClosing' => \A w \in Workers : worker'[w] # "gone"
  PROVE  Counted'
<1>1. InHand' = InHand
  <2>1. (InHand = {coro[w] : w \in Holders})'
    BY HandIsHolders, PTL
  <2>2. QED
    BY <2>1, HandIsHolders
<1>2. Everywhere' = Everywhere /\ Total' = Total
  BY <1>1 DEF Everywhere, Total
<1>3. QED
  BY <1>2 DEF Counted

LEMMA ScheduleCounted == TypeInv /\ Counted /\ Schedule => Counted'
<1> SUFFICES ASSUME TypeInv, Counted, Schedule, ~poolClosing PROVE Counted'
  BY DEF Schedule, Counted
<1>1. /\ UNCHANGED <<batch, backlog, worker, coro, started, closed, poolClosing>> /\ next' = next + 1
      /\ next \in Nat /\ next \in 1 .. Items
  BY Numbers DEF Schedule, TypeInv, TypeOK, pool
<1>2. /\ 1 .. next - 1 = Everywhere /\ next - 1 = Total
      /\ \A v, w \in Holders : coro[v] = coro[w] => v = w
      /\ Distinct(pending) /\ Distinct(calls) /\ \A w \in Workers : worker[w] # "gone"
  BY DEF Counted
<1>3. Holders' = Holders /\ InHand' = InHand
  BY <1>1 DEF Holders, InHand
<1>4. next \notin Range(pending) /\ next \notin Range(calls)
  <2>1. next \notin 1 .. next - 1
    BY <1>1
  <2>2. QED
    BY <1>2, <2>1 DEF Everywhere
<1>5. /\ Range(pending') \cup Range(calls') = Range(pending) \cup Range(calls) \cup {next}
      /\ Len(pending') + Len(calls') = Len(pending) + Len(calls) + 1
      /\ Distinct(pending') /\ Distinct(calls')
  <2>1. Len(pending) \in Nat /\ Len(calls) \in Nat
    BY Sizes
  <2>2. CASE next \in Calls
    <3>1. calls \in Seq(Calls) /\ calls' = Append(calls, next) /\ pending' = pending
      BY <2>2 DEF Schedule, TypeInv, TypeOK
    <3>2. Range(calls') = Range(calls) \cup {next} /\ Distinct(calls') /\ Len(calls') = Len(calls) + 1
      BY <1>2, <1>4, <2>2, <3>1, RangeAppend, DistinctAppend, AppendProperties
    <3>3. QED
      BY <1>2, <2>1, <3>1, <3>2
  <2>3. CASE next \notin Calls
    <3>1. pending \in Seq(Coros) /\ pending' = Append(pending, next) /\ calls' = calls
      BY <2>3 DEF Schedule, TypeInv, TypeOK
    <3>2. next \in Coros
      BY <1>1, <2>3 DEF Coros
    <3>3. /\ Range(pending') = Range(pending) \cup {next} /\ Distinct(pending')
          /\ Len(pending') = Len(pending) + 1
      BY <1>2, <1>4, <3>1, <3>2, RangeAppend, DistinctAppend, AppendProperties
    <3>4. QED
      BY <1>2, <2>1, <3>1, <3>3
  <2>4. QED
    BY <2>2, <2>3
<1>6. Everywhere' = Everywhere \cup {next}
  BY <1>1, <1>3, <1>5 DEF Everywhere
<1>7. Total' = Total + 1
  <2>1. /\ Len(pending) \in Nat /\ Len(calls) \in Nat /\ Len(batch) \in Nat /\ Len(backlog) \in Nat
        /\ Len(started) \in Nat /\ Cardinality(InHand) \in Nat /\ Cardinality(closed) \in Nat
    BY Sizes
  <2>2. UNCHANGED <<Len(batch), Len(backlog), Len(started), Cardinality(InHand), Cardinality(closed)>>
    BY <1>1, <1>3
  <2>3. Len(pending') \in Nat /\ Len(calls') \in Nat
    BY MainTypes, SMTT(30) DEF MainStep, TypeInv, TypeOK
  <2>4. QED
    BY <1>5, <2>1, <2>2, <2>3, SMTT(30) DEF Total
<1>8. 1 .. next' - 1 = (1 .. next - 1) \cup {next} /\ next' - 1 = (next - 1) + 1
  BY <1>1
<1>9. QED
  BY <1>1, <1>2, <1>3, <1>5, <1>6, <1>7, <1>8 DEF Counted

\* stop() closes what is queued: nothing had been closed before it.
LEMMA StopCounted == TypeInv /\ Counted /\ ClosedByStop /\ StopPending => Counted' /\ ClosedByStop'
<1> SUFFICES ASSUME TypeInv, Counted, ClosedByStop, StopPending PROVE Counted' /\ ClosedByStop'
  OBVIOUS
<1>1. /\ main = "calling" /\ main' = "closing" /\ closed' = closed \cup Range(pending) \cup Range(calls)
      /\ pending' = << >> /\ calls' = << >>
      /\ UNCHANGED <<next, batch, worker, coro, idle, backlog, poolClosing, started>>
  BY DEF StopPending, pool
<1>2. closed = {}
  BY <1>1 DEF ClosedByStop, Stopping
<1>3. ClosedByStop'
  BY <1>1 DEF ClosedByStop, Stopping
<1>4. CASE ~poolClosing
  <2>1. /\ 1 .. next - 1 = Everywhere /\ next - 1 = Total
        /\ \A v, w \in Holders : coro[v] = coro[w] => v = w
        /\ Distinct(pending) /\ Distinct(calls) /\ \A w \in Workers : worker[w] # "gone"
    BY <1>4 DEF Counted
  <2>2. Holders' = Holders /\ InHand' = InHand
    BY <1>1 DEF Holders, InHand
  <2>3. Everywhere' = Everywhere
    BY <1>1, <2>2, RangeEmpty DEF Everywhere
  <2>4. /\ pending \in Seq(Coros) /\ calls \in Seq(Calls)
    BY DEF TypeInv, TypeOK
  <2>5. /\ IsFiniteSet(Range(pending)) /\ Cardinality(Range(pending)) = Len(pending)
        /\ IsFiniteSet(Range(calls)) /\ Cardinality(Range(calls)) = Len(calls)
        /\ Len(pending) \in Nat /\ Len(calls) \in Nat
    BY <2>1, <2>4, RangeCount
  <2>6. Range(pending) \cap Range(calls) = {}
    <3>1. Range(pending) \subseteq Coros /\ Range(calls) \subseteq Calls
      BY <2>4, RangeType
    <3>2. QED
      BY <3>1 DEF Coros
  <2>7. Cardinality(closed') = Len(pending) + Len(calls)
    <3>1. closed' = Range(pending) \cup Range(calls)
      BY <1>1, <1>2
    <3>2. Cardinality(closed') = Cardinality(Range(pending)) + Cardinality(Range(calls)) - Cardinality({})
      BY <2>5, <2>6, <3>1, FS_Union
    <3>3. QED
      BY <2>5, <3>2, FS_EmptySet
  <2>8. Total' = Total
    <3>1. /\ Len(pending') = 0 /\ Len(calls') = 0 /\ Cardinality(closed) = 0
      BY <1>1, <1>2, FS_EmptySet, EmptySeq
    <3>2. UNCHANGED <<Len(batch), Len(backlog), Len(started), Cardinality(InHand)>>
      BY <1>1, <2>2
    <3>3. /\ Len(batch) \in Nat /\ Len(backlog) \in Nat /\ Len(started) \in Nat
          /\ Cardinality(InHand) \in Nat
      BY Sizes
    <3>4. QED
      BY <2>5, <2>7, <3>1, <3>2, <3>3 DEF Total
  <2>9. Distinct(pending') /\ Distinct(calls')
    BY <1>1 DEF Distinct
  <2>10. QED
    BY <1>1, <1>3, <2>1, <2>2, <2>3, <2>8, <2>9 DEF Counted
<1>5. QED
  BY <1>1, <1>3, <1>4 DEF Counted

LEMMA TakeCounted == TypeInv /\ Ended /\ Counted /\ Take => Counted'
<1> SUFFICES ASSUME TypeInv, Ended, Counted, Take PROVE Counted'
  OBVIOUS
<1>1. /\ UNCHANGED <<next, backlog, worker, coro, closed, poolClosing>> /\ batch = << >>
      /\ \/ UNCHANGED <<pending, calls, batch, started>>
         \/ started' = started \o calls /\ batch' = pending /\ pending' = << >> /\ calls' = << >>
  BY DEF Take, Ended, pool
<1>2. Holders' = Holders /\ InHand' = InHand
  BY <1>1 DEF Holders, InHand
<1>3. CASE UNCHANGED <<pending, calls, batch, started>>
  BY <1>1, <1>2, <1>3, CountedKept DEF Counted
<1>4. CASE started' = started \o calls /\ batch' = pending /\ pending' = << >> /\ calls' = << >>
  <2>1. calls \in Seq(1 .. Items) /\ started \in Seq(1 .. Items)
    BY Numbers, SeqMonotonic DEF TypeInv, TypeOK
  <2>2. Range(started') = Range(started) \cup Range(calls) /\ Len(started') = Len(started) + Len(calls)
    BY <1>4, <2>1, RangeConcat, ConcatProperties
  <2>3. Everywhere' = Everywhere
    BY <1>1, <1>2, <1>4, <2>2, RangeEmpty DEF Everywhere
  <2>4. Total' = Total
    <3>1. /\ Len(batch') = Len(pending) /\ Len(pending') = 0 /\ Len(calls') = 0 /\ Len(batch) = 0
      BY <1>1, <1>4, EmptySeq
    <3>2. UNCHANGED <<Len(backlog), Cardinality(InHand), Cardinality(closed)>>
      BY <1>1, <1>2
    <3>3. /\ Len(pending) \in Nat /\ Len(calls) \in Nat /\ Len(backlog) \in Nat
          /\ Len(started) \in Nat /\ Cardinality(InHand) \in Nat /\ Cardinality(closed) \in Nat
      BY Sizes
    <3>4. QED
      BY <2>2, <3>1, <3>2, <3>3 DEF Total
  <2>5. Distinct(pending') /\ Distinct(calls')
    BY <1>4 DEF Distinct
  <2>6. QED
    BY <1>1, <1>2, <2>3, <2>4, <2>5 DEF Counted
<1>5. QED
  BY <1>1, <1>3, <1>4

\* The coroutine at the head of the batch goes to one place.
LEMMA DispatchCounted == TypeInv /\ Pool /\ Counted /\ Dispatch => Counted'
<1> SUFFICES ASSUME TypeInv, Pool, Counted, Dispatch, ~poolClosing PROVE Counted'
  BY DEF Dispatch, Counted
<1> DEFINE c == Head(batch)
<1>1. /\ UNCHANGED <<next, pending, calls, started, closed, poolClosing>>
      /\ HandOver(c) /\ batch' = Tail(batch) /\ batch # << >>
  BY DEF Dispatch, shared
<1>2. /\ 1 .. next - 1 = Everywhere /\ next - 1 = Total
      /\ \A v, w \in Holders : coro[v] = coro[w] => v = w
      /\ Distinct(pending) /\ Distinct(calls) /\ \A w \in Workers : worker[w] # "gone"
  BY DEF Counted
<1>3. /\ c \in Coros /\ Range(batch) = {c} \cup Range(batch') /\ Len(batch') = Len(batch) - 1
      /\ worker \in [Workers -> {"absent", "starting", "running", "waking", "idle", "handed", "gone"}]
      /\ coro \in [Workers -> Coros \cup {None}]
      /\ backlog \in Seq(Coros) /\ idle \in Seq(Workers)
  BY <1>1, HeadTailProperties, RangeTail DEF TypeInv, TypeOK
<1>4. c \notin InHand
  BY <1>1, NotInHand
<1>5. /\ Len(pending) \in Nat /\ Len(calls) \in Nat /\ Len(batch) \in Nat /\ Len(backlog) \in Nat
      /\ Len(started) \in Nat /\ Cardinality(InHand) \in Nat /\ Cardinality(closed) \in Nat
      /\ IsFiniteSet(InHand)
  BY Sizes
<1> HIDE DEF c
<1>6. UNCHANGED <<Len(pending), Len(calls), Len(started), Cardinality(closed)>>
  BY <1>1
<1>7. ASSUME NEW w \in Workers, worker[w] \in {"absent", "idle"}, NEW how \in {"starting", "handed"},
             HandTo(w, how, c), backlog' = backlog
      PROVE  Counted'
  <2>1. /\ worker' = [worker EXCEPT ![w] = how] /\ coro' = [coro EXCEPT ![w] = c]
    BY <1>7 DEF HandTo
  <2>2. w \notin Holders
    BY <1>7 DEF Holders
  <2>3. Holders' = Holders \cup {w}
    BY <1>3, <2>1 DEF Holders
  <2>4. coro'[w] = c /\ \A v \in Holders : coro'[v] = coro[v]
    BY <1>3, <2>1, <2>2 DEF Holders
  <2>5. InHand' = InHand \cup {c}
    <3>1. InHand' = {coro'[v] : v \in Holders'}
      BY <2>1 DEF InHand, Holders
    <3>2. QED
      BY <2>3, <2>4, <3>1, HandIsHolders
  <2>6. \A v, x \in Holders' : coro'[v] = coro'[x] => v = x
    <3>1. \A v \in Holders : coro[v] # c
      BY <1>4, HandIsHolders
    <3>2. QED
      BY <1>2, <2>3, <2>4, <3>1
  <2>7. Everywhere' = Everywhere
    BY <1>1, <1>3, <1>7, <2>5 DEF Everywhere
  <2>8. Cardinality(InHand') = Cardinality(InHand) + 1
    BY <1>4, <1>5, <2>5, FS_AddElement
  <2>9. Total' = Total
    <3>1. Len(backlog') = Len(backlog)
      BY <1>7
    <3>2. QED
      BY <1>3, <1>5, <1>6, <2>8, <3>1 DEF Total
  <2>10. \A v \in Workers : worker'[v] # "gone"
    BY <1>2, <1>3, <2>1
  <2>11. QED
    BY <1>1, <1>2, <2>6, <2>7, <2>9, <2>10 DEF Counted
<1>8. CASE backlog' = Append(backlog, c) /\ UNCHANGED <<worker, coro, idle, ready>>
  <2>1. Range(backlog') = Range(backlog) \cup {c} /\ Len(backlog') = Len(backlog) + 1
    BY <1>3, <1>8, RangeAppend, AppendProperties
  <2>2. Holders' = Holders /\ InHand' = InHand
    BY <1>8 DEF Holders, InHand
  <2>3. Everywhere' = Everywhere
    BY <1>1, <1>3, <2>1, <2>2 DEF Everywhere
  <2>4. Total' = Total
    <3>1. Cardinality(InHand') = Cardinality(InHand)
      BY <2>2
    <3>2. QED
      BY <1>3, <1>5, <1>6, <2>1, <3>1 DEF Total
  <2>5. QED
    BY <1>1, <1>2, <1>8, <2>2, <2>3, <2>4 DEF Counted
<1>9. idle # << >> => Head(idle) \in Workers /\ worker[Head(idle)] = "idle"
  BY <1>3, RangeTail, HeadTailProperties DEF Pool
<1>10. QED
  BY <1>1, <1>7, <1>8, <1>9 DEF HandOver, Absent

\* What begins was in the hand of the worker that is stepped, and of no other.
LEMMA StepCounted == ASSUME TypeInv, Counted, NEW w \in Workers, StepWorker(w) PROVE Counted'
<1>1. /\ UNCHANGED <<next, pending, calls, batch, coro, backlog, poolClosing, closed>>
      /\ worker \in [Workers -> {"absent", "starting", "running", "waking", "idle", "handed", "gone"}]
  BY DEF StepWorker, TypeInv, TypeOK, shared
<1>2. CASE UNCHANGED <<started, worker>>
  <2>1. Holders' = Holders
    BY <1>2 DEF Holders
  <2>2. QED
    BY <1>1, <1>2, <2>1, CountedKept DEF Counted
<1>3. CASE /\ worker[w] \in {"starting", "handed"} /\ started' = Append(started, coro[w])
           /\ worker' = [worker EXCEPT ![w] = "running"] /\ ~poolClosing
  <2> DEFINE c == coro[w]
  <2>1. /\ 1 .. next - 1 = Everywhere /\ next - 1 = Total
        /\ \A v, x \in Holders : coro[v] = coro[x] => v = x
        /\ Distinct(pending) /\ Distinct(calls) /\ \A x \in Workers : worker[x] # "gone"
    BY <1>3 DEF Counted
  <2>2. /\ Len(pending) \in Nat /\ Len(calls) \in Nat /\ Len(batch) \in Nat /\ Len(backlog) \in Nat
        /\ Len(started) \in Nat /\ Cardinality(InHand) \in Nat /\ Cardinality(closed) \in Nat
        /\ IsFiniteSet(InHand)
    BY Sizes
  <2>3. c \in 1 .. Items
    BY <1>3, Numbers DEF TypeInv, Hands
  <2>4. Range(started') = Range(started) \cup {c} /\ Len(started') = Len(started) + 1
    <3>1. started \in Seq(1 .. Items)
      BY DEF TypeInv, TypeOK
    <3>2. QED
      BY <1>3, <2>3, <3>1, Begins, AppendProperties
  <2>5. w \in Holders /\ Holders' = Holders \ {w}
    BY <1>1, <1>3 DEF Holders
  <2>6. InHand' = InHand \ {c} /\ c \in InHand
    <3>1. InHand' = {coro[v] : v \in Holders'}
      BY <1>1 DEF InHand, Holders
    <3>2. QED
      BY <2>1, <2>5, <3>1, HandIsHolders
  <2> HIDE DEF c
  <2>7. Everywhere' = Everywhere
    BY <1>1, <2>4, <2>6 DEF Everywhere
  <2>8. Cardinality(InHand') = Cardinality(InHand) - 1
    BY <2>2, <2>6, FS_RemoveElement
  <2>9. Total' = Total
    <3>1. Len(pending') = Len(pending) /\ Len(calls') = Len(calls) /\ Len(batch') = Len(batch)
      BY <1>1
    <3>2. Len(backlog') = Len(backlog) /\ Cardinality(closed') = Cardinality(closed)
      BY <1>1
    <3>3. Len(started') = Len(started) + 1
      BY <2>4
    <3>4. /\ Len(pending) \in Nat /\ Len(calls) \in Nat /\ Len(batch) \in Nat /\ Len(backlog) \in Nat
          /\ Len(started) \in Nat /\ Cardinality(InHand) \in Nat /\ Cardinality(closed) \in Nat
      BY <2>2
    <3>5. QED
      BY <2>8, <3>1, <3>2, <3>3, <3>4, SMTT(30) DEF Total
  <2>10. /\ \A v, x \in Holders' : coro'[v] = coro'[x] => v = x
         /\ \A x \in Workers : worker'[x] # "gone"
    BY <1>1, <1>3, <2>1, <2>5
  <2>11. QED
    BY <1>1, <2>1, <2>7, <2>9, <2>10 DEF Counted
<1>4. CASE poolClosing
  BY <1>1, <1>4 DEF Counted
<1>5. QED
  BY <1>2, <1>3, <1>4 DEF StepWorker

LEMMA NextCoroCounted == ASSUME TypeInv, Counted, NEW w \in Workers, NextCoro(w) PROVE Counted'
<1>1. /\ UNCHANGED <<next, pending, calls, batch, poolClosing, closed>>
      /\ worker \in [Workers -> {"absent", "starting", "running", "waking", "idle", "handed", "gone"}]
      /\ coro \in [Workers -> Coros \cup {None}]
      /\ backlog \in Seq(Coros) /\ started \in Seq(1 .. Items)
      /\ worker[w] \in {"running", "waking"}
  BY DEF NextCoro, TypeInv, TypeOK, Busy, shared
<1>2. SUFFICES ASSUME ~poolClosing PROVE Counted'
  BY <1>1 DEF Counted
<1>3. /\ 1 .. next - 1 = Everywhere /\ next - 1 = Total
      /\ \A v, x \in Holders : coro[v] = coro[x] => v = x
      /\ Distinct(pending) /\ Distinct(calls) /\ \A x \in Workers : worker[x] # "gone"
  BY <1>2 DEF Counted
<1>4. ASSUME NEW how \in {"running", "idle"}, NEW x, worker' = [worker EXCEPT ![w] = how],
             coro' = [coro EXCEPT ![w] = x]
      PROVE  /\ Holders' = Holders /\ InHand' = InHand
             /\ \A u, v \in Holders' : coro'[u] = coro'[v] => u = v
             /\ \A v \in Workers : worker'[v] # "gone"
  <2>1. Holders' = Holders /\ w \notin Holders
    BY <1>1, <1>4 DEF Holders
  <2>2. \A v \in Holders : coro'[v] = coro[v]
    BY <1>1, <1>4, <2>1 DEF Holders
  <2>3. InHand' = {coro'[v] : v \in Holders'}
    BY <1>4 DEF InHand, Holders
  <2>4. InHand' = InHand
    BY <2>1, <2>2, <2>3, HandIsHolders
  <2>5. \A v \in Workers : worker'[v] # "gone"
    BY <1>1, <1>3, <1>4
  <2>6. QED
    BY <1>3, <2>1, <2>2, <2>4, <2>5
<1>5. CASE /\ backlog # << >> /\ coro' = [coro EXCEPT ![w] = Head(backlog)]
           /\ started' = Append(started, Head(backlog)) /\ backlog' = Tail(backlog)
           /\ worker' = [worker EXCEPT ![w] = "running"]
  <2> DEFINE c == Head(backlog)
  <2>1. /\ c \in 1 .. Items /\ Range(backlog) = {c} \cup Range(backlog')
        /\ Len(backlog') = Len(backlog) - 1
    BY <1>1, <1>5, Numbers, HeadTailProperties, RangeTail
  <2>2. Range(started') = Range(started) \cup {c} /\ Len(started') = Len(started) + 1
    BY <1>1, <1>5, <2>1, Begins, AppendProperties
  <2>3. /\ Holders' = Holders /\ InHand' = InHand
        /\ \A u, v \in Holders' : coro'[u] = coro'[v] => u = v
        /\ \A v \in Workers : worker'[v] # "gone"
    BY <1>4, <1>5
  <2> HIDE DEF c
  <2>4. Everywhere' = Everywhere
    BY <1>1, <2>1, <2>2, <2>3 DEF Everywhere
  <2>5. Total' = Total
    <3>1. Len(pending') = Len(pending) /\ Len(calls') = Len(calls) /\ Len(batch') = Len(batch)
      BY <1>1
    <3>2. Cardinality(InHand') = Cardinality(InHand) /\ Cardinality(closed') = Cardinality(closed)
      BY <1>1, <2>3
    <3>3. Len(backlog') = Len(backlog) - 1
      BY <2>1
    <3>4. Len(started') = Len(started) + 1
      BY <2>2
    <3>5. /\ Len(pending) \in Nat /\ Len(calls) \in Nat /\ Len(batch) \in Nat /\ Len(backlog) \in Nat
          /\ Len(started) \in Nat /\ Cardinality(InHand) \in Nat /\ Cardinality(closed) \in Nat
      BY Sizes
    <3>6. QED
      BY <3>1, <3>2, <3>3, <3>4, <3>5 DEF Total
  <2>6. QED
    BY <1>1, <1>3, <2>3, <2>4, <2>5 DEF Counted
<1>6. CASE /\ worker' = [worker EXCEPT ![w] = "idle"] /\ coro' = [coro EXCEPT ![w] = None]
           /\ UNCHANGED <<backlog, started>>
  <2>1. /\ Holders' = Holders /\ InHand' = InHand
        /\ \A u, v \in Holders' : coro'[u] = coro'[v] => u = v
        /\ \A v \in Workers : worker'[v] # "gone"
    BY <1>4, <1>6
  <2>2. Everywhere' = Everywhere /\ Total' = Total
    BY <1>1, <1>6, <2>1 DEF Everywhere, Total
  <2>3. QED
    BY <1>1, <1>3, <2>1, <2>2 DEF Counted
<1>7. QED
  BY <1>5, <1>6 DEF NextCoro

LEMMA NextCounted ==
  TypeInv /\ Pool /\ Ended /\ Counted /\ ClosedByStop /\ [Next]_vars => Counted' /\ ClosedByStop'
<1> SUFFICES ASSUME TypeInv, Pool, Ended, Counted, ClosedByStop, [Next]_vars
             PROVE  Counted' /\ ClosedByStop'
  OBVIOUS
<1>1. ASSUME UNCHANGED closed, Stopping => Stopping' PROVE ClosedByStop'
  BY <1>1 DEF ClosedByStop
<1>2. CASE Schedule
  BY <1>1, <1>2, ScheduleCounted DEF Schedule, Stopping
<1>3. CASE Take \/ Dispatch
  BY <1>1, <1>3, TakeCounted, DispatchCounted DEF Take, Dispatch, Stopping
<1>4. ASSUME NEW w \in Workers, StepWorker(w) \/ NextCoro(w) PROVE Counted' /\ ClosedByStop'
  BY <1>1, <1>4, StepCounted, NextCoroCounted DEF StepWorker, NextCoro, Stopping
<1>5. ASSUME NEW w \in Workers, Complete(w) PROVE Counted' /\ ClosedByStop'
  <2>1. /\ worker[w] = "running" /\ worker' = [worker EXCEPT ![w] = "waking"]
        /\ UNCHANGED <<main, next, pending, calls, batch, coro, backlog, poolClosing, started, closed>>
        /\ worker \in [Workers -> {"absent", "starting", "running", "waking", "idle", "handed", "gone"}]
    BY <1>5 DEF Complete, TypeInv, TypeOK, shared
  <2>2. Holders' = Holders
    BY <2>1 DEF Holders
  <2>3. ~poolClosing' => \A v \in Workers : worker'[v] # "gone"
    BY <2>1 DEF Counted
  <2>4. QED
    BY <1>1, <2>1, <2>2, <2>3, CountedKept DEF Stopping
<1>6. CASE ClosePool
  <2>1. Do("close") \in Range(ready) /\ poolClosing' /\ main' = main
    BY <1>6, PopType DEF ClosePool
  <2>2. QED
    BY <2>1 DEF Counted, ClosedByStop, Ended, Stopping
<1>7. ASSUME \/ WakeLoop \/ QueueTeardown \/ Join \/ Iterate \/ BeginDrain \/ DrainAgain
             \/ Halt \/ Exit \/ Stopped \/ UNCHANGED vars
      PROVE  Counted' /\ ClosedByStop'
  <2>1. /\ UNCHANGED <<next, pending, calls, batch, backlog, started, closed, coro, worker, poolClosing>>
        /\ Stopping => Stopping'
    BY <1>7 DEF WakeLoop, QueueTeardown, Join, Iterate, BeginDrain, DrainAgain, Halt, Exit, Stopped,
       vars, shared, pool, Stopping
  <2>2. Holders' = Holders
    BY <2>1 DEF Holders
  <2>3. ~poolClosing' => \A v \in Workers : worker'[v] # "gone"
    BY <2>1 DEF Counted
  <2>4. QED
    BY <1>1, <2>1, <2>2, <2>3, CountedKept
<1>8. QED
  BY <1>2, <1>3, <1>4, <1>5, <1>6, <1>7, StopCounted DEF Next, MainStep, LoopStep

-----------------------------------------------------------------------------
(* Theorems. *)

IInv == TypeInv /\ Flag /\ Pool /\ Ended /\ Cancelled /\ Traced /\ Counted /\ ClosedByStop

LEMMA SpecInv == Spec => []IInv
<1>1. Init => IInv
  <2>1. Init => Cancelled
    BY DEF Init, Cancelled
  <2>2. QED
    BY <2>1, InitType, InitFlag, InitPool, InitEnded, InitTraced, InitCounted DEF IInv
<1>2. IInv /\ [Next]_vars => IInv'
  BY NextType, NextFlag, NextPool, NextEnded, NextCancelled, NextTraced, NextCounted DEF IInv
<1>3. QED
  BY <1>1, <1>2, PTL DEF Spec

\* The two threads' state is well typed, for any number of items, calls and workers: in
\* particular a worker is never stepped into a coroutine it does not have.
THEOREM BridgeTypeCorrect == Spec => []TypeOK
<1>1. IInv => TypeOK
  BY DEF IInv, TypeInv
<1>2. QED
  BY <1>1, SpecInv, PTL

\* However scheduling threads and the drainer interleave, what is queued has a drainer
\* coming for it, and what is in the backlog has a worker.
THEOREM NothingIsStranded == Spec => []WorkIsAttended
<1>1. IInv => DrainComing
  BY DEF IInv, Flag, DrainComing
<1>2. IInv => BacklogMeansSaturated
  BY DEF IInv, Pool
<1>3. QED
  BY <1>1, <1>2, SpecInv, PTL DEF WorkIsAttended

LEMMA StopKeepsAll == IInv => OnlyHandsAreLost
<1> SUFFICES ASSUME IInv, main = "stopped", NEW i \in 1 .. next - 1
             PROVE  \/ i \in Range(started) \/ i \in closed
                    \/ \E w \in Workers : worker[w] = "gone" /\ coro[w] = i
  BY DEF OnlyHandsAreLost
<1>1. poolClosing /\ pending = << >> /\ calls = << >> /\ backlog = << >> /\ batch = << >>
  BY DEF IInv, Ended, Flag, Stopping
<1>2. \/ i \in Range(started) \cup closed
      \/ \E w \in Workers : Held(w, i)
  BY <1>1, RangeEmpty DEF IInv, Traced, Placed
<1>3. QED
  BY <1>1, <1>2 DEF Held, IInv, Cancelled

\* After stop(), what was scheduled has begun or was closed, but for what a cancelled
\* worker had in hand.
THEOREM StopLosesOnlyHands == Spec => []OnlyHandsAreLost
BY StopKeepsAll, SpecInv, PTL

\* Until the pool closes every scheduled coroutine is in exactly one place -- the inbox, the
\* drainer's batch or the call it made, the backlog, one worker's hands, begun, or closed by
\* stop() -- so none is run twice and none is mislaid; and once stop() has returned the only
\* ones never begun nor closed are what a cancelled worker had in hand.
THEOREM EachItemIsTraced == Spec => []ItemsAreTraced
<1>1. IInv => NothingMislaid
  BY DEF IInv, Counted, NothingMislaid, Everywhere, Total
<1>2. QED
  BY <1>1, StopKeepsAll, SpecInv, PTL DEF ItemsAreTraced
=============================================================================
