---------------------------- MODULE AwaitedOffer ----------------------------
(***************************************************************************)
(* pub_fixed_awaited (bench/drive.py 426-493): a fixed offer over a client *)
(* whose only API is `await publish()`.  A pacer turns the schedule into   *)
(* credits, [next, end) spans of message indices; a pool of worker         *)
(* coroutines takes one index at a time from the oldest span; a worker     *)
(* that finds no credit waits on one shared gate.  Every step between two  *)
(* awaits is one action: the coroutines share one event loop.              *)
(***************************************************************************)
EXTENDS Schedule, Sequences, FiniteSets

CONSTANT Workers   \* the coroutine pool (AWAITED_FIXED_WORKERS = 256 in the code)

ASSUME WorkersAssumption == IsFiniteSet(Workers)

VARIABLES
  clock,      \* monotonic_ns() - t_start
  pacer,      \* "pacing" | "done"
  nextTick,   \* pacer's next_tick
  total,      \* pacer's total: messages counted at its last wake-up
  issued,     \* pacer's issued: credits handed out
  credits,    \* the deque of spans, oldest first
  gateDone,   \* gate["done"]
  worker,     \* where each worker coroutine is suspended
  sent, done, failed, skipped,   \* the counters of Run
  sends       \* Run.sends: publish time of each message

pacerVars == <<pacer, nextTick, total, issued, gateDone>>
counters == <<sent, done, failed, skipped>>
vars == <<clock, pacerVars, credits, worker, counters, sends>>

\* "ready" runs the loop head next; "parked" awaits the gate; "publishing"
\* awaits the library; "returned" and "abandoned" (cancelled) have ended.
WorkerStates == {"ready", "parked", "publishing", "returned", "abandoned"}
Ended == {"returned", "abandoned"}

Span == [next : Nat, end : Nat]
Within(i, span) == span.next <= i /\ i < span.end
InSpans(i, cs) == \E k \in 1 .. Len(cs) : Within(i, cs[k])
Credited(i) == InSpans(i, credits)

TypeOK ==
  /\ clock \in Time
  /\ pacer \in {"pacing", "done"}
  /\ nextTick \in Nat
  /\ total \in 0 .. Offered
  /\ issued \in Nat
  /\ credits \in Seq(Span)
  /\ gateDone \in BOOLEAN
  /\ worker \in [Workers -> WorkerStates]
  /\ sent \in Nat /\ done \in Nat /\ failed \in Nat /\ skipped \in Nat
  /\ sends \in [Index -> Int]

Init ==
  /\ clock = 0
  /\ pacer = "pacing" /\ nextTick = 0 /\ total = 0 /\ issued = 0
  /\ credits = << >>
  /\ gateDone = FALSE
  /\ worker = [w \in Workers |-> "ready"]
  /\ sent = 0 /\ done = 0 /\ failed = 0 /\ skipped = 0
  /\ sends = [i \in Index |-> UNSENT]

-----------------------------------------------------------------------------
Elapse ==
  /\ clock < TStop
  /\ clock' = clock + 1
  /\ UNCHANGED <<pacerVars, credits, worker, counters, sends>>

\* Mutant: the gate opens for one waiter only.
OpenGateForOne ==
  worker' = [w \in Workers |->
               IF worker[w] = "parked" /\ w = CHOOSE v \in Workers : worker[v] = "parked"
               THEN "ready" ELSE worker[w]]

\* open_gate: whoever awaits the current future wakes; the next waiter finds a fresh one.
OpenGate == worker' = [w \in Workers |-> IF worker[w] = "parked" THEN "ready" ELSE worker[w]]

\* A new span joins the last one when it continues it.
Extend(cs, lo, hi) ==
  IF cs # << >> /\ cs[Len(cs)].end = lo
  THEN [cs EXCEPT ![Len(cs)].end = hi]
  ELSE Append(cs, [next |-> lo, end |-> hi])

\* The pacer wakes, loses what it is too late for and hands out the rest.
Pace ==
  /\ pacer = "pacing" /\ nextTick <= clock /\ InWindow(clock)
  /\ LET now  == TotalDue(clock)
         due  == now - issued - skipped
         kept == IF due > MaxDue THEN MaxDue ELSE due
     IN /\ total' = now
        /\ skipped' = skipped + (due - kept)
        /\ \/ /\ kept > 0
              /\ issued' = issued + kept
              /\ credits' = Extend(credits, now - kept, now)
              /\ OpenGate
           \/ /\ kept <= 0
              /\ UNCHANGED <<issued, credits, worker>>
  /\ nextTick' = NextTick(nextTick, clock)
  /\ UNCHANGED <<clock, pacer, gateDone, sent, done, failed, sends>>

UnspentCredits == Cardinality({i \in Index : Credited(i)})

\* Mutant: the credits left at t_end are dropped without being counted.
FinishUncounted ==
  /\ pacer = "pacing" /\ nextTick <= clock /\ ~InWindow(clock)
  /\ pacer' = "done"
  /\ credits' = << >>
  /\ gateDone' = TRUE
  /\ OpenGate
  /\ UNCHANGED <<clock, nextTick, total, issued, skipped, sent, done, failed, sends>>

\* The pacer ends the offer: unspent credits were offered and never sent.
Finish ==
  /\ pacer = "pacing" /\ nextTick <= clock /\ ~InWindow(clock)
  /\ pacer' = "done"
  /\ skipped' = skipped + UnspentCredits
  /\ credits' = << >>
  /\ gateDone' = TRUE
  /\ OpenGate
  /\ UNCHANGED <<clock, nextTick, total, issued, sent, done, failed, sends>>

-----------------------------------------------------------------------------
\* No credit left and more may come: wait on the gate.
Park(w) ==
  /\ worker[w] = "ready" /\ credits = << >> /\ ~gateDone
  /\ worker' = [worker EXCEPT ![w] = "parked"]
  /\ UNCHANGED <<clock, pacerVars, credits, counters, sends>>

\* No credit left and none to come.
Return(w) ==
  /\ worker[w] = "ready" /\ credits = << >> /\ gateDone
  /\ worker' = [worker EXCEPT ![w] = "returned"]
  /\ UNCHANGED <<clock, pacerVars, credits, counters, sends>>

\* credits[0] loses its first index, and leaves the deque with its last.
SpendFirst(cs) ==
  LET span == Head(cs)
  IN IF span.next + 1 = span.end THEN Tail(cs)
     ELSE [cs EXCEPT ![1].next = span.next + 1]

\* Mutant: the newest span is served first.
TakeNewest(w) ==
  /\ worker[w] = "ready" /\ credits # << >>
  /\ LET span == credits[Len(credits)]
     IN /\ credits' = IF span.next + 1 = span.end THEN SubSeq(credits, 1, Len(credits) - 1)
                      ELSE [credits EXCEPT ![Len(credits)].next = span.next + 1]
        /\ sends' = [sends EXCEPT ![span.next] = clock]
  /\ sent' = sent + 1
  /\ worker' = [worker EXCEPT ![w] = "publishing"]
  /\ UNCHANGED <<clock, pacerVars, done, failed, skipped>>

\* Take the oldest index, stamp it and start its publish.
Take(w) ==
  /\ worker[w] = "ready" /\ credits # << >>
  /\ credits' = SpendFirst(credits)
  /\ sends' = [sends EXCEPT ![Head(credits).next] = clock]
  /\ sent' = sent + 1
  /\ worker' = [worker EXCEPT ![w] = "publishing"]
  /\ UNCHANGED <<clock, pacerVars, done, failed, skipped>>

\* `await publish()` returns, or raises; either way the worker takes the next credit.
Settle(w) ==
  /\ worker[w] = "publishing"
  /\ worker' = [worker EXCEPT ![w] = "ready"]
  /\ \/ done' = done + 1 /\ UNCHANGED failed
     \/ failed' = failed + 1 /\ UNCHANGED done
  /\ UNCHANGED <<clock, pacerVars, credits, sent, skipped, sends>>

\* Mutant: the drive is awaited without a timeout.
CancelNever == FALSE /\ UNCHANGED vars

\* run_async cancels the drive at t_stop.  The loop runs timers in deadline order
\* and the pacer's last one lies before t_stop, so the pacer has finished.
Cancel ==
  /\ clock >= TStop /\ pacer = "done"
  /\ \E w \in Workers : worker[w] \notin Ended
  /\ worker' = [w \in Workers |-> CASE worker[w] = "publishing" -> "abandoned"
                                    [] worker[w] \in {"ready", "parked"} -> "returned"
                                    [] OTHER -> worker[w]]
  /\ UNCHANGED <<clock, pacerVars, credits, counters, sends>>

-----------------------------------------------------------------------------
Work(w) == Park(w) \/ Return(w) \/ Take(w)

DriveEnded == pacer = "done" /\ \A w \in Workers : worker[w] \in Ended

Stopped == DriveEnded /\ clock = TStop /\ UNCHANGED vars

Next ==
  \/ Elapse
  \/ Pace
  \/ Finish
  \/ \E w \in Workers : Work(w) \/ Settle(w)
  \/ Cancel
  \/ Stopped

\* Time passes and the event loop runs every ready coroutine and timer; nothing
\* obliges the library to complete a publish, so Settle is not fair.
Fairness ==
  /\ WF_vars(Elapse)
  /\ WF_vars(Pace)
  /\ WF_vars(Finish)
  /\ WF_vars(Cancel)
  /\ \A w \in Workers : WF_vars(Work(w))

Spec == Init /\ [][Next]_vars
FairSpec == Spec /\ Fairness

-----------------------------------------------------------------------------
(* Properties. *)

\* No lost wake-up: no worker waits on the gate while there is a credit to take
\* or once the pacer has ended the offer.
NoLostWakeup ==
  (credits # << >> \/ gateDone) => \A w \in Workers : worker[w] # "parked"

\* No credit is spent twice, nor before its time: a publish time is stored once, and
\* then it is no earlier than due_ns of the message.
OnceAndOnTime ==
  [][\A i \in Index : sends'[i] # sends[i] => sends[i] = UNSENT /\ sends'[i] >= DueNs(i)]_vars

\* Every message the pacer has counted is published, skipped or still a credit,
\* at every moment and after the end.
Accounting == sent + skipped + UnspentCredits = total

\* sent - done - failed, on which the drain waits, counts the publishes in flight.
Outstanding ==
  sent - done - failed = Cardinality({w \in Workers : worker[w] \in {"publishing", "abandoned"}})

\* The drive's books balance on both sides: what was offered against what became of it,
\* and what was sent against what the library still has.
BooksBalance == Accounting /\ Outstanding

\* The drive implements the fixed offer.
fate == [i \in Index |-> IF sends[i] # UNSENT THEN "published"
                         ELSE IF Credited(i) THEN "owed"
                         ELSE IF i < total THEN "skipped" ELSE "future"]

AbstractOffer == INSTANCE Offer WITH
  Size <- Offered, fate <- fate, counted <- total, open <- (pacer = "pacing")

ImplementsOffer == AbstractOffer!Spec

\* The drive ends although the library may never complete a publish.
DriveEnds == <>DriveEnded
=============================================================================
