------------------------------ MODULE Capacity ------------------------------
(***************************************************************************)
(* The closed-loop drives of bench/drive.py: pub_capacity_sync (286-306),  *)
(* pub_capacity_nowait (342-383) and pub_capacity_awaited (386-400), with  *)
(* the Timer thread of bench/worker.py that stops them.  Each keeps at     *)
(* most `window` publishes awaiting completion and must stop when told to, *)
(* although it may be parked waiting for a completion that never comes.    *)
(*                                                                         *)
(* The loops read the counters of Run only as sent - done - failed, so     *)
(* that difference is the state here: `outstanding` is what the harness    *)
(* believes, `inflight` what the library really holds.                     *)
(***************************************************************************)
EXTENDS Integers, FiniteSets

CONSTANTS
  Slots,            \* the window, as a set; the worker coroutines of the awaited shape
  RefusalReported   \* a refused publish_nowait also fires on_publish (gmqtt_async)

ASSUME CapacityAssumption ==
  IsFiniteSet(Slots) /\ Slots # {} /\ RefusalReported \in BOOLEAN

Window == Cardinality(Slots)
LowWater == Window - (IF Window \div 4 > 1 THEN Window \div 4 ELSE 1)

VARIABLES
  shape,        \* "sync" | "nowait" | "awaited", chosen once per run
  pc,           \* where the drive loop is
  slot,         \* awaited: where each worker coroutine is
  tokens,       \* sync: the SimpleQueue's length
  burst,        \* nowait: publishes admitted since the loop head
  waiter,       \* nowait: the future the loop is parked on
  wakeQueued,   \* nowait: release is scheduled on the loop by another thread
  outstanding,  \* run.sent - run.done - run.failed
  inflight,     \* publishes the library holds
  stop,         \* run.stop
  timer         \* the Timer thread's place in request_stop

loopVars == <<pc, slot, burst, waiter>>
vars == <<shape, loopVars, tokens, wakeQueued, outstanding, inflight, stop, timer>>

TypeOK ==
  /\ shape \in {"sync", "nowait", "awaited"}
  /\ pc \in {"get", "holding", "accepted", "refused",
             "head", "bursting", "full", "parked", "yielded", "ended"}
  /\ slot \in [Slots -> {"head", "publishing", "ended"}]
  /\ tokens \in 0 .. Window + 1
  /\ burst \in 0 .. Window
  /\ waiter \in {"none", "pending", "set"}
  /\ wakeQueued \in BOOLEAN
  /\ outstanding \in Int
  /\ inflight \in Nat
  /\ stop \in BOOLEAN
  /\ timer \in {"measuring", "stopping", "finished"}

Init ==
  /\ shape \in {"sync", "nowait", "awaited"}
  /\ pc = IF shape = "sync" THEN "get" ELSE "head"
  /\ slot = [s \in Slots |-> "head"]
  /\ tokens = Window
  /\ burst = 0 /\ waiter = "none" /\ wakeQueued = FALSE
  /\ outstanding = 0 /\ inflight = 0
  /\ stop = FALSE /\ timer = "measuring"

-----------------------------------------------------------------------------
(* The Timer thread at t_end: request_stop sets the flag, then calls wake. *)

SetStop ==
  /\ timer = "measuring"
  /\ stop' = TRUE /\ timer' = "stopping"
  /\ UNCHANGED <<shape, loopVars, tokens, wakeQueued, outstanding, inflight>>

\* Mutant: the drive is not woken.
WakeNobody ==
  /\ timer = "stopping"
  /\ timer' = "finished"
  /\ UNCHANGED <<shape, loopVars, tokens, wakeQueued, outstanding, inflight, stop>>

\* run.wake: one more token, or release scheduled on the loop; the awaited shape has none.
Wake ==
  /\ timer = "stopping"
  /\ timer' = "finished"
  /\ tokens' = IF shape = "sync" THEN tokens + 1 ELSE tokens
  /\ wakeQueued' = (shape = "nowait")
  /\ UNCHANGED <<shape, loopVars, outstanding, inflight, stop>>

-----------------------------------------------------------------------------
(* sync: the main thread publishes, one token per publish in flight. *)

Get ==
  /\ shape = "sync" /\ pc = "get" /\ tokens > 0
  /\ tokens' = tokens - 1
  /\ pc' = "holding"
  /\ UNCHANGED <<shape, slot, burst, waiter, wakeQueued, outstanding, inflight, stop, timer>>

SyncStop ==
  /\ shape = "sync" /\ pc = "holding" /\ stop
  /\ pc' = "ended"
  /\ UNCHANGED <<shape, slot, burst, waiter, tokens, wakeQueued, outstanding, inflight, stop, timer>>

\* publish() is called and the library decides; its thread may complete the
\* publish before the call returns and `sent` is counted.
SyncCall(verdict) ==
  /\ shape = "sync" /\ pc = "holding" /\ ~stop
  /\ pc' = verdict
  /\ inflight' = IF verdict = "accepted" THEN inflight + 1 ELSE inflight
  /\ UNCHANGED <<shape, slot, burst, waiter, tokens, wakeQueued, outstanding, stop, timer>>

\* Mutant: a refused publish keeps its token.
SyncReturnKeepingToken ==
  /\ pc \in {"accepted", "refused"}
  /\ outstanding' = IF pc = "accepted" THEN outstanding + 1 ELSE outstanding
  /\ pc' = "get"
  /\ UNCHANGED <<shape, slot, burst, waiter, tokens, wakeQueued, inflight, stop, timer>>

\* sent += 1, or rejected += 1 and the token goes back.
SyncReturn ==
  /\ pc \in {"accepted", "refused"}
  /\ \/ pc = "accepted" /\ outstanding' = outstanding + 1 /\ UNCHANGED tokens
     \/ pc = "refused" /\ tokens' = tokens + 1 /\ UNCHANGED outstanding
  /\ pc' = "get"
  /\ UNCHANGED <<shape, slot, burst, waiter, wakeQueued, inflight, stop, timer>>

-----------------------------------------------------------------------------
(* nowait: the loop refills the window in bursts and parks when it is full. *)

\* Mutant: the burst's count is not reset.
HeadKeepingBurst ==
  /\ shape = "nowait" /\ pc = "head"
  /\ pc' = IF stop THEN "ended" ELSE "bursting"
  /\ UNCHANGED <<shape, slot, burst, waiter, tokens, wakeQueued, outstanding, inflight, stop, timer>>

Head ==
  /\ shape = "nowait" /\ pc = "head"
  /\ pc' = IF stop THEN "ended" ELSE "bursting"
  /\ burst' = 0
  /\ UNCHANGED <<shape, slot, waiter, tokens, wakeQueued, outstanding, inflight, stop, timer>>

\* Mutant: the window test is off by one.
HasRoomForOneMore == outstanding <= Window

HasRoom == outstanding < Window

\* publish_nowait returned a mid: the publish is queued, or (QoS 0) completed
\* inline.  The burst ends when a window's worth was admitted.
Admit(inline) ==
  /\ shape = "nowait" /\ pc = "bursting" /\ HasRoom
  /\ outstanding' = IF inline THEN outstanding ELSE outstanding + 1
  /\ inflight' = IF inline THEN inflight ELSE inflight + 1
  /\ burst' = burst + 1
  /\ pc' = IF burst' >= Window THEN "full" ELSE "bursting"
  /\ UNCHANGED <<shape, slot, waiter, tokens, wakeQueued, stop, timer>>

\* publish_nowait returned None: sent is taken back and the burst ends.  An adapter
\* that also reports the refusal through on_publish has counted it failed as well.
Refuse ==
  /\ shape = "nowait" /\ pc = "bursting" /\ HasRoom
  /\ outstanding' = IF RefusalReported THEN outstanding - 1 ELSE outstanding
  /\ pc' = "full"
  /\ UNCHANGED <<shape, slot, burst, waiter, tokens, wakeQueued, inflight, stop, timer>>

BurstDone ==
  /\ shape = "nowait" /\ pc = "bursting" /\ ~HasRoom
  /\ pc' = "full"
  /\ UNCHANGED <<shape, slot, burst, waiter, tokens, wakeQueued, outstanding, inflight, stop, timer>>

\* After the burst: park on a fresh future, or yield to the loop once.
ParkOrYield ==
  /\ shape = "nowait" /\ pc = "full"
  /\ \/ /\ outstanding >= Window
        /\ waiter' = "pending" /\ pc' = "parked"
     \/ /\ outstanding < Window
        /\ pc' = "yielded" /\ UNCHANGED waiter
  /\ UNCHANGED <<shape, slot, burst, tokens, wakeQueued, outstanding, inflight, stop, timer>>

Resume ==
  /\ shape = "nowait"
  /\ pc = "yielded" \/ (pc = "parked" /\ waiter = "set")
  /\ pc' = "head" /\ waiter' = "none"
  /\ UNCHANGED <<shape, slot, burst, tokens, wakeQueued, outstanding, inflight, stop, timer>>

\* Other callbacks of the event loop run only while the drive awaits.
LoopIsFree == pc \in {"parked", "yielded", "ended"}

\* The release that wake scheduled reaches the loop.
Release ==
  /\ wakeQueued /\ LoopIsFree
  /\ wakeQueued' = FALSE
  /\ waiter' = IF waiter = "pending" THEN "set" ELSE waiter
  /\ UNCHANGED <<shape, pc, slot, burst, tokens, outstanding, inflight, stop, timer>>

-----------------------------------------------------------------------------
(* awaited: one coroutine per place in the window. *)

SlotTurn(s) ==
  /\ shape = "awaited" /\ slot[s] = "head"
  /\ \/ /\ stop
        /\ slot' = [slot EXCEPT ![s] = "ended"]
        /\ UNCHANGED <<outstanding, inflight>>
     \/ /\ ~stop
        /\ slot' = [slot EXCEPT ![s] = "publishing"]
        /\ outstanding' = outstanding + 1 /\ inflight' = inflight + 1
  /\ UNCHANGED <<shape, pc, burst, waiter, tokens, wakeQueued, stop, timer>>

\* `await publish()` returns or raises; done or failed is counted.
SlotSettles(s) ==
  /\ shape = "awaited" /\ slot[s] = "publishing"
  /\ slot' = [slot EXCEPT ![s] = "head"]
  /\ outstanding' = outstanding - 1 /\ inflight' = inflight - 1
  /\ UNCHANGED <<shape, pc, burst, waiter, tokens, wakeQueued, stop, timer>>

\* run_async gives up at t_stop, seconds after t_end: only publishes the library
\* never completed are left.  (The nowait drive must stop without this.)
Cancel ==
  /\ shape = "awaited" /\ stop
  /\ \A s \in Slots : slot[s] # "head"
  /\ \E s \in Slots : slot[s] = "publishing"
  /\ slot' = [s \in Slots |-> "ended"]
  /\ UNCHANGED <<shape, pc, burst, waiter, tokens, wakeQueued, outstanding, inflight, stop, timer>>

-----------------------------------------------------------------------------
\* Mutant: the loop is woken only below the low-water mark.
LowEnoughStrict(n) == n < LowWater

LowEnough(n) == n <= LowWater

\* on_publish: the completion is counted and returns a token (sync, on the library's
\* thread) or releases the parked loop at the low-water mark (nowait, on the loop).
Complete ==
  /\ shape \in {"sync", "nowait"} /\ inflight > 0
  /\ shape = "nowait" => LoopIsFree
  /\ inflight' = inflight - 1
  /\ outstanding' = outstanding - 1
  /\ tokens' = IF shape = "sync" THEN tokens + 1 ELSE tokens
  /\ waiter' = IF waiter = "pending" /\ LowEnough(outstanding') THEN "set" ELSE waiter
  /\ UNCHANGED <<shape, pc, slot, burst, wakeQueued, stop, timer>>

DriveEnded ==
  IF shape = "awaited" THEN \A s \in Slots : slot[s] = "ended" ELSE pc = "ended"

Stopped == DriveEnded /\ timer = "finished" /\ UNCHANGED vars

SyncStep == Get \/ SyncStop \/ (\E v \in {"accepted", "refused"} : SyncCall(v)) \/ SyncReturn
NowaitStep ==
  \/ Head \/ (\E inline \in BOOLEAN : Admit(inline)) \/ Refuse
  \/ BurstDone \/ ParkOrYield \/ Resume

Next ==
  \/ SetStop \/ Wake
  \/ SyncStep
  \/ NowaitStep \/ Release
  \/ \E s \in Slots : SlotTurn(s) \/ SlotSettles(s)
  \/ Cancel
  \/ Complete
  \/ Stopped

\* The timer thread, the main thread and the event loop all run; the library
\* owes nobody a completion.
Fairness ==
  /\ WF_vars(SetStop) /\ WF_vars(Wake)
  /\ WF_vars(SyncStep)
  /\ WF_vars(NowaitStep) /\ WF_vars(Release)
  /\ \A s \in Slots : WF_vars(SlotTurn(s))
  /\ WF_vars(Cancel)

Spec == Init /\ [][Next]_vars
FairSpec == Spec /\ Fairness

-----------------------------------------------------------------------------
(* Properties. *)

\* "Capacity points keep `window` publishes outstanding": the library never holds more.
WindowHeld == inflight <= Window

\* sync: every token is in the queue, in the loop's hand or with a publish in
\* flight; the wake's extra one arrives only after stop is set.
TokensConserved ==
  shape = "sync" =>
    tokens + inflight + (IF pc \in {"holding", "refused", "ended"} THEN 1 ELSE 0)
      = Window + (IF timer = "finished" THEN 1 ELSE 0)

\* nowait: the loop is never left parked at or below the low-water mark, nor after a
\* stop whose wake has been spent.
NoLostWakeup ==
  waiter = "pending" => /\ outstanding > LowWater
                        /\ timer = "finished" => wakeQueued

\* What the drain waits on is what the library holds, but for a call in progress.
OutstandingIsInflight == outstanding = inflight - (IF pc = "accepted" THEN 1 ELSE 0)

\* The drive's books, in tokens and in counters, are what the library really holds.
BooksAreTrue == TokensConserved /\ OutstandingIsInflight

\* A drive told to stop does, although no completion ever arrives.
StopEndsDrive == stop ~> DriveEnded
=============================================================================
