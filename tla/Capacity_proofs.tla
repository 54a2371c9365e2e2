-------------------------- MODULE Capacity_proofs ---------------------------
(***************************************************************************)
(* Proofs about Capacity, for every window: its types, its tokens, its     *)
(* wake-ups, and, when an adapter reports a refusal once, the window and   *)
(* the count of what is outstanding.                                       *)
(***************************************************************************)
EXTENDS Capacity, FiniteSetTheorems, TLAPS

Publishing == {s \in Slots : slot[s] = "publishing"}

\* Each shape has places of its own; what a shape does not use keeps its first value.
Shaped ==
  /\ shape = "sync" => pc \in {"get", "holding", "accepted", "refused", "ended"}
  /\ shape = "nowait" => pc \in {"head", "bursting", "full", "parked", "yielded", "ended"}
  /\ shape = "awaited" => pc = "head"
  /\ shape # "nowait" => waiter = "none" /\ ~wakeQueued
  /\ pc = "bursting" => burst < Window

\* The timer sets stop first, and is finished when it has woken the drive.
Timed == timer # "measuring" <=> stop

\* nowait: a parked loop waits for a completion to bring it to the low-water mark, or for
\* the wake that stop sends.  That wake stays queued for as long as the loop is busy.
Parking ==
  /\ waiter # "none" => pc = "parked"
  /\ pc = "parked" => waiter # "none"
  /\ waiter = "pending" => outstanding > LowWater
  /\ shape = "nowait" /\ timer = "finished" =>
       (waiter = "pending" \/ pc \in {"bursting", "full"} => wakeQueued)

\* awaited: until the drive has ended, the library holds what the coroutines publish.
SlotsBusy ==
  shape = "awaited" /\ (\E s \in Slots : slot[s] # "ended") => inflight = Cardinality(Publishing)

\* Nothing is reported twice.
Honest == shape = "nowait" => ~RefusalReported

\* The inductive invariant.
IInv ==
  /\ TypeOK
  /\ Shaped
  /\ Timed
  /\ TokensConserved
  /\ Parking
  /\ SlotsBusy
  /\ Honest => WindowHeld /\ OutstandingIsInflight

-----------------------------------------------------------------------------
(* The window and the coroutines. *)

LEMMA WindowFacts == Window \in Nat /\ Window > 0 /\ LowWater \in Int /\ LowWater < Window
<1>1. Window \in Nat /\ Window > 0
  BY CapacityAssumption, FS_CardinalityType, FS_EmptySet DEF Window
<1>2. Window \div 4 \in Nat
  BY <1>1
<1> QED
  BY <1>1, <1>2 DEF LowWater

LEMMA PublishingFacts ==
  /\ IsFiniteSet(Publishing)
  /\ Cardinality(Publishing) \in Nat
  /\ Cardinality(Publishing) <= Window
<1>1. Publishing \subseteq Slots
  BY DEF Publishing
<1> QED
  BY <1>1, CapacityAssumption, FS_Subset, FS_CardinalityType DEF Window

\* One more coroutine publishes: there was one that did not.
LEMMA OneMorePublishes ==
  ASSUME NEW s \in Slots, slot[s] # "publishing", slot \in [Slots -> {"head", "publishing", "ended"}],
         slot' = [slot EXCEPT ![s] = "publishing"]
  PROVE  /\ Cardinality(Publishing') = Cardinality(Publishing) + 1
         /\ Cardinality(Publishing) + 1 <= Window
<1>1. Publishing' = Publishing \cup {s} /\ s \notin Publishing
  BY DEF Publishing
<1>2. Publishing \cup {s} \subseteq Slots
  BY DEF Publishing
<1>3. Cardinality(Publishing \cup {s}) = Cardinality(Publishing) + 1
  BY <1>1, PublishingFacts, FS_AddElement
<1>4. Cardinality(Publishing \cup {s}) <= Window
  BY <1>2, CapacityAssumption, FS_Subset DEF Window
<1> QED
  BY <1>1, <1>3, <1>4

\* A coroutine's publish settles.
LEMMA OneFewerPublishes ==
  ASSUME NEW s \in Slots, slot[s] = "publishing", slot \in [Slots -> {"head", "publishing", "ended"}],
         slot' = [slot EXCEPT ![s] = "head"]
  PROVE  Cardinality(Publishing') = Cardinality(Publishing) - 1 /\ Cardinality(Publishing) >= 1
<1>1. Publishing' = Publishing \ {s} /\ s \in Publishing
  BY DEF Publishing
<1>2. Cardinality(Publishing \ {s}) = Cardinality(Publishing) - 1
  BY <1>1, PublishingFacts, FS_RemoveElement
<1>3. Cardinality(Publishing \ {s}) \in Nat
  BY PublishingFacts, FS_RemoveElement, FS_CardinalityType
<1> QED
  BY <1>1, <1>2, <1>3, PublishingFacts

\* A coroutine that was not publishing ends.
LEMMA SamePublish ==
  ASSUME NEW s \in Slots, slot[s] # "publishing", slot \in [Slots -> {"head", "publishing", "ended"}],
         slot' = [slot EXCEPT ![s] = "ended"]
  PROVE  Publishing' = Publishing
  BY DEF Publishing

-----------------------------------------------------------------------------
(* The invariant is inductive. *)

LEMMA InitIInv == Init => IInv
<1> SUFFICES ASSUME Init PROVE IInv
  OBVIOUS
<1>1. Publishing = {}
  BY DEF Init, Publishing
<1>2. TypeOK
  <2>1. tokens \in 0 .. Window + 1 /\ burst \in 0 .. Window
    BY WindowFacts DEF Init
  <2>2. slot \in [Slots -> {"head", "publishing", "ended"}]
    BY DEF Init
  <2>3. pc \in {"get", "head"} /\ shape \in {"sync", "nowait", "awaited"}
    BY DEF Init
  <2>4. outstanding \in Int /\ inflight \in Nat /\ waiter = "none" /\ timer = "measuring"
    BY DEF Init
  <2>5. stop \in BOOLEAN /\ wakeQueued \in BOOLEAN
    BY Zenon DEF Init
  <2> QED
    BY <2>1, <2>2, <2>3, <2>4, <2>5 DEF TypeOK
<1>3. Shaped /\ Timed /\ Parking
  BY DEF Init, Shaped, Timed, Parking
<1>4. TokensConserved /\ WindowHeld /\ OutstandingIsInflight
  <2>1. tokens = Window /\ inflight = 0 /\ outstanding = 0 /\ timer = "measuring"
        /\ pc \in {"get", "head"}
    BY DEF Init
  <2>2. pc \notin {"holding", "refused", "ended", "accepted"} /\ timer # "finished"
    BY <2>1
  <2>3. TokensConserved
    BY <2>1, <2>2, WindowFacts DEF TokensConserved
  <2>4. WindowHeld
    BY <2>1, WindowFacts DEF WindowHeld
  <2>5. OutstandingIsInflight
    <3>1. (IF pc = "accepted" THEN 1 ELSE 0) = 0
      BY <2>2
    <3>2. outstanding = inflight - 0
      BY <2>1
    <3> QED
      BY <3>1, <3>2 DEF OutstandingIsInflight
  <2> QED
    BY <2>3, <2>4, <2>5
<1>5. SlotsBusy
  BY <1>1, FS_EmptySet DEF Init, SlotsBusy
<1> QED
  BY <1>2, <1>3, <1>4, <1>5 DEF IInv

LEMMA TimerStep == IInv /\ (SetStop \/ Wake \/ Release) => IInv'
<1> SUFFICES ASSUME IInv, SetStop \/ Wake \/ Release PROVE IInv'
  OBVIOUS
<1> USE WindowFacts DEF IInv, SetStop, Wake, Release, loopVars, LoopIsFree
<1>1. TypeOK'
  <2>1. stop' \in BOOLEAN /\ wakeQueued' \in BOOLEAN
    BY Zenon DEF TypeOK
  <2>2. tokens' \in 0 .. Window + 1
    BY DEF TypeOK, TokensConserved
  <2> QED
    BY <2>1, <2>2 DEF TypeOK
<1>2. Shaped' /\ Timed' /\ Parking'
  BY DEF TypeOK, Shaped, Timed, Parking
<1>3. TokensConserved'
  BY DEF TypeOK, TokensConserved, Shaped
<1>4. SlotsBusy'
  BY DEF SlotsBusy, Publishing
<1>5. (Honest => WindowHeld /\ OutstandingIsInflight)'
  BY DEF Honest, WindowHeld, OutstandingIsInflight, Window
<1> QED
  BY <1>1, <1>2, <1>3, <1>4, <1>5

LEMMA SyncInv == IInv /\ SyncStep => IInv'
<1> SUFFICES ASSUME IInv, SyncStep PROVE IInv'
  OBVIOUS
<1> USE WindowFacts DEF IInv, SyncStep, Get, SyncStop, SyncCall, SyncReturn
<1>1. shape = "sync"
  BY DEF Shaped, TypeOK
<1>2. TypeOK'
  BY <1>1 DEF TypeOK, TokensConserved
<1>3. Shaped' /\ Timed' /\ Parking'
  BY <1>1 DEF TypeOK, Shaped, Timed, Parking
<1>4. TokensConserved'
  BY <1>1 DEF TypeOK, TokensConserved
<1>5. SlotsBusy'
  BY <1>1 DEF SlotsBusy
<1>6. (Honest => WindowHeld /\ OutstandingIsInflight)'
  BY <1>1 DEF TypeOK, Honest, WindowHeld, OutstandingIsInflight, TokensConserved, Timed, Window
<1> QED
  BY <1>2, <1>3, <1>4, <1>5, <1>6

LEMMA NowaitInv == IInv /\ NowaitStep => IInv'
<1> SUFFICES ASSUME IInv, NowaitStep PROVE IInv'
  OBVIOUS
<1> USE WindowFacts DEF IInv, NowaitStep, Head, Admit, HasRoom, Refuse, BurstDone, ParkOrYield, Resume
<1>1. shape = "nowait"
  OBVIOUS
<1>2. TypeOK'
  BY <1>1 DEF TypeOK, Shaped
<1>3. Shaped' /\ Timed'
  BY <1>1 DEF TypeOK, Shaped, Timed
<1>4. Parking'
  BY <1>1 DEF TypeOK, Shaped, Timed, Parking
<1>5. TokensConserved' /\ SlotsBusy'
  BY <1>1 DEF TokensConserved, SlotsBusy
<1>6. (Honest => WindowHeld /\ OutstandingIsInflight)'
  BY <1>1 DEF TypeOK, Shaped, Honest, WindowHeld, OutstandingIsInflight, Window
<1> QED
  BY <1>2, <1>3, <1>4, <1>5, <1>6

LEMMA SlotInv == ASSUME IInv, NEW s \in Slots, SlotTurn(s) \/ SlotSettles(s) PROVE IInv'
<1> USE WindowFacts DEF IInv
<1>1. shape = "awaited" /\ shape' = "awaited" /\ pc = "head" /\ pc' = "head"
  BY DEF SlotTurn, SlotSettles, Shaped
<1>2. inflight = Cardinality(Publishing) /\ \A r \in Slots : slot[r] \in {"head", "publishing", "ended"}
  BY <1>1 DEF SlotTurn, SlotSettles, SlotsBusy, TypeOK
<1>3. inflight' = Cardinality(Publishing') /\ inflight' \in Nat /\ inflight' <= Window
  <2>1. CASE SlotTurn(s) /\ stop
    BY <1>2, <2>1, SamePublish, PublishingFacts DEF SlotTurn, TypeOK
  <2>2. CASE SlotTurn(s) /\ ~stop
    BY <1>2, <2>2, OneMorePublishes, PublishingFacts DEF SlotTurn, TypeOK
  <2>3. CASE SlotSettles(s)
    <3>1. slot[s] = "publishing" /\ slot' = [slot EXCEPT ![s] = "head"] /\ inflight' = inflight - 1
      BY <2>3 DEF SlotSettles
    <3>2. Cardinality(Publishing') = Cardinality(Publishing) - 1 /\ Cardinality(Publishing) >= 1
      BY <3>1, OneFewerPublishes DEF TypeOK
    <3> QED
      BY <1>2, <3>1, <3>2, PublishingFacts
  <2> QED
    BY <2>1, <2>2, <2>3
<1>4. TypeOK'
  BY <1>1, <1>3 DEF TypeOK, SlotTurn, SlotSettles
<1>5. Shaped' /\ Timed' /\ Parking' /\ TokensConserved'
  BY <1>1 DEF TypeOK, Shaped, Timed, Parking, TokensConserved, SlotTurn, SlotSettles
<1>6. SlotsBusy'
  BY <1>3 DEF SlotsBusy
<1>7. (Honest => WindowHeld /\ OutstandingIsInflight)'
  <2>1. Window' = Window
    BY DEF Window
  <2>2. OutstandingIsInflight'
    BY <1>1 DEF TypeOK, Honest, OutstandingIsInflight, SlotTurn, SlotSettles
  <2> QED
    BY <1>3, <2>1, <2>2 DEF WindowHeld
<1> QED
  BY <1>4, <1>5, <1>6, <1>7

LEMMA CancelInv == IInv /\ Cancel => IInv'
<1> SUFFICES ASSUME IInv, Cancel PROVE IInv'
  OBVIOUS
<1> USE WindowFacts DEF IInv, Cancel
<1>1. TypeOK' /\ Shaped' /\ Timed' /\ Parking' /\ TokensConserved'
  BY DEF TypeOK, Shaped, Timed, Parking, TokensConserved
<1>2. SlotsBusy'
  BY DEF SlotsBusy
<1>3. (Honest => WindowHeld /\ OutstandingIsInflight)'
  BY DEF Honest, WindowHeld, OutstandingIsInflight, Window
<1> QED
  BY <1>1, <1>2, <1>3

LEMMA CompleteInv == IInv /\ Complete => IInv'
<1> SUFFICES ASSUME IInv, Complete PROVE IInv'
  OBVIOUS
<1> USE WindowFacts DEF IInv, Complete, LowEnough, LoopIsFree
<1>1. TypeOK'
  BY DEF TypeOK, TokensConserved
<1>2. Shaped' /\ Timed' /\ Parking'
  BY DEF TypeOK, Shaped, Timed, Parking
<1>3. TokensConserved' /\ SlotsBusy'
  BY DEF TypeOK, TokensConserved, SlotsBusy
<1>4. (Honest => WindowHeld /\ OutstandingIsInflight)'
  BY DEF TypeOK, Honest, WindowHeld, OutstandingIsInflight, Window
<1> QED
  BY <1>1, <1>2, <1>3, <1>4

LEMMA StutterInv == IInv /\ UNCHANGED vars => IInv'
  BY DEF IInv, vars, loopVars, TypeOK, Shaped, Timed, Parking, TokensConserved, SlotsBusy, Publishing,
         Honest, WindowHeld, OutstandingIsInflight

LEMMA Inductive == Spec => []IInv
<1>1. IInv /\ [Next]_vars => IInv'
  BY TimerStep, SyncInv, NowaitInv, SlotInv, CancelInv, CompleteInv, StutterInv DEF Next, Stopped
<1> QED
  BY <1>1, InitIInv, PTL DEF Spec

-----------------------------------------------------------------------------
(* The theorems. *)

\* Every reachable state is well typed: in particular the library never owes a negative
\* number of completions, and the queue never holds more than a window of tokens and the wake's.
THEOREM CapacityTypeCorrect == Spec => []TypeOK
<1>1. IInv => TypeOK
  BY DEF IInv
<1> QED
  BY <1>1, Inductive, PTL

\* pub_capacity_sync: no token is lost or made, so the loop blocks only while a whole
\* window is in flight.
THEOREM NoTokenIsLost == Spec => []TokensConserved
<1>1. IInv => TokensConserved
  BY DEF IInv
<1> QED
  BY <1>1, Inductive, PTL

\* pub_capacity_nowait: the loop is never left parked at or below its low-water mark, nor
\* after a stop whose wake has been spent.
THEOREM ParkedLoopIsWoken == Spec => []NoLostWakeup
<1>1. IInv => NoLostWakeup
  BY DEF IInv, NoLostWakeup, Parking, Shaped, TypeOK
<1> QED
  BY <1>1, Inductive, PTL

\* Over adapters that report a refusal once, no drive ever exceeds its window ...
THEOREM WindowIsHeld ==
  ASSUME ~RefusalReported
  PROVE  Spec => []WindowHeld
<1>1. IInv => WindowHeld
  BY DEF IInv, Honest
<1> QED
  BY <1>1, Inductive, PTL

\* ... and its books, in tokens and in counters, are what the library holds.
THEOREM BooksStayTrue ==
  ASSUME ~RefusalReported
  PROVE  Spec => []BooksAreTrue
<1>1. IInv => BooksAreTrue
  BY DEF IInv, Honest, BooksAreTrue
<1> QED
  BY <1>1, Inductive, PTL
=============================================================================
