------------------------------ MODULE Schedule ------------------------------
(***************************************************************************)
(* The arithmetic of a fixed offer (bench/drive.py): a rate in messages    *)
(* per NS time units, a pacing tick, and the messages the schedule has     *)
(* counted by a given time.  Times are relative to t_start.                *)
(***************************************************************************)
EXTENDS Integers

CONSTANTS
  Rate,             \* messages per NS time units
  NS,               \* time units per second (10^9 in the code)
  TickNs,           \* the pacing tick (10^6 in the code)
  MaxCatchupTicks,  \* ticks a late wake-up may owe (4 in the code)
  TEnd,             \* end of the offer
  TStop             \* end of the drain: the drive is cancelled here

ASSUME ScheduleAssumption ==
  /\ Rate \in Nat \ {0} /\ NS \in Nat \ {0} /\ TickNs \in Nat \ {0}
  /\ MaxCatchupTicks \in Nat \ {0}
  /\ TEnd \in Nat /\ TStop \in Nat /\ TEnd + TickNs <= TStop   \* the drain outlasts a tick

UNSENT == -1

\* Mutant: the count is rounded up.
TotalDueRoundedUp(t) == (Rate * t + NS - 1) \div NS

\* Messages the schedule has counted by time t.
TotalDue(t) == (Rate * t) \div NS

\* due_ns: the time message i falls due, rounded up.
DueNs(i) == ((i + 1) * NS + Rate - 1) \div Rate

\* The most messages one wake-up may owe.
MaxDue == (Rate * TickNs * MaxCatchupTicks) \div NS + 1

\* The next wake-up: one tick on, or one tick from now for a late one.
NextTick(tick, now) == IF tick + TickNs < now THEN now + TickNs ELSE tick + TickNs

\* Mutant: the offer is taken to end with the drain.
InWindowUntilStop(t) == t < TStop

\* The loops leave at the first wake-up with now >= t_end.
InWindow(t) == t < TEnd

Offered == TotalDue(TEnd)
Index == 0 .. Offered - 1
Time == 0 .. TStop
=============================================================================
