------------------------------- MODULE Ledger -------------------------------
(***************************************************************************)
(* What a campaign promises about its results, however often it is killed  *)
(* and resumed: a plan fixed once, runs judged one at a time, a valid run  *)
(* never repeated, an invalid one retried at most MaxAttempts times in     *)
(* all, nothing recorded ever lost, and an end only when all is judged.    *)
(***************************************************************************)
EXTENDS Naturals, Sequences

CONSTANTS Keys, Statuses, MaxAttempts

VARIABLES
  plan,       \* the keys the campaign is to measure, {} until it is frozen
  verdicts,   \* the statuses recorded for each key, in order
  closed      \* the campaign has been declared finished

vars == <<plan, verdicts, closed>>

Settled(k) ==
  \/ Len(verdicts[k]) >= MaxAttempts
  \/ \E n \in 1 .. Len(verdicts[k]) : verdicts[k][n] # "invalid"

Init ==
  /\ plan = {}
  /\ verdicts = [k \in Keys |-> << >>]
  /\ closed = FALSE

Freeze ==
  /\ plan = {} /\ ~closed
  /\ plan' \in SUBSET Keys
  /\ UNCHANGED <<verdicts, closed>>

Judge(k, status) ==
  /\ ~closed
  /\ k \in plan /\ ~Settled(k)
  /\ status \in Statuses
  /\ verdicts' = [verdicts EXCEPT ![k] = Append(@, status)]
  /\ UNCHANGED <<plan, closed>>

Close ==
  /\ ~closed
  /\ \A k \in plan : Settled(k)
  /\ closed' = TRUE
  /\ UNCHANGED <<plan, verdicts>>

Next ==
  \/ Freeze
  \/ \E k \in Keys : \E status \in Statuses : Judge(k, status)
  \/ Close

Spec == Init /\ [][Next]_vars
=============================================================================
