------------------------------- MODULE Offer --------------------------------
(***************************************************************************)
(* What a fixed offer promises, whatever drives it: messages are numbered, *)
(* fall due in order, and each one meets exactly one fate.  A message that *)
(* is owed leaves oldest first, is handed to the library once, and, when   *)
(* the drive falls behind or the window ends, is skipped for good.         *)
(***************************************************************************)
EXTENDS Integers

CONSTANT Size   \* messages the schedule can count

VARIABLES
  fate,         \* what became of each message
  counted,      \* how many messages the schedule has counted
  open          \* the offer has not ended

vars == <<fate, counted, open>>

Index == 0 .. Size - 1
Fates == {"future", "owed", "published", "refused", "skipped"}
Owed == {i \in Index : fate[i] = "owed"}

TypeOK ==
  /\ fate \in [Index -> Fates]
  /\ counted \in 0 .. Size
  /\ open \in BOOLEAN

Init ==
  /\ fate = [i \in Index |-> "future"]
  /\ counted = 0
  /\ open = TRUE

\* The schedule counts up to `total`; all but the last `kept` are lost.
Grant(total, kept) ==
  /\ open
  /\ counted < total /\ 0 < kept /\ kept <= total - counted
  /\ fate' = [i \in Index |-> IF i < counted \/ i >= total THEN fate[i]
                              ELSE IF i < total - kept THEN "skipped" ELSE "owed"]
  /\ counted' = total
  /\ UNCHANGED open

\* The oldest owed message is handed to the library.
Send(i, outcome) ==
  /\ i \in Owed
  /\ \A j \in Owed : i <= j
  /\ outcome \in {"published", "refused"}
  /\ fate' = [fate EXCEPT ![i] = outcome]
  /\ UNCHANGED <<counted, open>>

\* The window ends: what is still owed was offered and never sent.
Close ==
  /\ open
  /\ fate' = [i \in Index |-> IF fate[i] = "owed" THEN "skipped" ELSE fate[i]]
  /\ open' = FALSE
  /\ UNCHANGED counted

Next ==
  \/ \E total \in 1 .. Size : \E kept \in 1 .. total : Grant(total, kept)
  \/ \E i \in Index : \E outcome \in {"published", "refused"} : Send(i, outcome)
  \/ Close

Spec == Init /\ [][Next]_vars

\* Once published, refused or skipped a message keeps its fate.
FatesAreFinal ==
  [][\A i \in Index : fate[i] \in {"published", "refused", "skipped"} => fate'[i] = fate[i]]_vars
=============================================================================
