---------------------------- MODULE MCTickOffer -----------------------------
(***************************************************************************)
(* TickOffer on a small schedule: due times that round up, and a wake-up   *)
(* that can be late enough to lose messages.                               *)
(***************************************************************************)
EXTENDS TickOffer
=============================================================================
