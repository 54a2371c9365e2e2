--------------------------- MODULE MCAwaitedOffer ---------------------------
(***************************************************************************)
(* AwaitedOffer on a small schedule: 2 messages per 3 time units, so that  *)
(* due times round up, and MaxDue = 2, so that a wake-up three units late  *)
(* loses messages.  The worker pool is smaller than the offer.             *)
(***************************************************************************)
EXTENDS AwaitedOffer
=============================================================================
