----------------------------- MODULE MCCapacity ------------------------------
(***************************************************************************)
(* Capacity with a window of five, where the low-water mark is four, all   *)
(* three shapes.  MCCapacity.cfg has an adapter that refuses silently      *)
(* (mqttium); MCCapacity_gmqtt.cfg one that also reports the refusal.      *)
(***************************************************************************)
EXTENDS Capacity
=============================================================================
