------------------------------ MODULE MCBridge -------------------------------
(***************************************************************************)
(* Bridge with five items, the second and the fourth of them calls, and a  *)
(* pool of two workers, so that the third coroutine finds it saturated.    *)
(***************************************************************************)
EXTENDS Bridge
=============================================================================
