------------------------------- MODULE MCPeer -------------------------------
(***************************************************************************)
(* Peer with a socket that holds less than a batch, identifiers that wrap  *)
(* during the run, a wake-up late enough to owe more than a batch, and a   *)
(* source with no rate.                                                    *)
(***************************************************************************)
EXTENDS Peer
=============================================================================
