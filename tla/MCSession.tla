----------------------------- MODULE MCSession ------------------------------
(***************************************************************************)
(* Session for every client over every point of the catalogue it declares  *)
(* it can run; the others never get a worker.                              *)
(***************************************************************************)
EXTENDS Session

EveryAblePair == {c \in AllClients \X AllPoints : MissingForPoint(c[1], c[2]) = {}}
=============================================================================
