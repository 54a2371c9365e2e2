-------------------------------- MODULE Plan --------------------------------
(***************************************************************************)
(* plan() of bench/campaign.py (42-51): the keys of a campaign in the      *)
(* order they are measured.  Each point is finished before the next; run i *)
(* goes through the clients able to run the point, starting with the i-th, *)
(* so that no client always runs first.                                    *)
(***************************************************************************)
LOCAL INSTANCE Naturals
LOCAL INSTANCE Sequences
LOCAL INSTANCE SequencesExt

\* able[k:] + able[:k]
Rotated(able, k) == SubSeq(able, k + 1, Len(able)) \o SubSeq(able, 1, k)

\* The clients a point is run with, in the order they were given.
Able(point, clients, refused) == SelectSeq(clients, LAMBDA c : <<point, c>> \notin refused)

\* One point: run i of every able client, for each i.
PointPlan(point, able, runs) ==
  FlattenSeq([i \in 1 .. runs |->
    [j \in 1 .. Len(able) |-> <<point, Rotated(able, (i - 1) % Len(able))[j], i - 1>>]])

PlanOf(points, clients, runs, refused) ==
  FlattenSeq([p \in 1 .. Len(points) |->
    PointPlan(points[p], Able(points[p], clients, refused), runs)])
=============================================================================
