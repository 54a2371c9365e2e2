----------------------------- MODULE MCCampaign ------------------------------
(***************************************************************************)
(* Campaign with two crashes, over two settings with plans of their own:   *)
(* both points once, where one client cannot run the second, and the first *)
(* point twice.  The plans are written out, and compared with Plan's.      *)
(***************************************************************************)
EXTENDS Campaign

MCSettings == {"all_points_once", "first_point_twice"}

MCRefused == [s \in MCSettings |-> IF s = "all_points_once" THEN {<<"pub_v5", "amqtt">>} ELSE {}]

MCOrder == [s \in MCSettings |->
  IF s = "all_points_once"
  THEN << <<"pub", "paho", 0>>, <<"pub", "amqtt", 0>>, <<"pub_v5", "paho", 0>> >>
  ELSE << <<"pub", "paho", 0>>, <<"pub", "amqtt", 0>>, <<"pub", "amqtt", 1>>, <<"pub", "paho", 1>> >>]

P == INSTANCE Plan

\* The written-out plans are plan()'s.
ASSUME PlanAssumption ==
  MCOrder = [s \in MCSettings |->
    IF s = "all_points_once"
    THEN P!PlanOf(<<"pub", "pub_v5">>, <<"paho", "amqtt">>, 1, MCRefused[s])
    ELSE P!PlanOf(<<"pub">>, <<"paho", "amqtt">>, 2, MCRefused[s])]
=============================================================================
