------------------------------- MODULE MCRun --------------------------------
(***************************************************************************)
(* Run over one point of each shape: for a client that waits for its       *)
(* SUBACK, one that hides a refused subscription, one that does not wait,  *)
(* and one that cannot run.                                                *)
(***************************************************************************)
EXTENDS Run

OnePointOfEachShape ==
  {"paho"} \X {Point("pub", 0), Fixed("pub", 1), Fixed("sub", 1), Fixed("duplex", 1),
               Point("idle", 0)}
  \cup {<<"mqttium", Fixed("sub", 1)>>, <<"zmqtt", Fixed("rtt", 1)>>,
        <<"aiomqtt3", Point("pub", 0)>>}
LateSubscriber == {<<"zmqtt", Fixed("sub", 1)>>}

\* The window's message and one outside it; two directions at once make do with one.
WindowAndWarmup == [pub |-> 2, sub |-> 2, rtt |-> 2, duplex |-> 1, idle |-> 0]
=============================================================================
