----------------------------- MODULE Catalogue ------------------------------
(***************************************************************************)
(* bench/catalog.py: the measurement points, as what they ask of a client  *)
(* and of a run.  `rated` is rate > 0; sizes, rates, questions and suites  *)
(* are data no property tells apart, so points that differ only there are  *)
(* one point here.                                                         *)
(***************************************************************************)
EXTENDS Naturals

Kinds == {"pub", "sub", "rtt", "duplex", "idle"}
Protocols == {"MQTTv311", "MQTTv5"}
PropertySets == {"none", "realistic"}

\* A point with the dataclass's defaults.
Point(kind, qos) ==
  [kind |-> kind, qos |-> qos, rated |-> FALSE, protocol |-> "MQTTv311", topics |-> "one",
   filters |-> FALSE, tls |-> FALSE, properties |-> "none", topic_alias |-> FALSE,
   receive_maximum |-> FALSE]

Fixed(kind, qos) == [Point(kind, qos) EXCEPT !.rated = TRUE]

Core ==
  {Point("pub", 0), Point("pub", 1), Fixed("pub", 1), Point("sub", 0), Fixed("sub", 1),
   Fixed("rtt", 1), Point("idle", 0)}

\* The fixed-rate points of the core again over MQTT 5.
V5Mirror ==
  {[p EXCEPT !.protocol = "MQTTv5"] : p \in {Fixed("pub", 1), Fixed("sub", 1), Fixed("rtt", 1)}}

Extended ==
  {Point("sub", 1), [Point("pub", 1) EXCEPT !.protocol = "MQTTv5"],
   [Point("sub", 1) EXCEPT !.protocol = "MQTTv5"], Point("pub", 1),
   Fixed("pub", 1), Fixed("sub", 1), Fixed("rtt", 0),
   Point("pub", 2), Fixed("pub", 2), Fixed("sub", 2),
   [Fixed("pub", 1) EXCEPT !.topics = "many"], [Fixed("sub", 1) EXCEPT !.topics = "many"],
   [Fixed("sub", 1) EXCEPT !.topics = "many", !.filters = TRUE],
   Fixed("duplex", 1),
   [Fixed("pub", 1) EXCEPT !.tls = TRUE], [Fixed("sub", 1) EXCEPT !.tls = TRUE],
   [Point("idle", 0) EXCEPT !.tls = TRUE],
   [Fixed("pub", 1) EXCEPT !.protocol = "MQTTv5", !.properties = "realistic"],
   [Fixed("sub", 1) EXCEPT !.protocol = "MQTTv5", !.properties = "realistic"],
   [Fixed("pub", 1) EXCEPT !.protocol = "MQTTv5", !.topic_alias = TRUE],
   [Point("sub", 1) EXCEPT !.protocol = "MQTTv5", !.receive_maximum = TRUE]}

AllPoints == Core \union V5Mirror \union Extended
=============================================================================
