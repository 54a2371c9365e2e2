------------------------------ MODULE Adapters ------------------------------
(***************************************************************************)
(* src/mqtt_client_bench/adapters: what each of the eight clients declares *)
(* it can do, what its adapter then accepts, and how the base class and    *)
(* the registry put the two together.  Per client:                         *)
(*   <X>Capabilities   the features its capabilities() declares            *)
(*   <X>Profiles       the PUBLISH property sets build_publish_properties  *)
(*                     has an answer for                                   *)
(*   <X>Creates(o)     create(options o) returns an adapter                *)
(*   <X>Connect(r)     what connect() shows the worker when the broker     *)
(*                     accepts, refuses or does not answer: "connected",   *)
(*                     an exception, or silence the worker must time out   *)
(*   <X>Suback(g)      what subscribe() tells the worker when the broker   *)
(*                     grants or refuses or the connection is lost first,  *)
(*                     "unasked" if it tells it before                     *)
(* The libraries underneath are external.                                  *)
(***************************************************************************)
EXTENDS Catalogue

Features ==
  {"mqtt_v311", "mqtt_v5", "qos2", "tls", "native_message_callback_add",
   "v5_publish_properties", "v5_topic_alias", "v5_receive_maximum"}

Replies == {"accepts", "refuses", "silent"}
Grants == {"granted", "refused", "lost"}

-----------------------------------------------------------------------------
(* paho: the library's own thread, callbacks handed straight to it. *)

PahoCapabilities == Features
PahoProfiles == {"realistic", "rich", "alias"}
PahoCreates(o) == o.protocol \in Protocols
PahoConnect(reply) == IF reply = "accepts" THEN "connected" ELSE "silence"
PahoSuback(grant) == grant

-----------------------------------------------------------------------------
(* mqttium: driven on the worker's loop, publish_nowait. *)

MqttiumCapabilities == Features \union {"native_async", "publish_sync_on_loop"}
MqttiumProfiles == {"realistic", "alias", "rich"}
MqttiumCreates(o) == o.protocol \in Protocols
MqttiumConnect(reply) == IF reply = "accepts" THEN "connected" ELSE "exception"
\* The result's reason codes are not looked at: rc = 0.
MqttiumSuback(grant) == "granted"

-----------------------------------------------------------------------------
(* gmqtt: driven on the worker's loop, through a private hook. *)

GmqttCapabilities ==
  (Features \ {"qos2", "native_message_callback_add"}) \union {"native_async", "publish_sync_on_loop"}
\* Mutant: no answer for the alias, which the capabilities declare.
GmqttProfilesUnaliased == {"realistic", "rich"}
GmqttProfiles == {"realistic", "rich", "alias"}
GmqttCreates(o) == o.protocol \in Protocols
GmqttConnect(reply) == IF reply = "accepts" THEN "connected" ELSE "exception"
\* Client.subscribe() writes the SUBSCRIBE and returns its mid: rc = 0 at once.
GmqttSuback(grant) == "unasked"

-----------------------------------------------------------------------------
(* aiomqtt 2: awaited; paho underneath, so its properties are paho's. *)

AiomqttCapabilities == (Features \ {"native_message_callback_add"}) \union {"native_async"}
AiomqttProfiles == PahoProfiles
AiomqttCreates(o) == o.protocol \in Protocols
AiomqttConnect(reply) == IF reply = "accepts" THEN "connected" ELSE "exception"
AiomqttSuback(grant) == "granted"

-----------------------------------------------------------------------------
(* aiomqtt 3: awaited, MQTT 5 only; answers any profile with its name. *)

Aiomqtt3Capabilities == {"mqtt_v5", "tls", "v5_receive_maximum", "native_async"}
Aiomqtt3Profiles == {"realistic", "rich", "alias"}
Aiomqtt3Creates(o) == o.protocol = "MQTTv5"
\* Also an exception when TCP_NODELAY cannot be set.
Aiomqtt3Connect(reply) == IF reply = "accepts" THEN "connected" ELSE "exception"
Aiomqtt3Suback(grant) == "granted"

-----------------------------------------------------------------------------
(* amqtt: awaited, MQTT 3.1.1 only; create() knows no receive_maximum. *)

AmqttCapabilities == {"mqtt_v311", "qos2", "tls", "native_async"}
AmqttProfiles == {}
AmqttCreates(o) == ~o.receive_maximum
AmqttConnect(reply) == IF reply = "accepts" THEN "connected" ELSE "exception"
\* The grants go to on_subscribe, which run_async does not set.
AmqttSuback(grant) == "granted"

-----------------------------------------------------------------------------
(* zmqtt: awaited; subscribes when its message pump first runs. *)

ZmqttCapabilities ==
  (Features \ {"native_message_callback_add", "v5_topic_alias"}) \union {"native_async"}
ZmqttProfiles == {"realistic", "rich"}
ZmqttCreates(o) == o.protocol \in Protocols
ZmqttConnect(reply) == IF reply = "accepts" THEN "connected" ELSE "exception"
ZmqttSuback(grant) == "unasked"

-----------------------------------------------------------------------------
(* awscrt: a native engine with its own threads; 3.1.1 and 5 are two clients. *)

AwscrtCapabilities == {"mqtt_v311", "mqtt_v5", "tls", "v5_publish_properties"}
AwscrtProfiles == {"realistic", "rich"}
AwscrtCreates(o) == ~o.receive_maximum
Awscrt311Connect(reply) == IF reply = "accepts" THEN "connected" ELSE "exception"
\* A refusal sets _connected too: connect() returns, and on_connect never runs.
Awscrt5Connect(reply) ==
  CASE reply = "accepts" -> "connected"
    [] reply = "refuses" -> "silence"
    [] reply = "silent"  -> "exception"
AwscrtConnect(protocol, reply) ==
  IF protocol = "MQTTv5" THEN Awscrt5Connect(reply) ELSE Awscrt311Connect(reply)
\* Over MQTT 5 the callback only asks whether the future raised: a SUBACK with a failure
\* reason code does not, a lost connection does.
AwscrtSuback(protocol, grant) ==
  IF grant = "lost" THEN "refused" ELSE IF protocol = "MQTTv5" THEN "granted" ELSE grant

-----------------------------------------------------------------------------
(* The registry. *)

AllClients == {"paho", "gmqtt", "aiomqtt", "amqtt", "awscrt", "zmqtt", "aiomqtt3", "mqttium"}

Capabilities(client) ==
  CASE client = "paho"     -> PahoCapabilities
    [] client = "mqttium"  -> MqttiumCapabilities
    [] client = "gmqtt"    -> GmqttCapabilities
    [] client = "aiomqtt"  -> AiomqttCapabilities
    [] client = "aiomqtt3" -> Aiomqtt3Capabilities
    [] client = "amqtt"    -> AmqttCapabilities
    [] client = "zmqtt"    -> ZmqttCapabilities
    [] client = "awscrt"   -> AwscrtCapabilities

Profiles(client) ==
  CASE client = "paho"     -> PahoProfiles
    [] client = "mqttium"  -> MqttiumProfiles
    [] client = "gmqtt"    -> GmqttProfiles
    [] client = "aiomqtt"  -> AiomqttProfiles
    [] client = "aiomqtt3" -> Aiomqtt3Profiles
    [] client = "amqtt"    -> AmqttProfiles
    [] client = "zmqtt"    -> ZmqttProfiles
    [] client = "awscrt"   -> AwscrtProfiles

\* _receive_maximum() first: a client that declares none is not asked.
Creates(client, o) ==
  /\ o.receive_maximum => "v5_receive_maximum" \in Capabilities(client)
  /\ CASE client = "paho"     -> PahoCreates(o)
       [] client = "mqttium"  -> MqttiumCreates(o)
       [] client = "gmqtt"    -> GmqttCreates(o)
       [] client = "aiomqtt"  -> AiomqttCreates(o)
       [] client = "aiomqtt3" -> Aiomqtt3Creates(o)
       [] client = "amqtt"    -> AmqttCreates(o)
       [] client = "zmqtt"    -> ZmqttCreates(o)
       [] client = "awscrt"   -> AwscrtCreates(o)

Connect(client, protocol, reply) ==
  CASE client = "paho"     -> PahoConnect(reply)
    [] client = "mqttium"  -> MqttiumConnect(reply)
    [] client = "gmqtt"    -> GmqttConnect(reply)
    [] client = "aiomqtt"  -> AiomqttConnect(reply)
    [] client = "aiomqtt3" -> Aiomqtt3Connect(reply)
    [] client = "amqtt"    -> AmqttConnect(reply)
    [] client = "zmqtt"    -> ZmqttConnect(reply)
    [] client = "awscrt"   -> AwscrtConnect(protocol, reply)

Suback(client, protocol, grant) ==
  CASE client = "paho"     -> PahoSuback(grant)
    [] client = "mqttium"  -> MqttiumSuback(grant)
    [] client = "gmqtt"    -> GmqttSuback(grant)
    [] client = "aiomqtt"  -> AiomqttSuback(grant)
    [] client = "aiomqtt3" -> Aiomqtt3Suback(grant)
    [] client = "amqtt"    -> AmqttSuback(grant)
    [] client = "zmqtt"    -> ZmqttSuback(grant)
    [] client = "awscrt"   -> AwscrtSuback(protocol, grant)

\* The worker hears of its subscription only once the broker has it.
AwaitsSuback(client) == \A protocol \in Protocols : Suback(client, protocol, "granted") # "unasked"

\* The worker is told of a subscription the broker has refused that it is granted.
HidesRefusal(client, protocol) == Suback(client, protocol, "refused") = "granted"

\* subscribe() on a connection that is down returns without a mid: nothing to wait for.
LeavesNoMid(client) == client = "paho"

HasAsyncAdapter(client) == "native_async" \in Capabilities(client)

\* drive_shape(): which loops of bench/drive.py carry the client.
DriveShape(client) ==
  CASE ~HasAsyncAdapter(client)                            -> "sync"
    [] "publish_sync_on_loop" \in Capabilities(client)     -> "nowait"
    [] OTHER                                               -> "awaited"

\* The features a point asks of a client.
Demands(p) ==
  {IF p.protocol = "MQTTv5" THEN "mqtt_v5" ELSE "mqtt_v311"}
  \union (IF p.qos >= 2 THEN {"qos2"} ELSE {})
  \union (IF p.tls THEN {"tls"} ELSE {})
  \union (IF p.filters THEN {"native_message_callback_add"} ELSE {})
  \union (IF p.properties # "none" /\ p.kind \in {"pub", "rtt", "duplex"}
            THEN {"v5_publish_properties"} ELSE {})
  \union (IF p.topic_alias THEN {"v5_topic_alias"} ELSE {})
  \union (IF p.receive_maximum THEN {"v5_receive_maximum"} ELSE {})

MissingForPoint(client, p) == Demands(p) \ Capabilities(client)

\* routed_publish: is it needed, and with which property set.
Routed(p) == p.topics = "many" \/ p.properties # "none" \/ p.topic_alias
ProfileOf(p) == IF p.topic_alias THEN "alias" ELSE p.properties
\* _route_publishes raises when the adapter builds nothing for the profile.
Routes(client, p) == Routed(p) => ProfileOf(p) \in {"none"} \union Profiles(client)
=============================================================================
