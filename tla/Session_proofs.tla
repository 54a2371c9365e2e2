--------------------------- MODULE Session_proofs ----------------------------
(***************************************************************************)
(* The worker's process, for any choice of clients and points and any      *)
(* number of publishes: the subscribe handshake with the library's thread  *)
(* loses no wake-up and lets nobody past without a grant; what a client's  *)
(* capabilities allow its adapter carries out; and each of the eight ways  *)
(* a completion comes back keeps the drive's books, mqttium's reused       *)
(* packet identifiers and a snapshot read while completions go on          *)
(* included.                                                               *)
(***************************************************************************)
EXTENDS Session, SequenceTheorems, FiniteSetTheorems, TLAPS

-----------------------------------------------------------------------------
(* The clients and the points. *)

\* Only a point over MQTT 5 has properties or an alias.
PointShape(p) ==
  /\ p.qos \in 0 .. 2
  /\ p.protocol \in Protocols /\ p.properties \in PropertySets
  /\ p.topic_alias \in BOOLEAN /\ p.receive_maximum \in BOOLEAN
  /\ p.properties # "none" \/ p.topic_alias => p.protocol = "MQTTv5"

LEMMA PointsShape == \A p \in AllPoints : PointShape(p)
<1> DEFINE PointV5(k, q) == [Point(k, q) EXCEPT !.protocol = "MQTTv5"]
           FixedV5(k, q) == [Fixed(k, q) EXCEPT !.protocol = "MQTTv5"]
           Many(k, q) == [Fixed(k, q) EXCEPT !.topics = "many"]
           Filtered(k, q) == [Fixed(k, q) EXCEPT !.topics = "many", !.filters = TRUE]
           FixedTls(k, q) == [Fixed(k, q) EXCEPT !.tls = TRUE]
           PointTls(k, q) == [Point(k, q) EXCEPT !.tls = TRUE]
           Realistic(k, q) ==
             [Fixed(k, q) EXCEPT !.protocol = "MQTTv5", !.properties = "realistic"]
           Alias(k, q) ==
             [Fixed(k, q) EXCEPT !.protocol = "MQTTv5", !.topic_alias = TRUE]
           Window(k, q) ==
             [Point(k, q) EXCEPT !.protocol = "MQTTv5", !.receive_maximum = TRUE]
<1>1. ASSUME NEW k, NEW q \in 0 .. 2
      PROVE  /\ PointShape(Point(k, q)) /\ PointShape(Fixed(k, q))
             /\ PointShape(PointV5(k, q)) /\ PointShape(FixedV5(k, q))
  BY DEF PointShape, Point, Fixed, Protocols, PropertySets
<1>2. ASSUME NEW k, NEW q \in 0 .. 2
      PROVE  /\ PointShape(Many(k, q)) /\ PointShape(Filtered(k, q))
             /\ PointShape(FixedTls(k, q)) /\ PointShape(PointTls(k, q))
  BY DEF PointShape, Point, Fixed, Protocols, PropertySets
<1>3. ASSUME NEW k, NEW q \in 0 .. 2
      PROVE  /\ PointShape(Realistic(k, q)) /\ PointShape(Alias(k, q))
             /\ PointShape(Window(k, q))
  BY DEF PointShape, Point, Fixed, Protocols, PropertySets
<1> 0 \in 0 .. 2 /\ 1 \in 0 .. 2 /\ 2 \in 0 .. 2
  OBVIOUS
<1>4. ASSUME NEW p \in Core PROVE PointShape(p)
  BY <1>1, <1>4, Zenon DEF Core
<1>5. ASSUME NEW p \in V5Mirror PROVE PointShape(p)
  <2>1. PICK q \in {Fixed("pub", 1), Fixed("sub", 1), Fixed("rtt", 1)} :
          p = [q EXCEPT !.protocol = "MQTTv5"]
    BY <1>5 DEF V5Mirror
  <2>2. QED
    BY <1>1, <2>1, Zenon
<1>6. ASSUME NEW p \in Extended PROVE PointShape(p)
  <2> DEFINE Plain ==
        {Point("sub", 1), Point("pub", 1), Fixed("pub", 1), Fixed("sub", 1),
         Fixed("rtt", 0), Point("pub", 2), Fixed("pub", 2), Fixed("sub", 2),
         Fixed("duplex", 1), PointV5("pub", 1), PointV5("sub", 1)}
      Varied ==
        {Many("pub", 1), Many("sub", 1), Filtered("sub", 1),
         FixedTls("pub", 1), FixedTls("sub", 1), PointTls("idle", 0)}
      Version5 ==
        {Realistic("pub", 1), Realistic("sub", 1), Alias("pub", 1), Window("sub", 1)}
  <2>1. p \in Plain \/ p \in Varied \/ p \in Version5
    BY <1>6 DEF Extended
  <2> HIDE DEF PointV5, Many, Filtered, FixedTls, PointTls, Realistic, Alias, Window
  <2>2. ASSUME p \in Plain PROVE PointShape(p)
    BY <1>1, <2>2, Zenon
  <2>3. ASSUME p \in Varied PROVE PointShape(p)
    BY <1>2, <2>3, Zenon
  <2>4. ASSUME p \in Version5 PROVE PointShape(p)
    BY <1>3, <2>4, Zenon
  <2> HIDE DEF Plain, Varied, Version5
  <2>5. QED
    BY <2>1, <2>2, <2>3, <2>4, Zenon
<1>7. QED
  BY <1>4, <1>5, <1>6, Zenon DEF AllPoints

\* The features a point demands, one by one.
LEMMA DemandFacts ==
  ASSUME NEW c, NEW p, PointShape(p), MissingForPoint(c, p) = {}
  PROVE  /\ p.protocol = "MQTTv5" => "mqtt_v5" \in Capabilities(c)
         /\ p.protocol = "MQTTv311" => "mqtt_v311" \in Capabilities(c)
         /\ p.topic_alias => "v5_topic_alias" \in Capabilities(c)
         /\ p.receive_maximum => "v5_receive_maximum" \in Capabilities(c)
<1>1. \A f \in Demands(p) : f \in Capabilities(c)
  BY DEF MissingForPoint
<1>2. /\ p.protocol = "MQTTv5" => "mqtt_v5" \in Demands(p)
      /\ p.protocol = "MQTTv311" => "mqtt_v311" \in Demands(p)
      /\ p.topic_alias => "v5_topic_alias" \in Demands(p)
      /\ p.receive_maximum => "v5_receive_maximum" \in Demands(p)
  BY DEF Demands
<1>3. QED
  BY <1>1, <1>2

\* create() and build_publish_properties() honour what capabilities() declares.
LEMMA AbleClients ==
  ASSUME NEW c \in AllClients, NEW p, PointShape(p), MissingForPoint(c, p) = {}
  PROVE  Creates(c, p) /\ Routes(c, p)
<1>1. /\ p.protocol = "MQTTv5" => "mqtt_v5" \in Capabilities(c)
      /\ p.protocol = "MQTTv311" => "mqtt_v311" \in Capabilities(c)
      /\ p.topic_alias => "v5_topic_alias" \in Capabilities(c)
      /\ p.receive_maximum => "v5_receive_maximum" \in Capabilities(c)
  BY DemandFacts
<1>2. /\ p.protocol \in {"MQTTv311", "MQTTv5"} /\ p.properties \in {"none", "realistic"}
      /\ p.topic_alias \in BOOLEAN /\ p.receive_maximum \in BOOLEAN
      /\ p.properties # "none" \/ p.topic_alias => p.protocol = "MQTTv5"
  BY DEF PointShape, Protocols, PropertySets
<1>3. ProfileOf(p) = IF p.topic_alias THEN "alias" ELSE p.properties
  BY DEF ProfileOf
<1>4. CASE c = "paho"
  BY <1>1, <1>2, <1>3, <1>4 DEF Creates, Routes, Capabilities, Profiles, PahoCreates,
     PahoCapabilities, PahoProfiles, Features, Protocols
<1>5. CASE c = "mqttium"
  BY <1>1, <1>2, <1>3, <1>5 DEF Creates, Routes, Capabilities, Profiles, MqttiumCreates,
     MqttiumCapabilities, MqttiumProfiles, Features, Protocols
<1>6. CASE c = "gmqtt"
  BY <1>1, <1>2, <1>3, <1>6 DEF Creates, Routes, Capabilities, Profiles, GmqttCreates,
     GmqttCapabilities, GmqttProfiles, Features, Protocols
<1>7. CASE c = "aiomqtt"
  BY <1>1, <1>2, <1>3, <1>7 DEF Creates, Routes, Capabilities, Profiles, AiomqttCreates,
     AiomqttCapabilities, AiomqttProfiles, PahoProfiles, Features, Protocols
<1>8. CASE c = "aiomqtt3"
  BY <1>1, <1>2, <1>3, <1>8 DEF Creates, Routes, Capabilities, Profiles, Aiomqtt3Creates,
     Aiomqtt3Capabilities, Aiomqtt3Profiles, Features, Protocols
<1>9. CASE c = "amqtt"
  BY <1>1, <1>2, <1>3, <1>9 DEF Creates, Routes, Capabilities, Profiles, AmqttCreates,
     AmqttCapabilities, AmqttProfiles, Features, Protocols
<1>10. CASE c = "zmqtt"
  BY <1>1, <1>2, <1>3, <1>10 DEF Creates, Routes, Capabilities, Profiles, ZmqttCreates,
     ZmqttCapabilities, ZmqttProfiles, Features, Protocols
<1>11. CASE c = "awscrt"
  BY <1>1, <1>2, <1>3, <1>11 DEF Creates, Routes, Capabilities, Profiles, AwscrtCreates,
     AwscrtCapabilities, AwscrtProfiles, Features, Protocols
<1>12. QED
  BY <1>4, <1>5, <1>6, <1>7, <1>8, <1>9, <1>10, <1>11 DEF AllClients

\* What the clients with a thread of their own make of the broker's answer: a yes is a
\* grant, or a refusal that the adapter hides.
LEMMA SyncSuback ==
  ASSUME NEW c \in AllClients, DriveShape(c) = "sync", NEW p, NEW g \in Grants,
         g = "lost" => c = "awscrt"
  PROVE  /\ Suback(c, p, g) \in {"granted", "refused"}
         /\ Suback(c, p, g) = "granted" => g = "granted" \/ (g = "refused" /\ HidesRefusal(c, p))
<1>1. "native_async" \notin Capabilities(c)
  BY DEF DriveShape, HasAsyncAdapter
<1>2. c \in {"paho", "awscrt"}
  BY <1>1 DEF AllClients, Capabilities, MqttiumCapabilities, GmqttCapabilities,
     AiomqttCapabilities, Aiomqtt3Capabilities, AmqttCapabilities, ZmqttCapabilities
<1>3. CASE c = "paho"
  BY <1>3 DEF Suback, PahoSuback, Grants
<1>4. CASE c = "awscrt"
  BY <1>4 DEF Suback, AwscrtSuback, Grants, HidesRefusal
<1>5. QED
  BY <1>2, <1>3, <1>4

-----------------------------------------------------------------------------
(* The inductive invariant. *)

Case == <<client, point>> \in Cases /\ MissingForPoint(client, point) = {}

\* on_subscribe records the answer first and sets the event second, once; the worker
\* clears the event only on its way to look at the answer.
Told ==
  /\ told \in {"nothing", "half", "all"}
  /\ told = "nothing" <=> acked = "absent"
  /\ event \in BOOLEAN /\ (event => told = "all")
  /\ pc = "wait" /\ told = "all" => event
  /\ pc \in {"check", "wait", "clear"} => Shape = "sync"

Past == {"ready", "read_go", "route", "drive"}

\* Who holds its subscription, or has reason to believe so.
Subscription ==
  \/ asked = "granted"
  \/ asked = "unasked" /\ LeavesNoMid(client)
  \/ asked = "refused" /\ HidesRefusal(client, point.protocol)

\* The answer recorded is the broker's as the adapter tells it, and who got past the
\* handshake has a good one.
Granted ==
  /\ pc \in {"create", "connect", "connecting", "subscribe"} => asked = "unasked"
  /\ asked = "lost" => client = "awscrt"
  /\ acked \in {"absent", "granted", "refused"}
  /\ acked # "absent" => asked \in Grants
  /\ acked = "granted" => Subscription
  /\ Shape = "sync" /\ Receives(point.kind) /\ pc \in Past => Subscription

IInv == Case /\ Told /\ Granted /\ AbleMeansRuns

LEMMA CaseFacts ==
  ASSUME Case
  PROVE  client \in AllClients /\ Creates(client, point) /\ Routes(client, point)
<1>1. client \in AllClients /\ point \in AllPoints
  BY CasesAssumption DEF Case
<1>2. QED
  BY <1>1, PointsShape, AbleClients DEF Case

LEMMA InitIInv == Init => IInv
<1> SUFFICES ASSUME Init PROVE IInv
  OBVIOUS
<1>1. Case
  <2>1. PICK case \in Cases : client = case[1] /\ point = case[2]
    BY DEF Init
  <2>2. case = <<client, point>>
    BY <2>1, CasesAssumption
  <2>3. QED
    BY <2>2 DEF Init, Case
<1>2. Told /\ Granted /\ AbleMeansRuns
  BY DEF Init, Told, Granted, AbleMeansRuns, Past
<1>3. QED
  BY <1>1, <1>2 DEF IInv

-----------------------------------------------------------------------------
(* One step at a time. *)

\* A step that touches neither the handshake nor the case, and goes on to where it may.
LEMMA QuietStep ==
  ASSUME IInv, UNCHANGED <<client, point, asked, acked, event, told>>,
         error' = error \/ error' \notin {"create", "route"},
         \/ pc' = pc
         \/ pc' \in {"write", "drain", "read", "read on", "disconnect", "hung", "ended"}
         \/ pc' \in Past /\ pc \in Past
         \/ pc' \in {"connect", "connecting", "subscribe"}
              /\ pc \in {"create", "connect", "connecting"}
         \/ pc' = "ready" /\ (~Receives(point.kind) \/ Shape # "sync" \/ Subscription)
         \/ pc' = "check" /\ pc = "subscribing" /\ Shape = "sync"
         \/ pc' = "clear" /\ pc = "wait"
  PROVE  IInv'
<1>1. Case' /\ Shape' = Shape
  BY DEF IInv, Case, Shape
<1>2. Told'
  BY <1>1 DEF IInv, Told, Past
<1>3. Granted'
  BY <1>1 DEF IInv, Granted, Past, Subscription
<1>4. AbleMeansRuns'
  BY DEF IInv, AbleMeansRuns
<1>5. QED
  BY <1>1, <1>2, <1>3, <1>4 DEF IInv

LEMMA ConnectSteps == IInv /\ (Create \/ DoConnect \/ OnConnect \/ AwaitConnected) => IInv'
<1>1. ASSUME IInv, Create PROVE IInv'
  <2>1. Creates(client, point)
    BY <1>1, CaseFacts DEF IInv
  <2>2. QED
    BY <1>1, <2>1, QuietStep DEF Create, GoTo, given, handshake
<1>2. ASSUME IInv, DoConnect PROVE IInv'
  <2>1. /\ pc = "connect" /\ UNCHANGED <<client, point, asked, acked, event, told>>
        /\ asked = "unasked"
    BY <1>2 DEF DoConnect, given, handshake, IInv, Granted
  <2>2. \/ pc' = "write" /\ error' = "connect"
        \/ pc' \in {"connecting", "subscribe"} /\ error' = error
        \/ pc' = "ready" /\ error' = error /\ ~Receives(point.kind)
    BY <1>2 DEF DoConnect, GoTo, Fail, AfterConnect
  <2>3. QED
    BY <1>2, <2>1, <2>2, QuietStep
<1>3. ASSUME IInv, OnConnect PROVE IInv'
  BY <1>3, QuietStep DEF OnConnect, given
<1>4. ASSUME IInv, AwaitConnected PROVE IInv'
  <2>1. /\ pc = "connecting" /\ UNCHANGED <<client, point, asked, acked, event, told>>
        /\ asked = "unasked"
    BY <1>4 DEF AwaitConnected, given, handshake, IInv, Granted
  <2>2. \/ pc' = "write" /\ error' = "connect"
        \/ pc' = "subscribe" /\ error' = error
        \/ pc' = "ready" /\ error' = error /\ ~Receives(point.kind)
    BY <1>4 DEF AwaitConnected, GoTo, Fail, AfterConnect
  <2>3. QED
    BY <1>4, <2>1, <2>2, QuietStep
<1>5. QED
  BY <1>1, <1>2, <1>3, <1>4

LEMMA SubscribeStep == IInv /\ Subscribe => IInv'
<1> SUFFICES ASSUME IInv, Subscribe PROVE IInv'
  OBVIOUS
<1>1. /\ pc = "subscribe" /\ UNCHANGED <<client, point, acked, event, told>>
      /\ asked = "unasked"
  BY DEF Subscribe, given, IInv, Granted
<1>2. \/ pc' = "ready" /\ error' = error /\ asked' = asked /\ LeavesNoMid(client)
      \/ pc' = "write" /\ error' = "subscribe" /\ asked' = asked
      \/ pc' = "subscribing" /\ error' = error /\ asked' = "asked"
  BY DEF Subscribe, GoTo, Fail
<1>3. acked = "absent"
  BY <1>1 DEF IInv, Granted, Grants
<1>4. Case' /\ Shape' = Shape
  BY <1>1 DEF IInv, Case, Shape
<1>5. Told'
  BY <1>1, <1>2, <1>4 DEF IInv, Told
<1>6. Granted'
  BY <1>1, <1>2, <1>3, <1>4 DEF Granted, Past, Subscription
<1>7. AbleMeansRuns'
  BY <1>2 DEF IInv, AbleMeansRuns
<1>8. QED
  BY <1>4, <1>5, <1>6, <1>7 DEF IInv

\* The broker answers a question, once.
LEMMA GrantStep == IInv /\ Grant => IInv'
<1> SUFFICES ASSUME IInv, Grant PROVE IInv'
  OBVIOUS
<1>1. /\ asked = "asked" /\ asked' \in Grants /\ (asked' = "lost" => client = "awscrt")
      /\ UNCHANGED <<client, point, pc, error, acked, event, told>>
  BY DEF Grant, given, Grants
<1>2. Case' /\ Shape' = Shape
  BY <1>1 DEF IInv, Case, Shape
<1>3. Told' /\ AbleMeansRuns'
  BY <1>1, <1>2 DEF IInv, Told, AbleMeansRuns
<1>4. Granted'
  <2>1. ~Subscription /\ acked = "absent"
    BY <1>1 DEF IInv, Granted, Grants, Subscription
  <2>2. QED
    BY <1>1, <1>2, <2>1 DEF IInv, Granted, Grants
<1>5. QED
  BY <1>2, <1>3, <1>4 DEF IInv

LEMMA OnSubscribeStep == IInv /\ OnSubscribe => IInv'
<1> SUFFICES ASSUME IInv, OnSubscribe PROVE IInv'
  OBVIOUS
<1>1. /\ Shape = "sync" /\ asked \in Grants
      /\ UNCHANGED <<client, point, pc, error, asked>>
  BY DEF OnSubscribe, given
<1> DEFINE answer == Suback(client, point.protocol, asked)
<1>2. \/ told = "nothing" /\ told' = "half" /\ acked' = answer /\ event' = event
      \/ told = "half" /\ told' = "all" /\ acked' = acked /\ event' = TRUE
  BY DEF OnSubscribe
<1>3. /\ answer \in {"granted", "refused"}
      /\ answer = "granted" => Subscription
  BY <1>1, CaseFacts, SyncSuback DEF IInv, Granted, Shape, Subscription
<1> HIDE DEF answer
<1>4. Case' /\ Shape' = Shape
  BY <1>1 DEF IInv, Case, Shape
<1>5. Told'
  <2>1. CASE told = "nothing"
    <3>1. ~event /\ told' = "half" /\ acked' # "absent" /\ event' = event
      BY <1>2, <1>3, <2>1 DEF IInv, Told
    <3>2. QED
      BY <1>1, <1>4, <3>1 DEF IInv, Told
  <2>2. CASE told # "nothing"
    BY <1>1, <1>2, <1>4, <2>2 DEF IInv, Told
  <2>3. QED
    BY <2>1, <2>2
<1>6. Granted'
  <2>1. Subscription' <=> Subscription
    BY <1>1 DEF Subscription
  <2>2. QED
    BY <1>1, <1>2, <1>3, <1>4, <2>1 DEF IInv, Granted, Told
<1>7. AbleMeansRuns'
  BY <1>1 DEF IInv, AbleMeansRuns
<1>8. QED
  BY <1>4, <1>5, <1>6, <1>7 DEF IInv

\* Past the handshake with a good answer; to the wait only with none yet.
LEMMA CheckStep == IInv /\ Check => IInv'
<1> SUFFICES ASSUME IInv, Check PROVE IInv'
  OBVIOUS
<1>1. /\ pc = "check" /\ UNCHANGED <<client, point, asked, acked, event, told>>
  BY DEF Check, given, handshake
<1>2. Shape = "sync" /\ acked \in {"absent", "granted", "refused"}
  BY <1>1 DEF IInv, Told, Granted
<1>3. \/ pc' = "wait" /\ acked = "absent" /\ error' = error
      \/ pc' = "ready" /\ acked = "granted" /\ error' = error
      \/ pc' = "write" /\ error' = "subscribe_refused"
  BY <1>2 DEF Check, GoTo, Fail
<1>4. Case' /\ Shape' = Shape
  BY <1>1 DEF IInv, Case, Shape
<1>5. Told'
  BY <1>1, <1>2, <1>3, <1>4 DEF IInv, Told
<1>6. Granted'
  BY <1>1, <1>2, <1>3, <1>4 DEF IInv, Granted, Past, Subscription
<1>7. AbleMeansRuns'
  BY <1>3 DEF IInv, AbleMeansRuns
<1>8. QED
  BY <1>4, <1>5, <1>6, <1>7 DEF IInv

\* The event is cleared before the answer is looked at: the wait it may lead back to
\* is entered only when there is none.
LEMMA WaitSteps == IInv /\ (Subscribed \/ Wait \/ Clear) => IInv'
<1>1. ASSUME IInv, Subscribed PROVE IInv'
  BY <1>1, QuietStep DEF Subscribed, GoTo, Fail, given, handshake
<1>2. ASSUME IInv, Wait PROVE IInv'
  BY <1>2, QuietStep DEF Wait, GoTo, Fail, given, handshake
<1>3. ASSUME IInv, Clear PROVE IInv'
  <2>1. /\ pc = "clear" /\ pc' = "check" /\ event' = FALSE
        /\ UNCHANGED <<client, point, error, asked, acked, told>>
    BY <1>3 DEF Clear, GoTo, given
  <2>2. Case' /\ Shape' = Shape
    BY <1>3, <2>1 DEF IInv, Case, Shape
  <2>3. Told'
    BY <1>3, <2>1, <2>2 DEF IInv, Told
  <2>4. Granted' /\ AbleMeansRuns'
    BY <1>3, <2>1, <2>2 DEF IInv, Granted, Past, Subscription, AbleMeansRuns
  <2>5. QED
    BY <2>2, <2>3, <2>4 DEF IInv
<1>4. QED
  BY <1>1, <1>2, <1>3

LEMMA ReadySteps == IInv /\ (ReadGo \/ RoutePublishes) => IInv'
<1>1. ASSUME IInv, ReadGo PROVE IInv'
  BY <1>1, QuietStep DEF ReadGo, GoTo, Fail, Past, given, handshake
<1>2. ASSUME IInv, RoutePublishes PROVE IInv'
  <2>1. Routes(client, point)
    BY <1>2, CaseFacts DEF IInv
  <2>2. QED
    BY <1>2, <2>1, QuietStep DEF RoutePublishes, GoTo, Past, given, handshake
<1>3. QED
  BY <1>1, <1>2

LEMMA DriveSteps == IInv /\ (Call \/ Return \/ PublishNowait \/ PublishAwaited) => IInv'
<1>1. ASSUME IInv, Call PROVE IInv'
  <2>1. /\ pc = "drive" /\ UNCHANGED <<client, point, asked, acked, event, told>>
        /\ \/ pc' = "write" /\ error' = "drive"
           \/ pc' = "drive" /\ error' = error
    BY <1>1 DEF Call, GoTo, Fail, given, handshake
  <2>2. QED
    BY <1>1, <2>1, QuietStep
<1>2. ASSUME IInv, PublishNowait PROVE IInv'
  <2>1. /\ pc = "drive" /\ UNCHANGED <<client, point, asked, acked, event, told>>
        /\ \/ pc' = "write" /\ error' = "drive"
           \/ pc' = "drive" /\ error' = error
    BY <1>2 DEF PublishNowait, GoTo, Fail, given, handshake
  <2>2. QED
    BY <1>2, <2>1, QuietStep
<1>3. ASSUME IInv, Return \/ PublishAwaited PROVE IInv'
  BY <1>3, QuietStep DEF Return, PublishAwaited, given, handshake
<1>4. QED
  BY <1>1, <1>2, <1>3

LEMMA EndSteps == IInv /\ (EndDrive \/ Drain \/ Snapshot \/ Disconnect \/ Write) => IInv'
<1> SUFFICES ASSUME IInv, EndDrive \/ Drain \/ Snapshot \/ Disconnect \/ Write PROVE IInv'
  OBVIOUS
<1>1. /\ pc' \in {"write", "drain", "read", "read on", "disconnect", "hung", "ended"} /\ error' = error
      /\ UNCHANGED <<client, point, asked, acked, event, told>>
  BY DEF EndDrive, Drain, Snapshot, Disconnect, Write, GoTo, given, handshake
<1>2. QED
  BY <1>1, QuietStep

\* What the library does to a publish does not touch the handshake.
LEMMA LibrarySteps ==
  ASSUME IInv,
         CompleteById \/ LoseConnection \/ Tick \/ Ended \/ UNCHANGED vars
         \/ \E m \in Msg : Settle(m) \/ Complete(m) \/ RemoveAndAck(m) \/ Abandon(m)
  PROVE  IInv'
<1>1. UNCHANGED <<client, point, pc, error, asked, acked, event, told>>
  BY DEF CompleteById, LoseConnection, Tick, Ended, vars, Settle, Complete, RemoveAndAck, Abandon,
         given, handshake
<1>2. QED
  BY <1>1, QuietStep

LEMMA NextIInv == IInv /\ [Next]_vars => IInv'
  BY ConnectSteps, SubscribeStep, GrantStep, OnSubscribeStep, CheckStep, WaitSteps, ReadySteps,
     DriveSteps, EndSteps, LibrarySteps
     DEF Next, WorkerStep, LibraryStep

LEMMA Inductive == Spec => []IInv
  BY InitIInv, NextIInv, PTL DEF Spec

-----------------------------------------------------------------------------
(* The theorems. *)

\* run_sync's wait for its SUBACK: no wake-up of the library's thread is lost, whenever
\* it comes, and a worker past the wait holds a grant, unless its client left it no mid to
\* wait for or its adapter hides a refusal.
THEOREM HandshakeIsSound == Spec => []HandshakeSound
<1>1. IInv => HandshakeSound
  BY DEF IInv, Told, Granted, Past, Subscription, HandshakeSound
<1>2. QED
  BY <1>1, Inductive, PTL

\* No point of the catalogue that a client's capabilities allow fails in create() or in
\* _route_publishes.
THEOREM AbleAlwaysRuns == Spec => []AbleMeansRuns
  BY Inductive, PTL DEF IInv

-----------------------------------------------------------------------------
(* How the eight clients answer a publish. *)

\* Which loops carry which client.
LEMMA Shapes ==
  ASSUME NEW c \in AllClients
  PROVE  /\ DriveShape(c) = "sync" <=> c \in {"paho", "awscrt"}
         /\ DriveShape(c) = "nowait" <=> c \in {"mqttium", "gmqtt"}
         /\ DriveShape(c) \in {"sync", "nowait", "awaited"}
<1>1. /\ c \in {"paho", "awscrt"} => ~HasAsyncAdapter(c)
      /\ c \notin {"paho", "awscrt"} => HasAsyncAdapter(c)
  BY DEF AllClients, HasAsyncAdapter, Capabilities, PahoCapabilities, AwscrtCapabilities, Features,
     MqttiumCapabilities, GmqttCapabilities, AiomqttCapabilities, Aiomqtt3Capabilities,
     AmqttCapabilities, ZmqttCapabilities
<1>2. /\ c \in {"mqttium", "gmqtt"} => "publish_sync_on_loop" \in Capabilities(c)
      /\ c \notin {"mqttium", "gmqtt"} => "publish_sync_on_loop" \notin Capabilities(c)
  BY DEF AllClients, Capabilities, PahoCapabilities, AwscrtCapabilities, Features,
     MqttiumCapabilities, GmqttCapabilities, AiomqttCapabilities, Aiomqtt3Capabilities,
     AmqttCapabilities, ZmqttCapabilities
<1>3. QED
  BY <1>1, <1>2 DEF DriveShape

Mine == Case /\ build \in {"on_publish", "receipt"}

\* Each has one way to hear of a completion.
LEMMA Mechanisms ==
  ASSUME Mine
  PROVE  /\ Shape \in {"sync", "nowait", "awaited"}
         /\ Shape = "sync" <=> Mechanism \in {"callback", "future"}
         /\ Shape = "awaited" <=> Mechanism = "await"
         /\ Shape = "nowait" => \/ Mechanism \in {"on_publish", "receipt", "hook"}
                                \/ Mechanism = "inline" /\ client \in {"mqttium", "gmqtt"}
<1>1. client \in AllClients /\ point.qos \in 0 .. 2
  <2>1. client \in AllClients /\ point \in AllPoints
    BY CasesAssumption DEF Mine, Case
  <2>2. QED
    BY <2>1, PointsShape DEF PointShape
<1>2. /\ Shape = "sync" <=> client \in {"paho", "awscrt"}
      /\ Shape = "nowait" <=> client \in {"mqttium", "gmqtt"}
      /\ Shape \in {"sync", "nowait", "awaited"}
  BY <1>1, Shapes DEF Shape
<1>3. CASE client = "paho"
  BY <1>2, <1>3 DEF Mechanism
<1>4. CASE client = "awscrt"
  BY <1>2, <1>4 DEF Mechanism
<1>5. CASE Shape = "awaited"
  BY <1>2, <1>5 DEF Mechanism
<1>6. CASE Shape = "nowait" /\ point.qos = 0
  <2>1. Mechanism = "inline"
    BY <1>2, <1>6 DEF Mechanism
  <2>2. QED
    BY <1>2, <1>6, <2>1
<1>7. CASE client = "mqttium" /\ point.qos > 0
  <2>1. Mechanism = build /\ Shape = "nowait"
    BY <1>2, <1>7 DEF Mechanism
  <2>2. QED
    BY <2>1 DEF Mine
<1>8. CASE client = "gmqtt" /\ point.qos > 0
  <2>1. Mechanism = "hook" /\ Shape = "nowait"
    BY <1>2, <1>8 DEF Mechanism
  <2>2. QED
    BY <2>1
<1>9. QED
  BY <1>1, <1>2, <1>3, <1>4, <1>5, <1>6, <1>7, <1>8

\* What a publish may answer, shape by shape.
LEMMA AnswersByShape ==
  ASSUME Mine
  PROVE  /\ Shape = "sync" => Possible \subseteq {"held", "refused", "raised"}
         /\ Shape = "nowait" => Possible \subseteq {"held", "inline", "refused", "reported", "raised"}
<1>1. CASE Mechanism = "callback"
  BY <1>1, Mechanisms DEF Possible, Answers
<1>2. CASE Mechanism = "future"
  BY <1>2, Mechanisms DEF Possible, Answers
<1>3. CASE Mechanism = "inline" /\ client = "mqttium"
  BY <1>3, Mechanisms DEF Possible, Answers
<1>4. CASE Mechanism = "inline" /\ client = "gmqtt"
  BY <1>4, Mechanisms DEF Possible, Answers
<1>5. CASE Mechanism \in {"on_publish", "receipt"}
  BY <1>5, Mechanisms DEF Possible, Answers
<1>6. CASE Mechanism = "hook"
  BY <1>6, Mechanisms DEF Possible, Answers
<1>7. QED
  BY <1>1, <1>2, <1>3, <1>4, <1>5, <1>6, Mechanisms

\* A set of publishes has a first one.
LEMMA FirstOfMany ==
  ASSUME NEW many \in SUBSET Msg, many # {}
  PROVE  \E m \in many : \A k \in many : m <= k
<1> DEFINE First(some) == \E m \in some : \A k \in some : m <= k
           bad == {some \in SUBSET Msg : some # {} /\ ~First(some)}
<1>1. IsFiniteSet(Msg) /\ Msg \subseteq Nat
  BY MessagesAssumption, FS_Interval DEF Msg
<1>2. IsWellFoundedOn(StrictSubsetOrdering(Msg), SUBSET Msg)
  BY <1>1, FS_StrictSubsetOrderingWellFounded, FS_FiniteSubsetsOfFinite
<1>3. SUFFICES ASSUME bad # {} PROVE FALSE
  OBVIOUS
<1>4. PICK some \in bad : \A other \in bad : <<other, some>> \notin StrictSubsetOrdering(Msg)
  BY <1>2, <1>3, WFMin
<1>5. PICK x \in some : TRUE
  OBVIOUS
<1> DEFINE rest == some \ {x}
<1>6. <<rest, some>> \in StrictSubsetOrdering(Msg)
  BY <1>5 DEF StrictSubsetOrdering
<1>7. CASE rest = {}
  <2>1. some = {x} /\ x \in Nat
    BY <1>1, <1>5, <1>7
  <2>2. First(some)
    BY <2>1
  <2>3. QED
    BY <2>2
<1>8. CASE rest # {}
  <2>1. First(rest)
    BY <1>4, <1>6, <1>8
  <2>2. PICK m \in rest : \A k \in rest : m <= k
    BY <2>1
  <2>3. m \in Nat /\ x \in Nat
    BY <1>1, <1>5, <2>2
  <2>4. First(some)
    <3>1. CASE m <= x
      BY <2>2, <2>3, <3>1
    <3>2. CASE x <= m
      <4>1. \A k \in some : x <= k
        BY <1>1, <2>2, <2>3, <3>2
      <4>2. QED
        BY <1>5, <4>1
    <3>3. QED
      BY <2>3, <3>1, <3>2
  <2>5. QED
    BY <2>4
<1>9. QED
  BY <1>7, <1>8

LEMMA NextIsUnsent == Unsent # {} => NextMessage \in Msg /\ stage[NextMessage] = "unsent"
<1> SUFFICES ASSUME Unsent # {} PROVE NextMessage \in Msg /\ stage[NextMessage] = "unsent"
  OBVIOUS
<1>1. Unsent \in SUBSET Msg
  BY DEF Unsent
<1>2. \E m \in Unsent : \A k \in Unsent : m <= k
  BY <1>1, FirstOfMany
<1>3. NextMessage \in Unsent
  BY <1>2 DEF NextMessage
<1>4. QED
  BY <1>3 DEF Unsent

-----------------------------------------------------------------------------
(* The books. *)

\* How many publishes are in some of the stages.
Number(at, states) == Cardinality({m \in Msg : at[m] \in states})

OwingStages == {"held", "acked", "erred"}

\* Only a synchronous publish() has something still to return, within the drive.
Returns == returning # "nothing" => pc = "drive" /\ Shape = "sync"

\* What was counted as sent is counted as completed, owed, or lost for good.
Balance ==
  sent + (IF returning = "accepted" THEN 1 ELSE 0) + Number(stage, {"reported"})
    = done + failed + Number(stage, OwingStages)
        + (IF Shape = "sync" THEN 0 ELSE Number(stage, {"abandoned", "raised"}))

\* Every count is of an attempt, and an attempt is counted once.
Attempts ==
  /\ sent + rejected + (IF returning = "nothing" THEN 0 ELSE 1) + Number(stage, {"unsent"}) <= Messages
  /\ Number(stage, {"reported"}) <= rejected

\* The publishes that wait on an identifier, of whatever generation.
Waiters(i) == {m \in Msg : packet[m] = i /\ stage[m] \in OwingStages}

\* mqttium's bookkeeping: the library owes on_publish once for each publish it is
\* through with, and as many publishes wait on an identifier as will be called for it.
Identifiers ==
  /\ Mechanism # "on_publish" => owed = <<>>
  /\ Mechanism = "on_publish" =>
       /\ \A a, b \in 1 .. Len(owed) : owed[a] = owed[b] => a = b
       /\ \A m \in Msg : stage[m] \in {"acked", "erred"} <=> \E k \in 1 .. Len(owed) : owed[k] = m
       /\ \A i \in Ids : Len(waiting[i]) = Cardinality(Waiters(i))

\* The last snapshot is behind the counters, never ahead of them.
Behind ==
  /\ pc \in {"read on", "disconnect"} \/ (pc \in {"write", "ended"} /\ error = "none")
       => final.sent = sent /\ final.done <= done
  /\ pc = "disconnect" \/ (pc \in {"write", "ended"} /\ error = "none") => final.failed <= failed
  /\ result = "ok" => pc = "ended" /\ error = "none"

LibraryType ==
  /\ stage \in [Msg -> Stages] /\ packet \in [Msg -> Ids]
  /\ waiting \in [Ids -> Seq(Msg)] /\ owed \in Seq(Msg)

CounterType ==
  /\ sent \in Nat /\ done \in Nat /\ failed \in Nat /\ rejected \in Nat
  /\ returning \in {"nothing", "accepted", "refused"}

LEMMA NumberType == ASSUME NEW at, NEW states PROVE Number(at, states) \in 0 .. Messages
<1>1. /\ IsFiniteSet(Msg) /\ Cardinality(Msg) = Messages
      /\ {m \in Msg : at[m] \in states} \in SUBSET Msg
  BY MessagesAssumption, FS_Interval DEF Msg
<1>2. QED
  BY <1>1, FS_Subset, FS_CardinalityType, MessagesAssumption DEF Number

Moved(at, then, m, to) == then = [at EXCEPT ![m] = to]

\* One publish moves on: the numbers of publishes in given stages follow.
LEMMA NumberMoved ==
  ASSUME NEW at \in [Msg -> Stages], NEW m \in Msg, NEW to, NEW states,
         NEW then, Moved(at, then, m, to)
  PROVE  /\ Number(at, states) \in 0 .. Messages
         /\ Number(then, states) = Number(at, states) - (IF at[m] \in states THEN 1 ELSE 0)
                                                     + (IF to \in states THEN 1 ELSE 0)
<1> DEFINE others == {k \in Msg \ {m} : at[k] \in states}
           now == {k \in Msg : at[k] \in states}
           next == {k \in Msg : then[k] \in states}
<1>0. then = [at EXCEPT ![m] = to]
  BY DEF Moved
<1>1. IsFiniteSet(Msg) /\ Cardinality(Msg) = Messages
  BY MessagesAssumption, FS_Interval DEF Msg
<1>2. IsFiniteSet(others) /\ IsFiniteSet(now) /\ Cardinality(now) <= Messages
  <2>1. others \in SUBSET Msg /\ now \in SUBSET Msg
    OBVIOUS
  <2>2. QED
    BY <1>1, <2>1, FS_Subset
<1>3. Cardinality(now) \in Nat /\ Cardinality(others) \in Nat
  BY <1>2, FS_CardinalityType
<1>4. m \notin others
  OBVIOUS
<1>5. Cardinality(others \cup {m}) = Cardinality(others) + 1
  BY <1>2, <1>4, FS_AddElement
<1>6. now = (IF at[m] \in states THEN others \cup {m} ELSE others)
  OBVIOUS
<1>7. next = (IF to \in states THEN others \cup {m} ELSE others)
  BY <1>0
<1>8. Number(at, states) = Cardinality(now) /\ Number(then, states) = Cardinality(next)
  BY DEF Number
<1> HIDE DEF others, now, next
<1>9. Number(at, states) \in 0 .. Messages
  BY <1>2, <1>3, <1>8, MessagesAssumption
<1>10. Number(then, states) = Number(at, states) - (IF at[m] \in states THEN 1 ELSE 0)
                                   + (IF to \in states THEN 1 ELSE 0)
  BY <1>3, <1>5, <1>6, <1>7, <1>8
<1>11. QED
  BY <1>9, <1>10

\* The publishes waiting on an identifier when one more takes it ...
LEMMA WaitersJoined ==
  ASSUME LibraryType, NEW m \in Msg, stage[m] \notin OwingStages, NEW i \in Ids,
         stage' = [stage EXCEPT ![m] = "held"], packet' = [packet EXCEPT ![m] = i], NEW j \in Ids
  PROVE  Cardinality(Waiters(j)') = Cardinality(Waiters(j)) + (IF j = i THEN 1 ELSE 0)
<1>1. Waiters(j)' = (IF j = i THEN Waiters(j) \cup {m} ELSE Waiters(j)) /\ m \notin Waiters(j)
  BY DEF Waiters, LibraryType, OwingStages
<1>2. IsFiniteSet(Waiters(j))
  <2>1. IsFiniteSet(Msg) /\ Waiters(j) \in SUBSET Msg
    BY MessagesAssumption, FS_Interval DEF Msg, Waiters
  <2>2. QED
    BY <2>1, FS_Subset
<1>3. Cardinality(Waiters(j)) \in Nat /\ Cardinality(Waiters(j) \cup {m}) = Cardinality(Waiters(j)) + 1
  BY <1>1, <1>2, FS_AddElement, FS_CardinalityType
<1>4. QED
  BY <1>1, <1>3

\* ... and when one of them is completed.
LEMMA WaitersLeft ==
  ASSUME LibraryType, NEW m \in Msg, stage[m] \in OwingStages,
         stage' = [stage EXCEPT ![m] = "over"], packet' = packet, NEW j \in Ids
  PROVE  /\ Cardinality(Waiters(j)') = Cardinality(Waiters(j)) - (IF j = packet[m] THEN 1 ELSE 0)
         /\ j = packet[m] => Cardinality(Waiters(j)) >= 1
         /\ Cardinality(Waiters(j)) \in Nat
<1>1. Waiters(j)' = Waiters(j) \ {m} /\ (m \in Waiters(j) <=> j = packet[m])
  BY DEF Waiters, LibraryType, OwingStages
<1>2. IsFiniteSet(Waiters(j))
  <2>1. IsFiniteSet(Msg) /\ Waiters(j) \in SUBSET Msg
    BY MessagesAssumption, FS_Interval DEF Msg, Waiters
  <2>2. QED
    BY <2>1, FS_Subset
<1>3. /\ Cardinality(Waiters(j)) \in Nat
      /\ Cardinality(Waiters(j) \ {m})
           = IF m \in Waiters(j) THEN Cardinality(Waiters(j)) - 1 ELSE Cardinality(Waiters(j))
  BY <1>2, FS_RemoveElement, FS_CardinalityType
<1>4. m \in Waiters(j) => Cardinality(Waiters(j)) >= 1
  <2>1. Waiters(j) # {} => Cardinality(Waiters(j)) # 0
    BY <1>2, FS_EmptySet
  <2>2. QED
    BY <1>3, <2>1
<1>5. QED
  BY <1>1, <1>3, <1>4

LEMMA NumbersMoved ==
  ASSUME LibraryType, NEW m \in Msg, NEW to, Moved(stage, stage', m, to)
  PROVE  /\ \A states : Number(stage, states) \in Nat
         /\ Number(stage', OwingStages) = Number(stage, OwingStages)
              - (IF stage[m] \in OwingStages THEN 1 ELSE 0) + (IF to \in OwingStages THEN 1 ELSE 0)
         /\ Number(stage', {"reported"}) = Number(stage, {"reported"})
              - (IF stage[m] = "reported" THEN 1 ELSE 0) + (IF to = "reported" THEN 1 ELSE 0)
         /\ Number(stage', {"abandoned", "raised"}) = Number(stage, {"abandoned", "raised"})
              - (IF stage[m] \in {"abandoned", "raised"} THEN 1 ELSE 0)
              + (IF to \in {"abandoned", "raised"} THEN 1 ELSE 0)
         /\ Number(stage', {"unsent"}) = Number(stage, {"unsent"})
              - (IF stage[m] = "unsent" THEN 1 ELSE 0) + (IF to = "unsent" THEN 1 ELSE 0)
<1>1. ASSUME NEW states
      PROVE  /\ Number(stage, states) \in Nat
             /\ Number(stage', states) = Number(stage, states)
                  - (IF stage[m] \in states THEN 1 ELSE 0) + (IF to \in states THEN 1 ELSE 0)
  <2>1. stage \in [Msg -> Stages]
    BY DEF LibraryType
  <2>2. QED
    BY <2>1, NumberMoved, MessagesAssumption
<1>2. \A v, w : v \in {w} <=> v = w
  OBVIOUS
<1>3. QED
  BY <1>1, <1>2

Books == Mine /\ LibraryType /\ CounterType /\ Returns /\ Balance /\ Attempts /\ Identifiers

LEMMA InitBooks == Init => Books
<1> SUFFICES ASSUME Init PROVE Books
  OBVIOUS
<1>1. Mine
  BY InitIInv DEF IInv, Mine, Init
<1>2. LibraryType
  <2>1. (CHOOSE i \in Ids : TRUE) \in Ids
    BY IdsAssumption
  <2>2. QED
    BY <2>1 DEF Init, LibraryType, Stages
<1>3. CounterType /\ Returns
  BY DEF Init, CounterType, Returns
<1>4. \A m \in Msg : stage[m] = "unsent"
  BY DEF Init
<1>5. Number(stage, {"unsent"}) \in 0 .. Messages
  <2>1. {m \in Msg : stage[m] \in {"unsent"}} = Msg
    BY <1>4
  <2>2. Cardinality(Msg) = Messages
    BY MessagesAssumption, FS_Interval DEF Msg
  <2>3. QED
    BY <2>1, <2>2, MessagesAssumption DEF Number
<1>6. /\ Number(stage, OwingStages) = 0 /\ Number(stage, {"reported"}) = 0
      /\ Number(stage, {"abandoned", "raised"}) = 0
  <2>1. /\ {m \in Msg : stage[m] \in OwingStages} = {}
        /\ {m \in Msg : stage[m] \in {"reported"}} = {}
        /\ {m \in Msg : stage[m] \in {"abandoned", "raised"}} = {}
    BY <1>4 DEF OwingStages
  <2>2. QED
    BY <2>1, FS_EmptySet DEF Number
<1>7. Balance /\ Attempts
  BY <1>5, <1>6 DEF Init, Balance, Attempts
<1>8. Identifiers
  <2>1. owed = <<>> /\ Len(<<>>) = 0 /\ \A i \in Ids : waiting[i] = <<>>
    BY DEF Init
  <2>2. \A i \in Ids : Waiters(i) = {}
    BY <1>4 DEF Waiters, OwingStages
  <2>3. \A i \in Ids : Len(waiting[i]) = Cardinality(Waiters(i))
    BY <2>1, <2>2, FS_EmptySet
  <2>4. QED
    BY <1>4, <2>1, <2>3 DEF Identifiers
<1>9. QED
  BY <1>1, <1>2, <1>3, <1>7, <1>8 DEF Books

\* No step changes what is run, nor how it is answered.
LEMMA SameClient ==
  ASSUME UNCHANGED given
  PROVE  /\ Shape' = Shape /\ Mechanism' = Mechanism /\ (Mine => Mine')
<1>1. client' = client /\ point' = point /\ build' = build
  BY DEF given
<1>2. Shape' = Shape
  BY <1>1 DEF Shape
<1>3. QED
  BY <1>1, <1>2 DEF Mechanism, Mine, Case

\* A step that leaves publishes and counters alone.
LEMMA BooksUntouched ==
  ASSUME Books, UNCHANGED <<given, library, counters, returning>>, pc' = pc \/ returning = "nothing"
  PROVE  Books'
<1>1. /\ Shape' = Shape /\ Mechanism' = Mechanism /\ Mine'
      /\ UNCHANGED <<stage, packet, waiting, owed, sent, done, failed, rejected, returning>>
  BY SameClient DEF Books, library, counters
<1>2. LibraryType' /\ CounterType' /\ Returns'
  BY <1>1 DEF Books, LibraryType, CounterType, Returns
<1>3. Balance' /\ Attempts'
  BY <1>1 DEF Books, Balance, Attempts
<1>4. Identifiers'
  BY <1>1 DEF Books, Identifiers, Waiters
<1>5. QED
  BY <1>1, <1>2, <1>3, <1>4 DEF Books

\* The library takes a publish, or has done with it at once.
LEMMA AcceptedBooks ==
  ASSUME Mine, LibraryType, Identifiers, NEW m \in Msg, stage[m] = "unsent", Accept(m),
         UNCHANGED <<given, owed>>
  PROVE  LibraryType' /\ Identifiers' /\ Moved(stage, stage', m, "held")
<1> USE DEF LibraryType
<1>1. stage' = [stage EXCEPT ![m] = "held"] /\ stage' \in [Msg -> Stages]
  BY DEF Accept, Stages
<1>2. Mechanism' = Mechanism /\ owed' = owed
  BY SameClient
<1>3. CASE Mechanism # "on_publish"
  <2>1. UNCHANGED <<packet, waiting>>
    BY <1>3 DEF Accept
  <2>2. QED
    BY <1>1, <1>2, <1>3, <2>1 DEF Identifiers, Moved
<1>4. CASE Mechanism = "on_publish"
  <2>1. PICK i \in Free : packet' = [packet EXCEPT ![m] = i] /\ Register(m, i)
    BY <1>4 DEF Accept
  <2>2. i \in Ids /\ waiting' = [waiting EXCEPT ![i] = Append(waiting[i], m)]
    BY <2>1 DEF Free, Register
  <2>3. /\ Append(waiting[i], m) \in Seq(Msg) /\ Len(Append(waiting[i], m)) = Len(waiting[i]) + 1
    BY <2>2, AppendProperties
  <2>4. LibraryType'
    BY <1>1, <1>2, <2>1, <2>2, <2>3
  <2>5. ASSUME NEW j \in Ids PROVE Len(waiting'[j]) = Cardinality(Waiters(j)')
    <3>1. Cardinality(Waiters(j)') = Cardinality(Waiters(j)) + (IF j = i THEN 1 ELSE 0)
      BY <1>1, <2>1, <2>2, WaitersJoined DEF OwingStages
    <3>2. Len(waiting[j]) = Cardinality(Waiters(j)) /\ Len(waiting[j]) \in Nat
      BY <1>4, LenProperties DEF Identifiers
    <3>3. waiting'[j] = IF j = i THEN Append(waiting[i], m) ELSE waiting[j]
      BY <2>2
    <3>4. QED
      BY <2>3, <3>1, <3>2, <3>3
  <2>6. \A k \in Msg : stage'[k] \in {"acked", "erred"} <=> stage[k] \in {"acked", "erred"}
    BY <1>1
  <2>7. QED
    BY <1>1, <1>2, <1>4, <2>4, <2>5, <2>6 DEF Identifiers, Moved
<1>5. QED
  BY <1>3, <1>4

LEMMA EndedBooks ==
  ASSUME Mine, LibraryType, Identifiers, NEW m \in Msg, stage[m] = "unsent",
         NEW how \in {"over", "inline", "refused", "reported", "raised"}, how # "inline", End(m, how),
         UNCHANGED <<given, owed>>
  PROVE  LibraryType' /\ Identifiers' /\ Moved(stage, stage', m, how)
<1> USE DEF LibraryType
<1>1. /\ stage' = [stage EXCEPT ![m] = how] /\ UNCHANGED <<packet, waiting>>
      /\ stage' \in [Msg -> Stages]
  BY DEF End, Stages
<1>2. Mechanism' = Mechanism /\ owed' = owed
  BY SameClient
<1>3. \A k \in Msg : /\ stage'[k] \in {"acked", "erred"} <=> stage[k] \in {"acked", "erred"}
                     /\ stage'[k] \in OwingStages <=> stage[k] \in OwingStages
  BY <1>1 DEF OwingStages
<1>4. \A i \in Ids : Waiters(i)' = Waiters(i)
  BY <1>1, <1>3 DEF Waiters
<1>5. QED
  BY <1>1, <1>2, <1>3, <1>4 DEF Identifiers, Moved

\* One publish() or publish_nowait(), however it is answered.
LEMMA CallBooks == Books /\ Call => Books'
<1> SUFFICES ASSUME Books, Call PROVE Books'
  OBVIOUS
<1> DEFINE m == NextMessage
<1>1. /\ pc = "drive" /\ Shape = "sync" /\ returning = "nothing" /\ Unsent # {}
      /\ UNCHANGED <<given, owed, sent, done, failed, rejected>>
  BY DEF Call, counters
<1>2. PICK answer \in Possible :
        /\ IF answer = "held" THEN Accept(m) ELSE End(m, answer)
        /\ returning' = [held |-> "accepted", refused |-> "refused", raised |-> "nothing"][answer]
        /\ IF answer = "raised" THEN Fail("drive") ELSE GoTo("drive")
  BY DEF Call
<1>3. /\ Mine /\ LibraryType /\ CounterType /\ Returns /\ Balance /\ Attempts /\ Identifiers
      /\ m \in Msg /\ stage[m] = "unsent"
  BY <1>1, NextIsUnsent DEF Books
<1>4. answer \in {"held", "refused", "raised"}
  BY <1>1, <1>2, <1>3, AnswersByShape
<1> HIDE DEF m
<1>5. LibraryType' /\ Identifiers' /\ Moved(stage, stage', m, answer)
  <2>1. CASE answer = "held"
    BY <1>1, <1>2, <1>3, <2>1, AcceptedBooks
  <2>2. CASE answer # "held"
    <3>1. End(m, answer) /\ answer \in {"over", "inline", "refused", "reported", "raised"} /\ answer # "inline"
      BY <1>2, <1>4, <2>2
    <3>2. QED
      BY <1>1, <1>3, <3>1, EndedBooks
  <2>3. QED
    BY <2>1, <2>2
<1>6. /\ answer = "held" => returning' = "accepted" /\ pc' = "drive"
      /\ answer = "refused" => returning' = "refused" /\ pc' = "drive"
      /\ answer = "raised" => returning' = "nothing"
  BY <1>2, <1>4 DEF GoTo
<1>7. /\ Shape' = Shape /\ Mine'
  BY <1>1, <1>3, SameClient
<1>8. /\ Number(stage, OwingStages) \in Nat /\ Number(stage, {"reported"}) \in Nat
      /\ Number(stage, {"unsent"}) \in Nat
      /\ Number(stage', OwingStages) = Number(stage, OwingStages) + (IF answer = "held" THEN 1 ELSE 0)
      /\ Number(stage', {"reported"}) = Number(stage, {"reported"})
      /\ Number(stage', {"unsent"}) = Number(stage, {"unsent"}) - 1
  <2>1. \A states : Number(stage, states) \in Nat
    BY <1>3, <1>5, NumbersMoved
  <2>2. /\ "unsent" \notin OwingStages /\ (answer \in OwingStages <=> answer = "held")
    BY <1>4 DEF OwingStages
  <2>3. QED
    BY <1>3, <1>4, <1>5, <2>1, <2>2, NumbersMoved
<1>9. CounterType' /\ Returns'
  BY <1>1, <1>3, <1>4, <1>6, <1>7 DEF CounterType, Returns
<1>10. Balance'
  BY <1>1, <1>3, <1>4, <1>6, <1>7, <1>8 DEF Balance, CounterType
<1>11. Attempts'
  BY <1>1, <1>3, <1>4, <1>6, <1>8, MessagesAssumption DEF Attempts, CounterType
<1>12. QED
  BY <1>5, <1>7, <1>9, <1>10, <1>11 DEF Books

LEMMA ReturnBooks == Books /\ Return => Books'
<1> SUFFICES ASSUME Books, Return PROVE Books'
  OBVIOUS
<1>1. /\ pc = "drive" /\ returning # "nothing" /\ returning' = "nothing"
      /\ IF returning = "accepted" THEN sent' = sent + 1 /\ rejected' = rejected
           ELSE sent' = sent /\ rejected' = rejected + 1
      /\ UNCHANGED <<given, stage, packet, waiting, owed, done, failed>>
  BY DEF Return, library
<1>2. /\ Mine /\ LibraryType /\ CounterType /\ Returns /\ Balance /\ Attempts /\ Identifiers
  BY DEF Books
<1>3. Shape' = Shape /\ Mechanism' = Mechanism /\ Mine'
  BY <1>1, <1>2, SameClient
<1>4. LibraryType' /\ Identifiers'
  BY <1>1, <1>2, <1>3 DEF LibraryType, Identifiers, Waiters
<1>5. CounterType' /\ Returns'
  BY <1>1, <1>2 DEF CounterType, Returns
<1>6. Shape = "sync"
  BY <1>1, <1>2 DEF Returns
<1>7. Number(stage, {"unsent"}) \in Nat /\ Number(stage, {"reported"}) \in Nat
  BY NumberType, MessagesAssumption
<1>8. Balance'
  <2>1. Number(stage', OwingStages) = Number(stage, OwingStages)
        /\ Number(stage', {"reported"}) = Number(stage, {"reported"})
    BY <1>1
  <2>2. QED
    BY <1>1, <1>2, <1>3, <1>6, <2>1 DEF Balance, CounterType
<1>9. Attempts'
  <2>1. Number(stage', {"unsent"}) = Number(stage, {"unsent"})
        /\ Number(stage', {"reported"}) = Number(stage, {"reported"})
    BY <1>1
  <2>2. QED
    BY <1>1, <1>2, <1>7, <2>1, MessagesAssumption DEF Attempts, CounterType
<1>10. QED
  BY <1>3, <1>4, <1>5, <1>8, <1>9 DEF Books

LEMMA NowaitBooks == Books /\ PublishNowait => Books'
<1> SUFFICES ASSUME Books, PublishNowait PROVE Books'
  OBVIOUS
<1> DEFINE m == NextMessage
<1>1. /\ pc = "drive" /\ Shape = "nowait" /\ Unsent # {}
      /\ UNCHANGED <<given, owed, returning>>
  BY DEF PublishNowait
<1>2. PICK answer \in Possible :
        /\ IF answer = "held" THEN Accept(m)
             ELSE End(m, IF answer = "inline" THEN "over" ELSE answer)
        /\ sent' = IF answer \in {"held", "inline", "raised"} THEN sent + 1 ELSE sent
        /\ done' = IF answer = "inline" THEN done + 1 ELSE done
        /\ failed' = IF answer = "reported" THEN failed + 1 ELSE failed
        /\ rejected' = IF answer \in {"refused", "reported"} THEN rejected + 1 ELSE rejected
        /\ IF answer = "raised" THEN Fail("drive") ELSE GoTo("drive")
  BY DEF PublishNowait
<1>3. /\ Mine /\ LibraryType /\ CounterType /\ Returns /\ Balance /\ Attempts /\ Identifiers
      /\ m \in Msg /\ stage[m] = "unsent"
  BY <1>1, NextIsUnsent DEF Books
<1>4. answer \in {"held", "inline", "refused", "reported", "raised"} /\ returning = "nothing"
  BY <1>1, <1>2, <1>3, AnswersByShape DEF Returns
<1> HIDE DEF m
<1> DEFINE to == IF answer = "inline" THEN "over" ELSE answer
<1>5. LibraryType' /\ Identifiers' /\ Moved(stage, stage', m, to)
  <2>1. CASE answer = "held"
    BY <1>1, <1>2, <1>3, <2>1, AcceptedBooks
  <2>2. CASE answer # "held"
    <3>1. End(m, to) /\ to \in {"over", "inline", "refused", "reported", "raised"} /\ to # "inline"
      BY <1>2, <1>4, <2>2
    <3>2. QED
      BY <1>1, <1>3, <3>1, EndedBooks
  <2>3. QED
    BY <2>1, <2>2
<1>6. /\ Shape' = Shape /\ Mine'
  BY <1>1, <1>3, SameClient
<1>7. /\ \A states : Number(stage, states) \in Nat
      /\ Number(stage', OwingStages) = Number(stage, OwingStages) + (IF answer = "held" THEN 1 ELSE 0)
      /\ Number(stage', {"reported"}) = Number(stage, {"reported"}) + (IF answer = "reported" THEN 1 ELSE 0)
      /\ Number(stage', {"abandoned", "raised"}) = Number(stage, {"abandoned", "raised"})
           + (IF answer = "raised" THEN 1 ELSE 0)
      /\ Number(stage', {"unsent"}) = Number(stage, {"unsent"}) - 1
  <2>1. \A states : Number(stage, states) \in Nat
    BY <1>3, <1>5, NumbersMoved
  <2>2. /\ "unsent" \notin OwingStages /\ (to \in OwingStages <=> answer = "held")
        /\ (to \in {"abandoned", "raised"} <=> answer = "raised")
        /\ (to = "reported" <=> answer = "reported") /\ to # "unsent"
    BY <1>4 DEF OwingStages
  <2> HIDE DEF to
  <2>3. QED
    BY <1>3, <1>5, <2>1, <2>2, NumbersMoved
<1>8. CounterType' /\ Returns'
  BY <1>1, <1>2, <1>3, <1>4, <1>6 DEF CounterType, Returns
<1>9. Balance'
  BY <1>1, <1>2, <1>3, <1>4, <1>6, <1>7 DEF Balance, CounterType
<1>10. Attempts'
  BY <1>1, <1>2, <1>3, <1>4, <1>6, <1>7, MessagesAssumption DEF Attempts, CounterType
<1>11. QED
  BY <1>5, <1>6, <1>8, <1>9, <1>10 DEF Books

LEMMA AwaitedBooks == Books /\ PublishAwaited => Books'
<1> SUFFICES ASSUME Books, PublishAwaited PROVE Books'
  OBVIOUS
<1> DEFINE m == NextMessage
<1>1. /\ Shape = "awaited" /\ Unsent # {} /\ Accept(m) /\ sent' = sent + 1
      /\ UNCHANGED <<given, owed, returning, done, failed, rejected>>
  BY DEF PublishAwaited
<1>2. /\ Mine /\ LibraryType /\ CounterType /\ Returns /\ Balance /\ Attempts /\ Identifiers
      /\ m \in Msg /\ stage[m] = "unsent"
  BY <1>1, NextIsUnsent DEF Books
<1> HIDE DEF m
<1>3. LibraryType' /\ Identifiers' /\ Moved(stage, stage', m, "held")
  BY <1>1, <1>2, AcceptedBooks
<1>4. /\ Shape' = Shape /\ Mine' /\ returning = "nothing"
  BY <1>1, <1>2, SameClient DEF Returns
<1>5. /\ \A states : Number(stage, states) \in Nat
      /\ Number(stage', OwingStages) = Number(stage, OwingStages) + 1
      /\ Number(stage', {"reported"}) = Number(stage, {"reported"})
      /\ Number(stage', {"abandoned", "raised"}) = Number(stage, {"abandoned", "raised"})
      /\ Number(stage', {"unsent"}) = Number(stage, {"unsent"}) - 1
  BY <1>2, <1>3, NumbersMoved DEF OwingStages
<1>6. CounterType' /\ Returns'
  BY <1>1, <1>2, <1>4 DEF CounterType, Returns
<1>7. Balance' /\ Attempts'
  BY <1>1, <1>2, <1>4, <1>5, MessagesAssumption DEF Balance, Attempts, CounterType
<1>8. QED
  BY <1>3, <1>4, <1>6, <1>7 DEF Books

\* A publish that moves on without an identifier.
LEMMA MovedWithout ==
  ASSUME Mine, LibraryType, Identifiers, Mechanism # "on_publish",
         NEW m \in Msg, NEW to \in Stages, stage' = [stage EXCEPT ![m] = to],
         UNCHANGED <<given, packet, waiting, owed>>
  PROVE  LibraryType' /\ Identifiers' /\ Moved(stage, stage', m, to)
<1>1. Mechanism' = Mechanism
  BY SameClient
<1>2. QED
  BY <1>1 DEF LibraryType, Identifiers, Moved

LEMMA SettleBooks == ASSUME Books, NEW m \in Msg, Settle(m) PROVE Books'
<1>1. /\ stage[m] = "held" /\ \E to \in {"acked", "erred"} : stage' = [stage EXCEPT ![m] = to]
      /\ owed' = IF Mechanism = "on_publish" THEN Append(owed, m) ELSE owed
      /\ UNCHANGED <<given, packet, waiting, returning, sent, done, failed, rejected, pc>>
  BY DEF Settle, counters
<1>2. PICK to \in {"acked", "erred"} : stage' = [stage EXCEPT ![m] = to]
  BY <1>1
<1>3. /\ Mine /\ LibraryType /\ CounterType /\ Returns /\ Balance /\ Attempts /\ Identifiers
  BY DEF Books
<1>4. /\ Shape' = Shape /\ Mechanism' = Mechanism /\ Mine'
  BY <1>1, <1>3, SameClient
<1>5. LibraryType' /\ Identifiers'
  <2>1. CASE Mechanism # "on_publish"
    BY <1>1, <1>2, <1>3, <2>1, MovedWithout DEF Stages
  <2>2. CASE Mechanism = "on_publish"
    <3> USE DEF LibraryType
    <3>1. owed' = Append(owed, m) /\ owed \in Seq(Msg)
      BY <1>1, <1>3, <2>2
    <3>2. /\ owed' \in Seq(Msg) /\ Len(owed') = Len(owed) + 1 /\ Len(owed) \in Nat
          /\ \A k \in 1 .. Len(owed) : owed'[k] = owed[k]
          /\ owed'[Len(owed) + 1] = m
      BY <3>1, AppendProperties, LenProperties
    <3>3. stage' \in [Msg -> Stages]
      BY <1>2, <1>3 DEF Stages
    <3>4. \A k \in 1 .. Len(owed) : owed[k] # m
      BY <1>1, <1>3, <2>2 DEF Identifiers
    <3>5. \A a, b \in 1 .. Len(owed') : owed'[a] = owed'[b] => a = b
      <4>1. \A a, b \in 1 .. Len(owed) : owed[a] = owed[b] => a = b
        BY <1>3, <2>2 DEF Identifiers
      <4>2. \A a \in 1 .. Len(owed') : a \in 1 .. Len(owed) \/ a = Len(owed) + 1
        BY <3>2
      <4> HIDE DEF LibraryType
      <4>3. QED
        BY <3>2, <3>4, <4>1, <4>2
    <3>6. ASSUME NEW k \in Msg
          PROVE  stage'[k] \in {"acked", "erred"} <=> \E j \in 1 .. Len(owed') : owed'[j] = k
      <4>1. CASE k = m
        <5>1. stage'[k] \in {"acked", "erred"} /\ Len(owed) + 1 \in 1 .. Len(owed')
          BY <1>2, <1>3, <3>2, <4>1
        <5>2. QED
          BY <3>2, <4>1, <5>1
      <4>2. CASE k # m
        <5>1. stage'[k] = stage[k]
          BY <1>2, <1>3, <4>2
        <5>2. (\E j \in 1 .. Len(owed') : owed'[j] = k) <=> \E j \in 1 .. Len(owed) : owed[j] = k
          BY <3>2, <4>2
        <5>3. QED
          BY <1>3, <2>2, <5>1, <5>2 DEF Identifiers
      <4>3. QED
        BY <4>1, <4>2
    <3>7. \A i \in Ids : Waiters(i)' = Waiters(i)
      BY <1>1, <1>2, <1>3 DEF Waiters, OwingStages
    <3>8. \A i \in Ids : Len(waiting'[i]) = Cardinality(Waiters(i)')
      BY <1>1, <1>3, <2>2, <3>7 DEF Identifiers
    <3>9. QED
      BY <1>1, <1>3, <1>4, <2>2, <3>2, <3>3, <3>5, <3>6, <3>8 DEF Identifiers
  <2>3. QED
    BY <2>1, <2>2
<1>6. /\ Number(stage', OwingStages) = Number(stage, OwingStages)
      /\ Number(stage', {"reported"}) = Number(stage, {"reported"})
      /\ Number(stage', {"abandoned", "raised"}) = Number(stage, {"abandoned", "raised"})
      /\ Number(stage', {"unsent"}) = Number(stage, {"unsent"})
  <2>1. Moved(stage, stage', m, to)
    BY <1>2 DEF Moved
  <2>2. to \in OwingStages /\ stage[m] \in OwingStages
    BY <1>1 DEF OwingStages
  <2>3. \A states : Number(stage, states) \in Nat
    BY NumberType, MessagesAssumption
  <2>4. /\ to \notin {"reported", "abandoned", "raised", "unsent"}
        /\ stage[m] \notin {"reported", "abandoned", "raised", "unsent"}
    BY <1>1
  <2>5. QED
    BY <1>3, <2>1, <2>2, <2>3, <2>4, NumbersMoved
<1>7. CounterType' /\ Returns' /\ Balance' /\ Attempts'
  BY <1>1, <1>3, <1>4, <1>6 DEF CounterType, Returns, Balance, Attempts
<1>8. QED
  BY <1>4, <1>5, <1>7 DEF Books

LEMMA CompleteBooks == ASSUME Books, NEW m \in Msg, Complete(m) PROVE Books'
<1>1. /\ stage[m] \in {"acked", "erred"} /\ Mechanism # "on_publish"
      /\ stage' = [stage EXCEPT ![m] = "over"]
      /\ \/ done' = done + 1 /\ failed' = failed
         \/ failed' = failed + 1 /\ done' = done
      /\ UNCHANGED <<given, pc, packet, waiting, owed, returning, sent, rejected>>
  BY DEF Complete, Count
<1>2. /\ Mine /\ LibraryType /\ CounterType /\ Returns /\ Balance /\ Attempts /\ Identifiers
  BY DEF Books
<1>3. /\ Shape' = Shape /\ Mine'
  BY <1>1, <1>2, SameClient
<1>4. LibraryType' /\ Identifiers' /\ Moved(stage, stage', m, "over")
  BY <1>1, <1>2, MovedWithout DEF Stages
<1>5. /\ \A states : Number(stage, states) \in Nat
      /\ Number(stage', OwingStages) = Number(stage, OwingStages) - 1
      /\ Number(stage', {"reported"}) = Number(stage, {"reported"})
      /\ Number(stage', {"abandoned", "raised"}) = Number(stage, {"abandoned", "raised"})
      /\ Number(stage', {"unsent"}) = Number(stage, {"unsent"})
  <2>1. stage[m] \in OwingStages /\ "over" \notin OwingStages
    BY <1>1 DEF OwingStages
  <2>2. stage[m] \notin {"reported", "abandoned", "raised", "unsent"}
    BY <2>1 DEF OwingStages
  <2>3. \A states : Number(stage, states) \in Nat
    BY <1>2, <1>4, NumbersMoved
  <2>4. QED
    BY <1>2, <1>4, <2>1, <2>2, <2>3, NumbersMoved
<1>6. CounterType' /\ Returns'
  BY <1>1, <1>2, <1>3 DEF CounterType, Returns
<1>7. Balance' /\ Attempts'
  BY <1>1, <1>2, <1>3, <1>5 DEF CounterType, Balance, Attempts
<1>8. QED
  BY <1>3, <1>4, <1>6, <1>7 DEF Books

LEMMA RemoveBooks == ASSUME Books, NEW m \in Msg, RemoveAndAck(m) PROVE Books'
<1>1. /\ stage[m] = "held" /\ Mechanism # "on_publish"
      /\ stage' = [stage EXCEPT ![m] = "over"] /\ done' = done + 1
      /\ UNCHANGED <<given, pc, packet, waiting, owed, returning, sent, failed, rejected>>
  BY DEF RemoveAndAck
<1>2. /\ Mine /\ LibraryType /\ CounterType /\ Returns /\ Balance /\ Attempts /\ Identifiers
  BY DEF Books
<1>3. /\ Shape' = Shape /\ Mine'
  BY <1>1, <1>2, SameClient
<1>4. LibraryType' /\ Identifiers' /\ Moved(stage, stage', m, "over")
  BY <1>1, <1>2, MovedWithout DEF Stages
<1>5. /\ \A states : Number(stage, states) \in Nat
      /\ Number(stage', OwingStages) = Number(stage, OwingStages) - 1
      /\ Number(stage', {"reported"}) = Number(stage, {"reported"})
      /\ Number(stage', {"abandoned", "raised"}) = Number(stage, {"abandoned", "raised"})
      /\ Number(stage', {"unsent"}) = Number(stage, {"unsent"})
  <2>1. stage[m] \in OwingStages /\ "over" \notin OwingStages
    BY <1>1 DEF OwingStages
  <2>2. stage[m] \notin {"reported", "abandoned", "raised", "unsent"}
    BY <2>1 DEF OwingStages
  <2>3. \A states : Number(stage, states) \in Nat
    BY <1>2, <1>4, NumbersMoved
  <2>4. QED
    BY <1>2, <1>4, <2>1, <2>2, <2>3, NumbersMoved
<1>6. CounterType' /\ Returns'
  BY <1>1, <1>2, <1>3 DEF CounterType, Returns
<1>7. Balance' /\ Attempts'
  BY <1>1, <1>2, <1>3, <1>5 DEF CounterType, Balance, Attempts
<1>8. QED
  BY <1>3, <1>4, <1>6, <1>7 DEF Books

\* What is given up is still owed to the books: the awaiting coroutine is gone.
LEMMA AbandonBooks == ASSUME Books, NEW m \in Msg, Abandon(m) PROVE Books'
<1>1. /\ stage[m] \in OwingStages /\ Mechanism = "await"
      /\ stage' = [stage EXCEPT ![m] = "abandoned"]
      /\ UNCHANGED <<given, pc, packet, waiting, owed, returning, sent, done, failed, rejected>>
  BY DEF Abandon, OwingStages, counters
<1>2. /\ Mine /\ LibraryType /\ CounterType /\ Returns /\ Balance /\ Attempts /\ Identifiers
  BY DEF Books
<1>3. /\ Shape' = Shape /\ Mine' /\ Shape # "sync"
  BY <1>1, <1>2, SameClient, Mechanisms
<1>4. LibraryType' /\ Identifiers' /\ Moved(stage, stage', m, "abandoned")
  BY <1>1, <1>2, MovedWithout DEF Stages
<1>5. /\ \A states : Number(stage, states) \in Nat
      /\ Number(stage', OwingStages) = Number(stage, OwingStages) - 1
      /\ Number(stage', {"reported"}) = Number(stage, {"reported"})
      /\ Number(stage', {"abandoned", "raised"}) = Number(stage, {"abandoned", "raised"}) + 1
      /\ Number(stage', {"unsent"}) = Number(stage, {"unsent"})
  <2>1. stage[m] \in OwingStages /\ "abandoned" \notin OwingStages
    BY <1>1 DEF OwingStages
  <2>2. stage[m] \notin {"reported", "abandoned", "raised", "unsent"}
    BY <2>1 DEF OwingStages
  <2>3. \A states : Number(stage, states) \in Nat
    BY <1>2, <1>4, NumbersMoved
  <2>4. QED
    BY <1>2, <1>4, <2>1, <2>2, <2>3, NumbersMoved
<1>6. CounterType' /\ Returns'
  BY <1>1, <1>2, <1>3 DEF CounterType, Returns
<1>7. Balance' /\ Attempts'
  BY <1>1, <1>2, <1>3, <1>5 DEF CounterType, Balance, Attempts
<1>8. QED
  BY <1>3, <1>4, <1>6, <1>7 DEF Books

\* mqttium's on_publish: somebody waits on the identifier it is called with, so each
\* call finds a publish to complete.
LEMMA ByIdBooks == Books /\ CompleteById => Books'
<1> SUFFICES ASSUME Books, CompleteById PROVE Books'
  OBVIOUS
<1> DEFINE m == Head(owed)
           i == packet[m]
<1>1. /\ owed # <<>> /\ owed' = Tail(owed) /\ stage' = [stage EXCEPT ![m] = "over"]
      /\ IF waiting[i] = <<>> THEN UNCHANGED <<waiting, done, failed>>
           ELSE waiting' = [waiting EXCEPT ![i] = Tail(waiting[i])] /\ Count(m)
      /\ UNCHANGED <<given, packet, returning, sent, rejected, pc>>
  BY DEF CompleteById
<1>2. /\ Mine /\ LibraryType /\ CounterType /\ Returns /\ Balance /\ Attempts /\ Identifiers
  BY DEF Books
<1>3. Mechanism = "on_publish"
  BY <1>1, <1>2 DEF Identifiers
<1>4. /\ Shape' = Shape /\ Mechanism' = Mechanism /\ Mine'
  BY <1>1, <1>2, SameClient
<1>5. /\ owed \in Seq(Msg) /\ m = owed[1] /\ m \in Msg /\ Len(owed) \in Nat /\ Len(owed) >= 1
      /\ owed' \in Seq(Msg) /\ Len(owed') = Len(owed) - 1
      /\ \A k \in 1 .. Len(owed') : owed'[k] = owed[k + 1]
  <2>1. owed \in Seq(Msg)
    BY <1>2 DEF LibraryType
  <2>2. QED
    BY <1>1, <2>1, HeadTailProperties, EmptySeq, LenProperties
<1> HIDE DEF m
<1>6. stage[m] \in {"acked", "erred"}
  BY <1>2, <1>3, <1>5 DEF Identifiers
<1>7. i \in Ids /\ stage[m] \in OwingStages
  BY <1>2, <1>5, <1>6 DEF LibraryType, OwingStages
<1> HIDE DEF i
<1>8. ASSUME NEW j \in Ids
      PROVE  /\ Cardinality(Waiters(j)') = Cardinality(Waiters(j)) - (IF j = i THEN 1 ELSE 0)
             /\ j = i => Cardinality(Waiters(j)) >= 1
             /\ Cardinality(Waiters(j)) \in Nat /\ Len(waiting[j]) = Cardinality(Waiters(j))
  BY <1>1, <1>2, <1>3, <1>5, <1>7, WaitersLeft DEF Identifiers, i
<1>9. waiting[i] \in Seq(Msg) /\ waiting[i] # <<>>
  <2>1. waiting[i] \in Seq(Msg)
    BY <1>2, <1>7 DEF LibraryType
  <2>2. Len(waiting[i]) >= 1
    BY <1>7, <1>8
  <2>3. QED
    BY <2>1, <2>2, EmptySeq
<1>10. /\ waiting' = [waiting EXCEPT ![i] = Tail(waiting[i])]
       /\ \/ done' = done + 1 /\ failed' = failed
          \/ failed' = failed + 1 /\ done' = done
  BY <1>1, <1>9 DEF Count
<1>11. Tail(waiting[i]) \in Seq(Msg) /\ Len(Tail(waiting[i])) = Len(waiting[i]) - 1
  BY <1>9, HeadTailProperties
<1>12. LibraryType'
  BY <1>1, <1>2, <1>5, <1>10, <1>11 DEF LibraryType, Stages
<1>13. Identifiers'
  <2>1. \A a, b \in 1 .. Len(owed') : owed'[a] = owed'[b] => a = b
    <3>1. \A a, b \in 1 .. Len(owed) : owed[a] = owed[b] => a = b
      BY <1>2, <1>3 DEF Identifiers
    <3>2. \A a \in 1 .. Len(owed') : a \in Int /\ a + 1 \in 1 .. Len(owed)
      BY <1>5
    <3>3. QED
      BY <1>5, <3>1, <3>2
  <2>2. ASSUME NEW k \in Msg
        PROVE  stage'[k] \in {"acked", "erred"} <=> \E j \in 1 .. Len(owed') : owed'[j] = k
    <3>1. CASE k = m
      <4>1. stage'[k] = "over"
        BY <1>1, <1>2, <3>1 DEF LibraryType
      <4>2. ASSUME NEW j \in 1 .. Len(owed'), owed'[j] = k PROVE FALSE
        <5>1. j + 1 \in 1 .. Len(owed) /\ 1 \in 1 .. Len(owed) /\ j \in Nat /\ j >= 1
          BY <1>5
        <5>2. owed[j + 1] = owed[1]
          BY <1>5, <3>1, <4>2
        <5>3. j + 1 = 1
          BY <1>2, <1>3, <5>1, <5>2 DEF Identifiers
        <5>4. QED
          BY <5>1, <5>3
      <4>3. QED
        BY <4>1, <4>2
    <3>2. CASE k # m
      <4>1. stage'[k] = stage[k]
        BY <1>1, <1>2, <3>2 DEF LibraryType
      <4>2. ASSUME NEW j \in 1 .. Len(owed), owed[j] = k PROVE \E l \in 1 .. Len(owed') : owed'[l] = k
        <5>1. j # 1 /\ j - 1 \in 1 .. Len(owed') /\ (j - 1) + 1 = j
          BY <1>5, <3>2, <4>2
        <5>2. owed'[j - 1] = k
          BY <1>5, <4>2, <5>1
        <5>3. QED
          BY <5>1, <5>2
      <4>3. ASSUME NEW l \in 1 .. Len(owed'), owed'[l] = k PROVE \E j \in 1 .. Len(owed) : owed[j] = k
        <5>1. l + 1 \in 1 .. Len(owed) /\ owed[l + 1] = k
          BY <1>5, <4>3
        <5>2. QED
          BY <5>1
      <4>4. stage[k] \in {"acked", "erred"} <=> \E j \in 1 .. Len(owed) : owed[j] = k
        BY <1>2, <1>3 DEF Identifiers
      <4>5. QED
        BY <4>1, <4>2, <4>3, <4>4
    <3>3. QED
      BY <3>1, <3>2
  <2>3. ASSUME NEW j \in Ids PROVE Len(waiting'[j]) = Cardinality(Waiters(j)')
    <3>1. waiting'[j] = IF j = i THEN Tail(waiting[i]) ELSE waiting[j]
      BY <1>2, <1>10 DEF LibraryType
    <3>2. QED
      BY <1>8, <1>11, <3>1
  <2>4. QED
    BY <1>3, <1>4, <2>1, <2>2, <2>3 DEF Identifiers
<1>14. /\ \A states : Number(stage, states) \in Nat
       /\ Number(stage', OwingStages) = Number(stage, OwingStages) - 1
       /\ Number(stage', {"reported"}) = Number(stage, {"reported"})
       /\ Number(stage', {"abandoned", "raised"}) = Number(stage, {"abandoned", "raised"})
       /\ Number(stage', {"unsent"}) = Number(stage, {"unsent"})
  <2>1. Moved(stage, stage', m, "over")
    BY <1>1 DEF Moved
  <2>2. "over" \notin OwingStages /\ stage[m] \notin {"reported", "abandoned", "raised", "unsent"}
    BY <1>6 DEF OwingStages
  <2>3. \A states : Number(stage, states) \in Nat
    BY NumberType, MessagesAssumption
  <2>4. QED
    BY <1>2, <1>5, <1>7, <2>1, <2>2, <2>3, NumbersMoved, SMTT(30)
<1>15. CounterType' /\ Returns'
  BY <1>1, <1>2, <1>4, <1>10 DEF CounterType, Returns
<1>16. Balance' /\ Attempts'
  <2>1. /\ UNCHANGED <<returning, sent, rejected>> /\ Shape' = Shape
        /\ \/ done' = done + 1 /\ failed' = failed
           \/ failed' = failed + 1 /\ done' = done
    BY <1>1, <1>4, <1>10
  <2>2. QED
    BY <1>2, <1>14, <2>1 DEF CounterType, Balance, Attempts
<1>17. QED
  BY <1>4, <1>12, <1>13, <1>15, <1>16 DEF Books

\* The books are kept.
LEMMA NextBooks == Books /\ [Next]_vars => Books'
<1> SUFFICES ASSUME Books, [Next]_vars PROVE Books'
  OBVIOUS
<1>1. ASSUME Create \/ DoConnect \/ AwaitConnected \/ Subscribe \/ Subscribed \/ Check \/ Wait \/ Clear
             \/ ReadGo \/ RoutePublishes
      PROVE  Books'
  <2>1. pc # "drive" /\ UNCHANGED <<given, library, counters, returning>>
    BY <1>1 DEF Create, DoConnect, AwaitConnected, Subscribe, Subscribed, Check, Wait, Clear, ReadGo,
       RoutePublishes
  <2>2. returning = "nothing"
    BY <2>1 DEF Books, Returns
  <2>3. QED
    BY <2>1, <2>2, BooksUntouched
<1>2. ASSUME Drain \/ Snapshot \/ Disconnect \/ Write PROVE Books'
  <2>1. pc # "drive" /\ UNCHANGED <<given, library, counters, returning>>
    BY <1>2 DEF Drain, Snapshot, Disconnect, Write
  <2>2. returning = "nothing"
    BY <2>1 DEF Books, Returns
  <2>3. QED
    BY <2>1, <2>2, BooksUntouched
<1>3. ASSUME EndDrive PROVE Books'
  <2>1. DriveOver /\ UNCHANGED <<given, library, counters, returning>>
    BY <1>3 DEF EndDrive
  <2>2. CASE Shape = "sync"
    <3>1. returning = "nothing"
      BY <2>1, <2>2 DEF DriveOver
    <3>2. QED
      BY <2>1, <3>1, BooksUntouched
  <2>3. CASE Shape # "sync"
    <3>1. returning = "nothing"
      BY <2>3 DEF Books, Returns
    <3>2. QED
      BY <2>1, <3>1, BooksUntouched
  <2>4. QED
    BY <2>2, <2>3
<1>4. ASSUME OnConnect \/ Grant \/ OnSubscribe \/ LoseConnection \/ Tick \/ Ended \/ UNCHANGED vars
      PROVE  Books'
  <2>1. pc' = pc /\ UNCHANGED <<given, library, counters, returning>>
    BY <1>4 DEF OnConnect, Grant, OnSubscribe, LoseConnection, Tick, Ended, vars
  <2>2. QED
    BY <2>1, BooksUntouched
<1>5. QED
  BY <1>1, <1>2, <1>3, <1>4, CallBooks, ReturnBooks, NowaitBooks, AwaitedBooks, SettleBooks,
     CompleteBooks, ByIdBooks, RemoveBooks, AbandonBooks
     DEF Next, WorkerStep, LibraryStep

LEMMA BooksKept == Spec => []Books
  BY InitBooks, NextBooks, PTL DEF Spec

-----------------------------------------------------------------------------
(* The last snapshot. *)

FinalType == final \in [sent : 0 .. Messages, done : 0 .. Messages, failed : 0 .. Messages]

Late == {"read on", "disconnect", "write", "ended"}

\* No counter passes the number of publishes attempted.
LEMMA CountersBounded ==
  ASSUME Books
  PROVE  /\ {sent, done, failed, rejected} \subseteq 0 .. Messages
         /\ done + failed <= sent + (IF returning = "accepted" THEN 1 ELSE 0) + Number(stage, {"reported"})
<1>1. /\ Number(stage, OwingStages) \in Nat /\ Number(stage, {"reported"}) \in Nat
      /\ Number(stage, {"abandoned", "raised"}) \in Nat /\ Number(stage, {"unsent"}) \in Nat
  BY NumberType, MessagesAssumption
<1>2. CounterType /\ Balance /\ Attempts
  BY DEF Books
<1>3. done + failed <= sent + (IF returning = "accepted" THEN 1 ELSE 0) + Number(stage, {"reported"})
  BY <1>1, <1>2 DEF CounterType, Balance
<1>4. done + failed <= Messages /\ sent <= Messages /\ rejected <= Messages
  BY <1>1, <1>2, <1>3, MessagesAssumption DEF CounterType, Attempts
<1>5. sent \in 0 .. Messages /\ done \in 0 .. Messages /\ failed \in 0 .. Messages /\ rejected \in 0 .. Messages
  BY <1>2, <1>4, MessagesAssumption DEF CounterType
<1>6. QED
  BY <1>3, <1>5

LEMMA InitBehind == Init => Behind /\ FinalType
  BY MessagesAssumption DEF Init, Behind, FinalType

\* A step of the worker that is not yet past its last reading, or fails.
LEMMA BeforeTheReading ==
  ASSUME Behind, FinalType, pc # "ended", UNCHANGED <<final, result>>,
         pc' \notin Late \/ (pc' = "write" /\ error' # "none")
  PROVE  Behind' /\ FinalType'
  BY DEF Behind, FinalType, Late

\* A completion, or nothing of the worker's.
LEMMA WhileReading ==
  ASSUME Behind, FinalType, CounterType, CounterType', UNCHANGED <<pc, error, final, result, sent>>,
         done' >= done, failed' >= failed
  PROVE  Behind' /\ FinalType'
<1>1. final.done \in Int /\ final.failed \in Int /\ done \in Int /\ failed \in Int /\ done' \in Int
      /\ failed' \in Int
  BY MessagesAssumption DEF FinalType, CounterType
<1>2. final.done <= done => final.done <= done'
  BY <1>1
<1>3. final.failed <= failed => final.failed <= failed'
  BY <1>1
<1>4. QED
  BY <1>2, <1>3 DEF Behind, FinalType

LEMMA SnapshotBehind == Books /\ Behind /\ FinalType /\ Snapshot => Behind' /\ FinalType'
<1> SUFFICES ASSUME Books, Behind, FinalType, Snapshot PROVE Behind' /\ FinalType'
  OBVIOUS
<1>1. /\ UNCHANGED <<result, sent, done, failed, error>>
      /\ \/ pc = "read" /\ pc' = "read on" /\ final' = [final EXCEPT !.sent = sent, !.done = done]
         \/ pc = "read on" /\ pc' = "disconnect" /\ final' = [final EXCEPT !.failed = failed]
  BY DEF Snapshot, GoTo, counters
<1>2. sent \in 0 .. Messages /\ done \in 0 .. Messages /\ failed \in 0 .. Messages
  BY CountersBounded
<1>3. FinalType'
  BY <1>1, <1>2 DEF FinalType
<1>4. result # "ok"
  BY <1>1 DEF Behind
<1>5. CASE pc = "read"
  <2>1. /\ pc' = "read on" /\ final' = [final EXCEPT !.sent = sent, !.done = done]
        /\ final \in [sent : 0 .. Messages, done : 0 .. Messages, failed : 0 .. Messages]
    BY <1>1, <1>5 DEF FinalType
  <2>2. final'.sent = sent /\ final'.done = done
    BY <2>1
  <2>3. done <= done
    BY <1>2
  <2>4. QED
    BY <1>1, <1>3, <1>4, <2>1, <2>2, <2>3 DEF Behind
<1>6. CASE pc = "read on"
  <2>1. /\ pc' = "disconnect" /\ final' = [final EXCEPT !.failed = failed]
        /\ final \in [sent : 0 .. Messages, done : 0 .. Messages, failed : 0 .. Messages]
    BY <1>1, <1>6 DEF FinalType
  <2>2. final'.failed = failed /\ final'.sent = final.sent /\ final'.done = final.done
    BY <2>1
  <2>3. final.sent = sent /\ final.done <= done
    BY <1>6 DEF Behind
  <2>4. failed <= failed
    BY <1>2
  <2>5. QED
    BY <1>1, <1>3, <1>4, <2>1, <2>2, <2>3, <2>4 DEF Behind
<1>7. QED
  BY <1>1, <1>5, <1>6

LEMMA WriteBehind == Behind /\ FinalType /\ (Disconnect \/ Write) => Behind' /\ FinalType'
<1> SUFFICES ASSUME Behind, FinalType, Disconnect \/ Write PROVE Behind' /\ FinalType'
  OBVIOUS
<1>1. UNCHANGED <<sent, done, failed, error, final>>
  BY DEF Disconnect, Write, GoTo, counters
<1>2. FinalType'
  BY <1>1 DEF FinalType
<1>3. \/ pc = "disconnect" /\ pc' \in {"write", "hung"} /\ result' = result
      \/ pc = "write" /\ pc' = "ended" /\ result' = IF error = "none" THEN "ok" ELSE "error"
  BY DEF Disconnect, Write, GoTo
<1>4. QED
  BY <1>1, <1>2, <1>3 DEF Behind

LEMMA NextBehind == IInv /\ Books /\ Behind /\ FinalType /\ [Next]_vars => Behind' /\ FinalType'
<1> SUFFICES ASSUME IInv, Books, Behind, FinalType, [Next]_vars PROVE Behind' /\ FinalType'
  OBVIOUS
<1>1. ASSUME Create \/ DoConnect \/ AwaitConnected \/ Subscribe \/ Subscribed \/ Check \/ Wait \/ Clear
             \/ ReadGo \/ RoutePublishes
      PROVE  Behind' /\ FinalType'
  <2>1. /\ pc # "ended" /\ UNCHANGED <<final, result>>
        /\ pc' \notin Late \/ (pc' = "write" /\ error' # "none")
    <3>1. CASE Create \/ DoConnect \/ AwaitConnected
      BY <3>1 DEF Create, DoConnect, AwaitConnected, GoTo, Fail, AfterConnect, Late
    <3>2. CASE Subscribe \/ Subscribed \/ Wait \/ Clear \/ ReadGo \/ RoutePublishes
      BY <3>2 DEF Subscribe, Subscribed, Wait, Clear, ReadGo, RoutePublishes, GoTo, Fail, Late
    <3>3. CASE Check
      <4>1. acked \in {"absent", "granted", "refused"}
        BY <3>3 DEF Check, IInv, Told, Granted, Grants
      <4>2. QED
        BY <3>3, <4>1 DEF Check, GoTo, Fail, Late
    <3>4. QED
      BY <1>1, <3>1, <3>2, <3>3
  <2>2. QED
    BY <2>1, BeforeTheReading
<1>2. ASSUME Call \/ Return \/ PublishNowait \/ PublishAwaited \/ EndDrive \/ Drain
      PROVE  Behind' /\ FinalType'
  <2>1. /\ pc # "ended" /\ UNCHANGED <<final, result>>
        /\ pc' \notin Late \/ (pc' = "write" /\ error' # "none")
    <3>1. CASE Call
      <4>1. /\ pc = "drive" /\ UNCHANGED <<final, result>> /\ (Fail("drive") \/ GoTo("drive"))
        BY <3>1 DEF Call
      <4>2. QED
        BY <4>1 DEF Fail, GoTo, Late
    <3>2. CASE PublishNowait
      <4>1. /\ pc = "drive" /\ UNCHANGED <<final, result>> /\ (Fail("drive") \/ GoTo("drive"))
        BY <3>2 DEF PublishNowait
      <4>2. QED
        BY <4>1 DEF Fail, GoTo, Late
    <3>3. CASE Return \/ PublishAwaited \/ EndDrive \/ Drain
      BY <3>3 DEF Return, PublishAwaited, EndDrive, Drain, GoTo, Late
    <3>4. QED
      BY <1>2, <3>1, <3>2, <3>3
  <2>2. QED
    BY <2>1, BeforeTheReading
<1>3. ASSUME LibraryStep \/ Tick \/ Ended \/ UNCHANGED vars PROVE Behind' /\ FinalType'
  <2>1. CounterType /\ CounterType'
    BY NextBooks DEF Books
  <2>2. /\ UNCHANGED <<pc, error, final, result, sent>>
        /\ done' = done \/ done' = done + 1
        /\ failed' = failed \/ failed' = failed + 1
    <3>1. CASE OnConnect \/ Grant \/ OnSubscribe \/ LoseConnection \/ Tick \/ Ended \/ UNCHANGED vars
      BY <3>1 DEF OnConnect, Grant, OnSubscribe, LoseConnection, Tick, Ended, vars, counters
    <3>2. CASE CompleteById
      BY <3>2 DEF CompleteById, Count
    <3>3. CASE \E m \in Msg : Settle(m) \/ Complete(m) \/ RemoveAndAck(m) \/ Abandon(m)
      BY <3>3 DEF Settle, Complete, RemoveAndAck, Abandon, Count, counters
    <3>4. QED
      BY <1>3, <3>1, <3>2, <3>3 DEF LibraryStep
  <2>3. done' >= done /\ failed' >= failed
    BY <2>1, <2>2 DEF CounterType
  <2>4. QED
    BY <2>1, <2>2, <2>3, WhileReading
<1>4. QED
  BY <1>1, <1>2, <1>3, SnapshotBehind, WriteBehind DEF Next, WorkerStep

-----------------------------------------------------------------------------
(* The types of the rest. *)

Places == {"create", "connect", "connecting", "subscribe", "subscribing", "check", "wait",
           "clear", "ready", "read_go", "route", "drive", "drain", "read", "read on",
           "disconnect", "hung", "write", "ended"}

PlaceType ==
  /\ pc \in Places
  /\ error \in {"none", "create", "connect", "subscribe", "subscribe_refused", "go", "route", "drive"}
  /\ result \in {"none", "ok", "error"} /\ clock \in 0 .. 3

LinkType ==
  /\ reply \in Replies /\ up \in BOOLEAN /\ connected \in BOOLEAN
  /\ asked \in {"unasked", "asked"} \union Grants /\ acked \in {"absent", "granted", "refused"}

\* Before the drive ...
LEMMA EarlyPlaces ==
  ASSUME PlaceType, Create \/ DoConnect \/ AwaitConnected \/ Subscribe \/ Subscribed \/ Wait \/ Clear
                    \/ ReadGo \/ RoutePublishes
  PROVE  PlaceType'
<1>1. CASE Create \/ DoConnect
  BY <1>1 DEF Create, DoConnect, GoTo, Fail, AfterConnect, PlaceType, Places
<1>2. CASE AwaitConnected \/ Subscribe \/ Subscribed
  BY <1>2 DEF AwaitConnected, Subscribe, Subscribed, GoTo, Fail, AfterConnect, PlaceType, Places
<1>3. CASE Wait \/ Clear \/ ReadGo \/ RoutePublishes
  BY <1>3 DEF Wait, Clear, ReadGo, RoutePublishes, GoTo, Fail, PlaceType, Places
<1>4. QED
  BY <1>1, <1>2, <1>3

LEMMA CheckPlace == IInv /\ PlaceType /\ Check => PlaceType'
<1> SUFFICES ASSUME IInv, PlaceType, Check PROVE PlaceType'
  OBVIOUS
<1>1. acked \in {"absent", "granted", "refused"}
  BY DEF Check, IInv, Told, Granted, Grants
<1>2. QED
  BY <1>1 DEF Check, GoTo, Fail, PlaceType, Places

\* ... and from it on.
LEMMA LatePlaces ==
  ASSUME PlaceType, Call \/ Return \/ PublishNowait \/ PublishAwaited \/ EndDrive \/ Drain \/ Snapshot
                    \/ Disconnect \/ Write
  PROVE  PlaceType'
<1>1. CASE Call
  <2>1. (Fail("drive") \/ GoTo("drive")) /\ UNCHANGED <<result, clock>>
    BY <1>1 DEF Call
  <2>2. QED
    BY <2>1 DEF Fail, GoTo, PlaceType, Places
<1>2. CASE PublishNowait
  <2>1. (Fail("drive") \/ GoTo("drive")) /\ UNCHANGED <<result, clock>>
    BY <1>2 DEF PublishNowait
  <2>2. QED
    BY <2>1 DEF Fail, GoTo, PlaceType, Places
<1>3. CASE Return \/ PublishAwaited
  BY <1>3 DEF Return, PublishAwaited, PlaceType
<1>4. CASE EndDrive \/ Drain \/ Snapshot \/ Disconnect \/ Write
  <2>1. /\ pc' \in Places /\ error' = error /\ clock' = clock
        /\ result' = result \/ result' \in {"ok", "error"}
    BY <1>4 DEF EndDrive, Drain, Snapshot, Disconnect, Write, GoTo, Places
  <2>2. QED
    BY <2>1 DEF PlaceType
<1>5. QED
  BY <1>1, <1>2, <1>3, <1>4

LEMMA NextPlaces == IInv /\ PlaceType /\ [Next]_vars => PlaceType'
<1> SUFFICES ASSUME IInv, PlaceType, [Next]_vars PROVE PlaceType'
  OBVIOUS
<1>1. ASSUME LibraryStep \/ Ended \/ UNCHANGED vars PROVE PlaceType'
  <2>1. UNCHANGED <<pc, error, result, clock>>
    BY <1>1 DEF LibraryStep, OnConnect, Grant, OnSubscribe, CompleteById, LoseConnection, Settle,
       Complete, RemoveAndAck, Abandon, Ended, vars
  <2>2. QED
    BY <2>1 DEF PlaceType
<1>2. ASSUME Tick PROVE PlaceType'
  <2>1. UNCHANGED <<pc, error, result>> /\ clock' \in 0 .. 3
    BY <1>2 DEF Tick, PlaceType
  <2>2. QED
    BY <2>1 DEF PlaceType
<1>3. QED
  BY <1>1, <1>2, EarlyPlaces, CheckPlace, LatePlaces DEF Next, WorkerStep

LEMMA NextLinks == IInv /\ LinkType /\ [Next]_vars => LinkType'
<1> SUFFICES ASSUME IInv, LinkType, [Next]_vars PROVE LinkType'
  OBVIOUS
<1>1. ASSUME UNCHANGED <<reply, up, connected, asked, acked>> PROVE LinkType'
  BY <1>1 DEF LinkType
<1>2. ASSUME Create \/ AwaitConnected \/ Subscribed \/ Check \/ Wait \/ Clear \/ ReadGo \/ RoutePublishes
      PROVE  LinkType'
  BY <1>1, <1>2 DEF Create, AwaitConnected, Subscribed, Check, Wait, Clear, ReadGo, RoutePublishes,
     given, handshake
<1>3. ASSUME Call \/ Return \/ PublishNowait \/ PublishAwaited PROVE LinkType'
  BY <1>1, <1>3 DEF Call, Return, PublishNowait, PublishAwaited, given, handshake
<1>4. ASSUME EndDrive \/ Drain \/ Snapshot \/ Disconnect \/ Write \/ Tick \/ Ended \/ UNCHANGED vars
      PROVE  LinkType'
  BY <1>1, <1>4 DEF EndDrive, Drain, Snapshot, Disconnect, Write, Tick, Ended, vars, given, handshake
<1>5. ASSUME CompleteById \/ \E m \in Msg : Settle(m) \/ Complete(m) \/ RemoveAndAck(m) \/ Abandon(m)
      PROVE  LinkType'
  BY <1>1, <1>5 DEF CompleteById, Settle, Complete, RemoveAndAck, Abandon, given, handshake
<1>6. ASSUME DoConnect \/ OnConnect \/ LoseConnection PROVE LinkType'
  <2>1. /\ UNCHANGED <<reply, asked, acked>> /\ (connected' = connected \/ connected' = TRUE)
        /\ (up' = up \/ up' = TRUE \/ up' = FALSE)
    BY <1>6 DEF DoConnect, OnConnect, LoseConnection, given, handshake
  <2>2. up' \in BOOLEAN /\ connected' \in BOOLEAN
    BY <2>1, Zenon DEF LinkType
  <2>3. QED
    BY <2>1, <2>2 DEF LinkType
<1>7. ASSUME Subscribe \/ Grant PROVE LinkType'
  <2>1. /\ UNCHANGED <<reply, up, connected, acked>>
        /\ asked' = asked \/ asked' = "asked" \/ asked' \in Grants
    BY <1>7 DEF Subscribe, Grant, Grants, given
  <2>2. QED
    BY <2>1 DEF LinkType
<1>8. ASSUME OnSubscribe PROVE LinkType'
  <2>1. /\ UNCHANGED <<reply, up, connected, asked>> /\ Shape = "sync" /\ asked \in Grants
        /\ acked' = acked \/ acked' = Suback(client, point.protocol, asked)
    BY <1>8 DEF OnSubscribe, given
  <2>2. Suback(client, point.protocol, asked) \in {"granted", "refused"}
    BY <2>1, CaseFacts, SyncSuback DEF IInv, Granted, Shape
  <2>3. QED
    BY <2>1, <2>2 DEF LinkType
<1>9. QED
  BY <1>2, <1>3, <1>4, <1>5, <1>6, <1>7, <1>8 DEF Next, WorkerStep, LibraryStep

-----------------------------------------------------------------------------
(* The theorems about the publishes. *)

Kept == IInv /\ Books /\ Behind /\ FinalType /\ PlaceType /\ LinkType

LEMMA KeptAlways == Spec => []Kept
<1>1. Init => Kept
  <2>1. Init => PlaceType
    BY DEF Init, PlaceType, Places
  <2>2. Init => LinkType
    BY DEF Init, LinkType
  <2>3. QED
    BY <2>1, <2>2, InitIInv, InitBooks, InitBehind DEF Kept
<1>2. Kept /\ [Next]_vars => Kept'
  BY NextIInv, NextBooks, NextBehind, NextPlaces, NextLinks DEF Kept
<1>3. QED
  BY <1>1, <1>2, PTL DEF Spec

\* Every variable of the worker's process keeps its type; above all the drive's counters
\* and the snapshot stay within the publishes attempted, none of them twice.
THEOREM SessionTypeCorrect == Spec => []TypeOK
<1>1. Kept => TypeOK
  <2> SUFFICES ASSUME Kept PROVE TypeOK
    OBVIOUS
  <2>1. IInv /\ Books /\ Behind /\ FinalType /\ PlaceType /\ LinkType
    BY DEF Kept
  <2>2. <<client, point>> \in Cases /\ build \in {"on_publish", "receipt"}
    BY <2>1 DEF Books, Mine, Case
  <2>3. stage \in [Msg -> Stages] /\ packet \in [Msg -> Ids] /\ waiting \in [Ids -> Seq(Msg)]
        /\ owed \in Seq(Msg) /\ returning \in {"nothing", "accepted", "refused"}
    BY <2>1 DEF Books, LibraryType, CounterType
  <2>4. DOMAIN waiting = Ids /\ \A i \in Ids : Range(waiting[i]) \subseteq Msg
    <3>1. \A i \in Ids : waiting[i] \in Seq(Msg)
      BY <2>3
    <3>2. QED
      BY <2>3, <3>1, RangeOfSeq
  <2>5. Range(owed) \subseteq Msg
    BY <2>3, RangeOfSeq
  <2>6. {sent, done, failed, rejected} \subseteq 0 .. Messages
    BY <2>1, CountersBounded
  <2>7. {final.sent, final.done, final.failed} \subseteq 0 .. Messages
    BY <2>1 DEF FinalType
  <2>8. told \in {"nothing", "half", "all"} /\ event \in BOOLEAN
    BY <2>1 DEF IInv, Told
  <2>9. /\ reply \in Replies /\ {up, connected, event} \subseteq BOOLEAN
        /\ asked \in {"unasked", "asked"} \union Grants /\ acked \in {"absent", "granted", "refused"}
    BY <2>1, <2>8, Zenon DEF LinkType
  <2>10. /\ pc \in Places
         /\ error \in {"none", "create", "connect", "subscribe", "subscribe_refused", "go", "route", "drive"}
         /\ result \in {"none", "ok", "error"} /\ clock \in 0 .. 3
    BY <2>1 DEF PlaceType
  <2>11. QED
    BY <2>2, <2>3, <2>4, <2>5, <2>6, <2>7, <2>8, <2>9, <2>10, Zenon DEF TypeOK, Places
<1>2. QED
  BY <1>1, KeptAlways, PTL

\* Whichever way the client's completions come, whatever they race with and however the
\* drive ends: what the counters leave outstanding is what the library owes or has lost,
\* and the result file of a good run shows no more completions than publishes.
THEOREM OutcomesAlwaysMatch == Spec => []OutcomesMatch
<1>1. Kept => OutcomesMatch
  <2> SUFFICES ASSUME Kept PROVE OutcomesMatch
    OBVIOUS
  <2>1. /\ Books /\ Behind /\ FinalType /\ CounterType /\ Balance /\ Returns
    BY DEF Kept, Books
  <2>2. /\ Cardinality(Reported) = Number(stage, {"reported"})
        /\ Cardinality(Owing) = Number(stage, OwingStages)
    <3>1. /\ Reported = {m \in Msg : stage[m] \in {"reported"}}
          /\ Owing = {m \in Msg : stage[m] \in OwingStages}
      BY DEF Reported, Owing, OwingStages
    <3>2. QED
      BY <3>1 DEF Number
  <2>3. Cardinality({m \in Orphaned : Shape # "sync"})
          = IF Shape = "sync" THEN 0 ELSE Number(stage, {"abandoned", "raised"})
    <3>1. CASE Shape = "sync"
      <4>1. {m \in Orphaned : Shape # "sync"} = {}
        BY <3>1
      <4>2. QED
        BY <3>1, <4>1, FS_EmptySet
    <3>2. CASE Shape # "sync"
      <4>1. {m \in Orphaned : Shape # "sync"} = {m \in Msg : stage[m] \in {"abandoned", "raised"}}
        BY <3>2 DEF Orphaned
      <4>2. QED
        BY <3>2, <4>1 DEF Number
    <3>3. QED
      BY <3>1, <3>2
  <2>4. /\ Number(stage, OwingStages) \in Nat /\ Number(stage, {"reported"}) \in Nat
        /\ Number(stage, {"abandoned", "raised"}) \in Nat
    BY NumberType, MessagesAssumption
  <2>5. sent + (IF returning = "accepted" THEN 1 ELSE 0) - done - failed + Cardinality(Reported)
          = Cardinality(Owing) + Cardinality({m \in Orphaned : Shape # "sync"})
    BY <2>1, <2>2, <2>3, <2>4 DEF Balance, CounterType
  <2>6. ASSUME result = "ok"
        PROVE  final.done + final.failed <= final.sent + Cardinality(Reported)
    <3>1. final.sent = sent /\ final.done <= done /\ final.failed <= failed /\ pc = "ended"
      BY <2>1, <2>6 DEF Behind
    <3>2. returning = "nothing"
      BY <2>1, <3>1 DEF Returns
    <3>3. done + failed <= sent + Number(stage, {"reported"})
      BY <2>1, <2>4, <3>2, CountersBounded DEF CounterType
    <3>4. final.done \in Nat /\ final.failed \in Nat
      BY <2>1, MessagesAssumption DEF FinalType
    <3>5. QED
      BY <2>1, <2>2, <2>4, <3>1, <3>3, <3>4 DEF CounterType
  <2>7. QED
    BY <2>5, <2>6 DEF OutcomesMatch
<1>2. QED
  BY <1>1, KeptAlways, PTL
=============================================================================
