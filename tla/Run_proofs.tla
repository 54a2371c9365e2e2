----------------------------- MODULE Run_proofs ------------------------------
(***************************************************************************)
(* One run, for any cases: whatever way it ends it leaves nothing behind;  *)
(* for a client whose subscribe() waits for the SUBACK whatever receives   *)
(* is subscribed, as far as the client tells, before whatever sends        *)
(* exists; and a valid status means a complete run, within the tolerance.  *)
(***************************************************************************)
EXTENDS Run, SequenceTheorems, FiniteSetTheorems, TLAPS

-----------------------------------------------------------------------------
(* The processes. *)

ProcType == proc \in [Child -> Alive \cup {"none", "exited"}]

\* run_once holds exactly the processes it has started, from their creation on.
Holds == \A c \in Child : c \in children <=> proc[c] # "none"

\* Before the try statement there is nothing to clean; after its finally clause
\* nothing is left.
Cleaned ==
  /\ children \subseteq Child
  /\ pc = "refusals" => children = {} /\ capture = "none" /\ ~files
  /\ pc \in {"kill", "over"} => capture # "running"
  /\ pc = "over" => ~files /\ \A c \in Child : proc[c] \notin Alive

IInv == ProcType /\ Holds /\ Cleaned

LEMMA InitIInv == Init => IInv
  BY DEF Init, IInv, ProcType, Holds, Cleaned, Alive

\* A step that starts no process: none appears, and none revives.
NoneStarted ==
  /\ proc' \in [Child -> Alive \cup {"none", "exited"}]
  /\ \A c \in Child : /\ proc'[c] = "none" <=> proc[c] = "none"
                      /\ proc'[c] \in Alive => proc[c] \in Alive

\* What a step that starts no process must respect to keep the invariant.
LEMMA NoStartKeeps ==
  ASSUME IInv, NoneStarted, children' = children,
         \/ pc' = pc /\ UNCHANGED <<capture, files>>
         \/ pc # "refusals" /\ pc' \notin {"refusals", "kill", "over"}
  PROVE  IInv'
<1>1. ProcType' /\ Holds'
  BY DEF IInv, ProcType, Holds, NoneStarted
<1>2. Cleaned'
  BY DEF IInv, Cleaned, NoneStarted
<1>3. QED
  BY <1>1, <1>2 DEF IInv

\* The steps of the children, the messages and the broker start no process.
LEMMA WorldSteps ==
  ASSUME IInv,
         \/ \E c \in Child : BecomeReady(c) \/ Report(c) \/ Exit(c)
         \/ SubscribeLate
         \/ \E m \in Msg : Send(m) \/ Route(m) \/ Receive(m)
         \/ Update \/ Over \/ UNCHANGED vars
  PROVE  NoneStarted /\ UNCHANGED <<pc, children, capture, files, starts, given>>
<1>1. UNCHANGED <<pc, children, capture, files, starts, given>>
  BY DEF BecomeReady, Report, Exit, SubscribeLate, Send, Route, Receive, Update, Over, vars,
     held, given
<1>2. NoneStarted
  <2>1. ASSUME NEW c \in Child, BecomeReady(c) PROVE NoneStarted
    BY <2>1 DEF BecomeReady, NoneStarted, IInv, ProcType, Alive
  <2>2. ASSUME NEW c \in Child, Exit(c) PROVE NoneStarted
    BY <2>2 DEF Exit, NoneStarted, IInv, ProcType, Alive
  <2>3. CASE proc' = proc
    BY <2>3 DEF NoneStarted, IInv, ProcType
  <2>4. QED
    BY <2>1, <2>2, <2>3
       DEF Report, SubscribeLate, Send, Route, Receive, Update, Over, vars, world
<1>3. QED
  BY <1>1, <1>2

LEMMA DeclinePrepareSteps == IInv /\ (Decline \/ Prepare) => IInv'
<1> SUFFICES ASSUME IInv, Decline \/ Prepare PROVE IInv'
  OBVIOUS
<1>1. /\ pc = "refusals" /\ UNCHANGED <<children, proc, capture>>
      /\ \/ pc' = "over" /\ files' = files
         \/ pc' = "start"
  BY DEF Decline, Prepare, held, world
<1>2. \A c \in Child : proc[c] = "none"
  BY <1>1 DEF IInv, Holds, Cleaned
<1>3. QED
  BY <1>1, <1>2 DEF IInv, ProcType, Holds, Cleaned, Alive

LEMMA SpawnStep == IInv /\ Head(starts) \in Child /\ Spawn => IInv'
<1> SUFFICES ASSUME IInv, Head(starts) \in Child, Spawn PROVE IInv'
  OBVIOUS
<1> DEFINE h == Head(starts)
<1>1. /\ pc = "start" /\ pc' = "await" /\ children' = children \cup {h}
      /\ proc' = [proc EXCEPT ![h] = "starting"]
  BY DEF Spawn
<1> HIDE DEF h
<1>2. ProcType'
  BY <1>1 DEF IInv, ProcType, Alive
<1>3. Holds'
  BY <1>1 DEF IInv, ProcType, Holds
<1>4. Cleaned'
  BY <1>1 DEF IInv, Cleaned, h
<1>5. QED
  BY <1>2, <1>3, <1>4 DEF IInv

\* Between the refusals and the finally clause processes only ever end.
LEMMA MiddleSteps ==
  ASSUME IInv,
         \/ SeeReady \/ (GiveUp /\ Head(starts) \in children) \/ Ask \/ Answer \/ Go \/ Measure
         \/ (\E c \in Child : Finish(c)) \/ AllFinished \/ Sampled \/ NotSampled
         \/ Fail \/ Interrupt
  PROVE  /\ NoneStarted /\ UNCHANGED <<children, given>>
         /\ pc # "refusals" /\ pc' \notin {"refusals", "kill", "over"}
<1>1. /\ children' = children /\ UNCHANGED given
      /\ pc # "refusals" /\ pc' \notin {"refusals", "kill", "over"}
  BY DEF SeeReady, GiveUp, Ask, Answer, Go, Measure, Finish, AllFinished, Sampled, NotSampled,
     Fail, Interrupt, held
<1>2. NoneStarted
  <2>1. ASSUME GiveUp, Head(starts) \in children PROVE NoneStarted
    <3>1. \/ proc' = proc
          \/ "worker" \in children /\ proc' = [proc EXCEPT !["worker"] = "exited"]
      BY <2>1 DEF GiveUp
    <3>2. QED
      BY <3>1 DEF NoneStarted, IInv, ProcType, Holds, Child, Alive
  <2>2. ASSUME NEW c \in Child, Finish(c) PROVE NoneStarted
    <3>1. c \in children
      BY <2>2 DEF Finish, NextToFinish, Unfinished
    <3>2. proc' = [proc EXCEPT ![c] = "exited"]
      BY <2>2 DEF Finish
    <3>3. QED
      BY <3>1, <3>2 DEF NoneStarted, IInv, ProcType, Holds, Alive
  <2>3. ASSUME Go PROVE NoneStarted
    BY <2>3 DEF Go, NoneStarted, IInv, ProcType, Alive
  <2>4. CASE proc' = proc
    BY <2>4 DEF NoneStarted, IInv, ProcType
  <2>5. QED
    BY <2>1, <2>2, <2>3, <2>4
       DEF SeeReady, Ask, Answer, Measure, AllFinished, Sampled, NotSampled, Fail, Interrupt, world
<1>3. QED
  BY <1>1, <1>2

\* The finally clause.
LEMMA CleanupSteps ==
  ASSUME IInv, Close \/ Kill \/ Conclude
  PROVE  NoneStarted /\ IInv' /\ UNCHANGED <<given>>
<1>1. ASSUME IInv, Close PROVE NoneStarted /\ IInv' /\ UNCHANGED <<given>>
  BY <1>1 DEF Close, NoneStarted, IInv, ProcType, Holds, Cleaned, world
<1>2. ASSUME IInv, Kill PROVE NoneStarted /\ IInv' /\ UNCHANGED <<given>>
  <2>1. PICK c \in children : proc[c] \in Alive /\ proc' = [proc EXCEPT ![c] = "exited"]
    BY <1>2 DEF Kill
  <2>2. NoneStarted
    BY <1>2, <2>1 DEF NoneStarted, IInv, ProcType, Cleaned, Alive
  <2>3. UNCHANGED <<pc, children, capture, files>> /\ UNCHANGED given
    BY <1>2 DEF Kill, held, given
  <2>4. QED
    BY <1>2, <2>2, <2>3, NoStartKeeps
<1>3. ASSUME IInv, Conclude PROVE NoneStarted /\ IInv' /\ UNCHANGED <<given>>
  <2>1. /\ pc = "kill" /\ pc' = "over" /\ ~files' /\ UNCHANGED <<proc, children, capture>>
        /\ \A c \in children : proc[c] \notin Alive
        /\ UNCHANGED given
    BY <1>3 DEF Conclude, world
  <2>2. \A c \in Child : proc[c] \notin Alive
    BY <1>3, <2>1 DEF IInv, Holds, Alive
  <2>3. QED
    BY <1>3, <2>1, <2>2 DEF NoneStarted, IInv, ProcType, Holds, Cleaned
<1>4. QED
  BY <1>1, <1>2, <1>3

-----------------------------------------------------------------------------
(* The order of the starts. *)

\* start_peers(True), the worker, start_peers(False), shape by shape.
LEMMA StartOrders ==
  ASSUME NEW k
  PROVE  /\ k \in {"pub", "rtt"} => StartOrder(k) = <<"peer", "worker">>
         /\ k = "duplex" => StartOrder(k) = <<"peer", "worker", "peer_source">>
         /\ k = "sub" => StartOrder(k) = <<"worker", "peer">>
         /\ k \notin {"pub", "rtt", "duplex", "sub"} => StartOrder(k) = <<"worker">>
<1>1. \A a \in Child : <<>> \o <<a>> = <<a>> /\ <<a>> \o <<>> = <<a>>
  BY ConcatEmptySeq
<1>2. \A a, b \in Child : <<a>> \o <<b>> = <<a, b>> /\ <<a, b>> \o <<>> = <<a, b>>
  <2> TAKE a, b \in Child
  <2>1. <<a>> \in Seq(Child) /\ <<a, b>> \in Seq(Child)
    OBVIOUS
  <2>2. Append(<<a>>, b) = <<a, b>>
    <3> DEFINE s == Append(<<a>>, b)
    <3>1. s \in Seq(Child) /\ Len(s) = Len(<<a, b>>)
      BY <2>1, AppendProperties
    <3>2. ASSUME NEW i \in 1 .. Len(s) PROVE s[i] = <<a, b>>[i]
      BY <2>1, AppendProperties, <3>1
    <3> HIDE DEF s
    <3>3. s = <<a, b>>
      BY <2>1, <3>1, <3>2, SeqEqual
    <3>4. QED
      BY <3>3 DEF s
  <2>3. QED
    BY <2>1, <2>2, AppendIsConcat, ConcatEmptySeq
<1>3. \A a, b, c \in Child : <<a, b>> \o <<c>> = <<a, b, c>>
  <2> TAKE a, b, c \in Child
  <2>1. <<a, b>> \in Seq(Child) /\ <<a, b, c>> \in Seq(Child)
    OBVIOUS
  <2>2. Append(<<a, b>>, c) = <<a, b, c>>
    <3> DEFINE s == Append(<<a, b>>, c)
    <3>1. s \in Seq(Child) /\ Len(s) = Len(<<a, b, c>>)
      BY <2>1, AppendProperties
    <3>2. ASSUME NEW i \in 1 .. Len(s) PROVE s[i] = <<a, b, c>>[i]
      BY <2>1, AppendProperties, <3>1
    <3> HIDE DEF s
    <3>3. s = <<a, b, c>>
      BY <2>1, <3>1, <3>2, SeqEqual
    <3>4. QED
      BY <3>3 DEF s
  <2>3. QED
    BY <2>1, <2>2, AppendIsConcat
<1>4. "worker" \in Child /\ "peer" \in Child /\ "peer_source" \in Child
  BY DEF Child
<1>5. k \in {"pub", "rtt"} => StartOrder(k) = <<"peer", "worker">>
  BY <1>2, <1>4 DEF StartOrder, PeersFirst, PeersLast
<1>6. k = "duplex" => StartOrder(k) = <<"peer", "worker", "peer_source">>
  BY <1>2, <1>3, <1>4, ZenonT(60) DEF StartOrder, PeersFirst, PeersLast
<1>7. k = "sub" => StartOrder(k) = <<"worker", "peer">>
  BY <1>1, <1>2, <1>4 DEF StartOrder, PeersFirst, PeersLast
<1>8. k \notin {"pub", "rtt", "duplex", "sub"} => StartOrder(k) = <<"worker">>
  BY <1>1, <1>4 DEF StartOrder, PeersFirst, PeersLast
<1>9. QED
  BY <1>5, <1>6, <1>7, <1>8

\* While the worker's peer is not ready the queue is as it was, and so on.
Ordered ==
  /\ starts \in Seq(Child)
  /\ pc = "await" => starts # <<>> /\ Head(starts) \in children
  /\ point.kind \in {"pub", "rtt"} =>
       \/ "peer" \in heardReady
       \/ starts = <<"peer", "worker">> /\ proc["worker"] = "none"
  /\ point.kind = "duplex" =>
       \/ "peer" \in heardReady
       \/ starts = <<"peer", "worker", "peer_source">> /\ proc["worker"] = "none"
  /\ point.kind = "duplex" =>
       \/ "worker" \in heardReady
       \/ starts \in {<<"peer", "worker", "peer_source">>, <<"worker", "peer_source">>}
            /\ proc["peer_source"] = "none"
  /\ point.kind = "sub" =>
       \/ "worker" \in heardReady
       \/ starts = <<"worker", "peer">> /\ proc["peer"] = "none"

LEMMA InitOrdered == Init => Ordered
<1> SUFFICES ASSUME Init PROVE Ordered
  OBVIOUS
<1>1. starts = StartOrder(point.kind) /\ pc = "refusals" /\ \A c \in Child : proc[c] = "none"
  BY DEF Init
<1>2. starts \in Seq(Child)
  <2>1. /\ <<"peer", "worker">> \in Seq(Child) /\ <<"worker", "peer">> \in Seq(Child)
        /\ <<"peer", "worker", "peer_source">> \in Seq(Child) /\ <<"worker">> \in Seq(Child)
    BY DEF Child
  <2>2. QED
    BY <1>1, <2>1, StartOrders, Zenon
<1>3. QED
  BY <1>1, <1>2, StartOrders DEF Ordered, Child

\* A step that starts no process and leaves the queue alone keeps the order.
LEMMA QueueKept ==
  ASSUME Ordered, NoneStarted, starts' = starts, UNCHANGED given, children \subseteq children',
         heardReady \subseteq heardReady', pc' = "await" => pc = "await"
  PROVE  Ordered'
<1>1. point' = point
  BY DEF given
<1>2. \A c \in Child : proc[c] = "none" => proc'[c] = "none"
  BY DEF NoneStarted
<1>3. /\ proc["worker"] = "none" => proc'["worker"] = "none"
      /\ proc["peer"] = "none" => proc'["peer"] = "none"
      /\ proc["peer_source"] = "none" => proc'["peer_source"] = "none"
  BY <1>2 DEF Child
<1>4. QED
  BY <1>1, <1>3 DEF Ordered

\* Heads and tails of the queues that occur.
LEMMA Queues ==
  /\ Head(<<"peer", "worker">>) = "peer"
  /\ Head(<<"peer", "worker", "peer_source">>) = "peer"
  /\ Tail(<<"peer", "worker", "peer_source">>) = <<"worker", "peer_source">>
  /\ Head(<<"worker", "peer_source">>) = "worker"
  /\ Head(<<"worker", "peer">>) = "worker"
  OBVIOUS

LEMMA SpawnOrdered == IInv /\ Ordered /\ Spawn => Ordered'
<1> SUFFICES ASSUME IInv, Ordered, Spawn PROVE Ordered'
  OBVIOUS
<1> DEFINE h == Head(starts)
<1>1. /\ UNCHANGED <<point, starts, heardReady>> /\ pc' = "await" /\ starts # <<>>
      /\ proc' = [proc EXCEPT ![h] = "starting"] /\ children' = children \cup {h}
  BY DEF Spawn, given
<1>2. h \in Child
  BY <1>1 DEF Ordered
<1>3. \A c \in Child : c # h => proc'[c] = proc[c]
  BY <1>1 DEF IInv, ProcType
<1>4. /\ h # "worker" => proc'["worker"] = proc["worker"]
      /\ h # "peer" => proc'["peer"] = proc["peer"]
      /\ h # "peer_source" => proc'["peer_source"] = proc["peer_source"]
  BY <1>3 DEF Child
<1>5. /\ starts = <<"peer", "worker">> => h = "peer"
      /\ starts = <<"peer", "worker", "peer_source">> => h = "peer"
      /\ starts = <<"worker", "peer_source">> => h = "worker"
      /\ starts = <<"worker", "peer">> => h = "worker"
  BY Queues
<1>6. h \in children'
  BY <1>1
<1>7. QED
  BY <1>1, <1>4, <1>5, <1>6 DEF Ordered

LEMMA SeeReadyOrdered == Ordered /\ SeeReady => Ordered'
<1> SUFFICES ASSUME Ordered, SeeReady PROVE Ordered'
  OBVIOUS
<1>1. /\ UNCHANGED <<point, proc, heardReady, children>> /\ starts' = Tail(starts)
      /\ pc' = "start" /\ Head(starts) \in heardReady /\ starts # <<>>
  BY DEF SeeReady, Ordered, given, held, world
<1>2. starts' \in Seq(Child)
  BY <1>1 DEF Ordered
<1>3. QED
  BY <1>1, <1>2, Queues DEF Ordered

LEMMA NextInv == IInv /\ Ordered /\ [Next]_vars => IInv' /\ Ordered'
<1> SUFFICES ASSUME IInv, Ordered, [Next]_vars PROVE IInv' /\ Ordered'
  OBVIOUS
<1>1. ASSUME Decline \/ Prepare PROVE IInv' /\ Ordered'
  <2>1. NoneStarted /\ UNCHANGED <<starts, given, children, heardReady>> /\ pc' # "await"
    BY <1>1 DEF Decline, Prepare, NoneStarted, IInv, ProcType, world, held
  <2>2. QED
    BY <1>1, <2>1, DeclinePrepareSteps, QueueKept
<1>2. ASSUME Spawn PROVE IInv' /\ Ordered'
  <2>1. Head(starts) \in Child
    BY <1>2 DEF Spawn, Ordered
  <2>2. QED
    BY <1>2, <2>1, SpawnStep, SpawnOrdered
<1>3. ASSUME SeeReady PROVE IInv' /\ Ordered'
  <2>1. IInv'
    BY <1>3, MiddleSteps, NoStartKeeps
  <2>2. Ordered'
    BY <1>3, SeeReadyOrdered
  <2>3. QED
    BY <2>1, <2>2
<1>4. ASSUME \/ GiveUp \/ Ask \/ Answer \/ Go \/ Measure \/ (\E c \in Child : Finish(c))
             \/ AllFinished \/ Sampled \/ NotSampled \/ Fail \/ Interrupt
      PROVE  IInv' /\ Ordered'
  <2>1. /\ UNCHANGED <<starts, children, heardReady>> /\ (pc' # "await" \/ pc = "await")
        /\ GiveUp => Head(starts) \in children
    BY <1>4 DEF GiveUp, Ask, Answer, Go, Measure, Finish, AllFinished, Sampled, NotSampled, Fail,
       Interrupt, world, held, Ordered
  <2>2. QED
    BY <1>4, <2>1, MiddleSteps, NoStartKeeps, QueueKept
<1>5. ASSUME Close \/ Kill \/ Conclude PROVE IInv' /\ Ordered'
  <2>1. UNCHANGED <<starts, children, heardReady>> /\ (pc' # "await" \/ pc = "await")
    BY <1>5 DEF Close, Kill, Conclude, world, held
  <2>2. QED
    BY <1>5, <2>1, CleanupSteps, QueueKept
<1>6. ASSUME \/ \E c \in Child : BecomeReady(c) \/ Report(c) \/ Exit(c)
             \/ SubscribeLate
             \/ \E m \in Msg : Send(m) \/ Route(m) \/ Receive(m)
             \/ Update \/ Over \/ UNCHANGED vars
      PROVE  IInv' /\ Ordered'
  <2>1. heardReady \subseteq heardReady'
    BY <1>6 DEF BecomeReady, Report, Exit, SubscribeLate, Send, Route, Receive, Update, Over, vars,
       world
  <2>2. QED
    BY <1>6, <2>1, WorldSteps, NoStartKeeps, QueueKept
<1>7. QED
  BY <1>1, <1>2, <1>3, <1>4, <1>5, <1>6 DEF Next, Orchestrate

LEMMA SpecInv == Spec => [](IInv /\ Ordered)
<1>1. Init => IInv /\ Ordered
  BY InitIInv, InitOrdered
<1>2. QED
  BY <1>1, NextInv, PTL DEF Spec

-----------------------------------------------------------------------------
(* Theorems. *)

\* However run_once returns or is interrupted, wherever a child died, hung or failed to
\* start, no child it started is alive, the profiler is gone and so are its files.
THEOREM RunsCleanUp == Spec => []NothingLeftBehind
<1>1. IInv => NothingLeftBehind
  BY DEF IInv, Cleaned, NothingLeftBehind
<1>2. QED
  BY <1>1, SpecInv, PTL

\* What is known of a child that was heard to be ready and receives, where the worker's
\* subscribe() waits.
Punctual == point.kind \in {"sub", "duplex"} => AwaitsSuback(client)

Granted ==
  /\ Punctual
  /\ subscription \in [Child -> {"none", "unsent", "granted", "refused"}]
  /\ point.kind \in {"sub", "duplex"} /\ "worker" \in heardReady => Settled("worker")
  /\ point.kind \in {"pub", "rtt", "duplex"} /\ "peer" \in heardReady => Settled("peer")

\* What a child may be subscribed as when it says ready is enough for the start order.
LEMMA SubscribedAsSettles ==
  ASSUME NEW c \in Child, NEW as \in SubscribedAs(c)
  PROVE  /\ as \in {"none", "unsent", "granted", "refused"}
         /\ c = "worker" /\ Receives(point.kind) /\ AwaitsSuback(client) =>
              \/ as = "granted"
              \/ as = "refused" /\ HidesRefusal(client, point.protocol)
              \/ as = "unsent" /\ LeavesNoMid(client)
         /\ c = "peer" /\ point.kind \in {"pub", "rtt", "duplex"} => as = "granted"
<1>1. CASE c = "worker" /\ Receives(point.kind) /\ AwaitsSuback(client)
  BY <1>1 DEF SubscribedAs, HidesRefusal
<1>2. CASE c # "worker" \/ ~Receives(point.kind) \/ ~AwaitsSuback(client)
  BY <1>2 DEF SubscribedAs
<1>3. QED
  BY <1>1, <1>2

LEMMA NextGranted == Granted /\ [Next]_vars => Granted'
<1> SUFFICES ASSUME Granted, [Next]_vars PROVE Granted'
  OBVIOUS
<1>1. UNCHANGED <<client, point>>
  BY DEF Next, Orchestrate, vars, Decline, Prepare, Spawn, SeeReady, GiveUp, Ask, Answer, Go,
     Measure, Finish, AllFinished, Sampled, NotSampled, Fail, Close, Kill, Conclude, Interrupt,
     BecomeReady, Report, Exit, SubscribeLate, Send, Route, Receive, Update, Over, given
<1>2. ASSUME NEW c \in Child, BecomeReady(c) PROVE Granted'
  <2>1. PICK as \in SubscribedAs(c) : subscription' = [subscription EXCEPT ![c] = as]
    BY <1>2 DEF BecomeReady
  <2>2. heardReady' = heardReady \cup {c}
    BY <1>2 DEF BecomeReady
  <2>3. Punctual' /\ subscription' \in [Child -> {"none", "unsent", "granted", "refused"}]
    BY <1>1, <2>1, SubscribedAsSettles DEF Granted, Punctual
  <2>4. ASSUME point.kind \in {"sub", "duplex"}, "worker" \in heardReady' PROVE Settled("worker")'
    <3>1. CASE c = "worker"
      <4>1. subscription'["worker"] = as /\ Receives(point.kind) /\ AwaitsSuback(client)
        BY <2>1, <2>4, <3>1 DEF Granted, Punctual, Receives
      <4>2. QED
        BY <1>1, <3>1, <4>1, SubscribedAsSettles DEF Settled
    <3>2. CASE c # "worker"
      <4>1. subscription'["worker"] = subscription["worker"] /\ "worker" \in heardReady
        BY <2>1, <2>2, <2>4, <3>2 DEF Granted, Child
      <4>2. QED
        BY <1>1, <2>4, <4>1 DEF Granted, Settled
    <3>3. QED
      BY <3>1, <3>2
  <2>5. ASSUME point.kind \in {"pub", "rtt", "duplex"}, "peer" \in heardReady' PROVE Settled("peer")'
    <3>1. CASE c = "peer"
      <4>1. subscription'["peer"] = as
        BY <2>1, <3>1 DEF Granted
      <4>2. QED
        BY <2>5, <3>1, <4>1, SubscribedAsSettles DEF Settled
    <3>2. CASE c # "peer"
      <4>1. subscription'["peer"] = subscription["peer"] /\ "peer" \in heardReady
        BY <2>1, <2>2, <2>5, <3>2 DEF Granted, Child
      <4>2. QED
        BY <1>1, <2>5, <4>1 DEF Granted, Settled
    <3>3. QED
      BY <3>1, <3>2
  <2>6. QED
    BY <1>1, <2>3, <2>4, <2>5 DEF Granted
<1>3. ASSUME SubscribeLate PROVE Granted'
  <2>1. PICK g \in {"granted", "refused"} : subscription' = [subscription EXCEPT !["worker"] = g]
    BY <1>3 DEF SubscribeLate
  <2>2. heardReady' = heardReady /\ point.kind \notin {"sub", "duplex"}
    BY <1>3 DEF SubscribeLate, Granted, Punctual
  <2>3. subscription'["peer"] = subscription["peer"]
    BY <2>1 DEF Granted, Child
  <2>4. QED
    BY <1>1, <2>1, <2>2, <2>3 DEF Granted, Punctual, Settled
<1>4. CASE UNCHANGED <<heardReady, subscription>>
  BY <1>1, <1>4 DEF Granted, Punctual, Settled
<1>5. QED
  BY <1>2, <1>3, <1>4
     DEF Next, Orchestrate, vars, world, Decline, Prepare, Spawn, SeeReady, GiveUp, Ask, Answer,
         Go, Measure, Finish, AllFinished, Sampled, NotSampled, Fail, Close, Kill, Conclude,
         Interrupt, Report, Exit, Send, Route, Receive, Update, Over

\* runner.py's rule, "whatever receives subscribes before whatever sends exists", holds
\* as far as the client tells the worker, for every client whose subscribe() waits to be
\* told: a receiver is granted, but for a refusal its adapter hides and a subscribe() on a
\* lost connection that left no mid.  What the start order needs of a client is that wait,
\* and zmqtt and gmqtt do not give it.
THEOREM SubscribersComeFirst ==
  ASSUME \A case \in Cases : case[2].kind \in {"sub", "duplex"} => AwaitsSuback(case[1])
  PROVE  Spec => []ReceiversFirst
<1>1. Init => Granted
  <2> SUFFICES ASSUME Init PROVE Granted
    OBVIOUS
  <2>1. PICK case \in Cases : client = case[1] /\ point = case[2]
    BY DEF Init
  <2>2. QED
    BY <2>1 DEF Init, Granted, Punctual
<1>2. IInv /\ Ordered /\ Granted => ReceiversFirst
  <2> SUFFICES ASSUME Ordered, Granted, NEW m \in Msg, Sender(m) \in Child,
                      proc[Sender(m)] # "none", ~(m = "in" /\ point.kind = "rtt")
               PROVE  Settled(Receiver(m))
    BY DEF ReceiversFirst
  <2>1. CASE m = "out"
    <3>1. Sender(m) = "worker" /\ Receiver(m) = "peer" /\ point.kind \in {"pub", "rtt", "duplex"}
      BY <2>1 DEF Sender, Receiver, Publishes, Child
    <3>2. QED
      BY <3>1 DEF Ordered, Granted
  <2>2. CASE m = "in"
    <3>1. /\ Receiver(m) = "worker"
          /\ \/ point.kind = "sub" /\ Sender(m) = "peer"
             \/ point.kind = "duplex" /\ Sender(m) = "peer_source"
      BY <2>2 DEF Sender, Receiver, Child
    <3>2. QED
      BY <3>1 DEF Ordered, Granted
  <2>3. QED
    BY <2>1, <2>2 DEF Msg
<1>3. QED
  BY <1>1, <1>2, NextGranted, SpecInv, PTL DEF Spec
-----------------------------------------------------------------------------
(* What a valid status says of the record. *)

LEMMA AllPassed ==
  ASSUME NEW checks, StatusOf(checks) = "valid", NEW c \in checks
  PROVE  c.passed
<1> SUFFICES ASSUME ~c.passed PROVE FALSE
  OBVIOUS
<1> DEFINE failed == {x \in checks : ~x.passed}
<1>1. failed # {}
  OBVIOUS
<1>2. StatusOf(checks) = CASE failed = {} -> "valid"
                           [] \E x \in failed : x.severity = "invalid" -> "invalid"
                           [] OTHER -> "not_sustained"
  BY DEF StatusOf
<1> HIDE DEF failed
<1>3. QED
  BY <1>1, <1>2

LEMMA InvalidWhenFailed ==
  ASSUME NEW checks, NEW c \in checks, ~c.passed, c.severity = "invalid"
  PROVE  StatusOf(checks) = "invalid"
<1> DEFINE failed == {x \in checks : ~x.passed}
<1>1. failed # {} /\ \E x \in failed : x.severity = "invalid"
  OBVIOUS
<1>2. StatusOf(checks) = CASE failed = {} -> "valid"
                           [] \E x \in failed : x.severity = "invalid" -> "invalid"
                           [] OTHER -> "not_sustained"
  BY DEF StatusOf
<1> HIDE DEF failed
<1>3. QED
  BY <1>1, <1>2

\* A valid record: each party completed, and every check that applies passed.
LEMMA ValidRecord ==
  ASSUME NEW r, Evaluate(r) = "valid"
  PROVE  /\ r.worker.ok /\ r.sys.read
         /\ r.point.kind # "idle" => Completed(r.peer)
         /\ r.point.kind = "duplex" => Completed(r.source)
         /\ \A c \in PublishChecks(r) \union LossChecks(r) \union RateChecks(r) : c.passed
<1>1. StatusOf(CompletionChecks(r)) # "invalid"
  BY DEF Evaluate
<1>2. StatusOf(PublishChecks(r) \union DeliveryChecks(r) \union LossChecks(r)
               \union RateChecks(r) \union FeatureChecks(r) \union HostChecks(r)) = "valid"
  BY <1>1 DEF Evaluate
<1>3. \A c \in CompletionChecks(r) : c.severity = "invalid" => c.passed
  BY <1>1, InvalidWhenFailed
<1>4. r.worker.ok
  <2>1. Check("worker_completed", r.worker.ok, "invalid") \in CompletionChecks(r)
    BY DEF CompletionChecks
  <2>2. QED
    BY <1>3, <2>1 DEF Check
<1>5. r.sys.read
  <2>1. Check("broker_counters_read", r.sys.read, "invalid") \in CompletionChecks(r)
    BY DEF CompletionChecks
  <2>2. QED
    BY <1>3, <2>1 DEF Check
<1>6. ASSUME r.point.kind # "idle" PROVE Completed(r.peer)
  <2>1. Check("peer_completed", Completed(r.peer), "invalid") \in CompletionChecks(r)
    BY <1>6 DEF CompletionChecks, When
  <2>2. QED
    BY <1>3, <2>1 DEF Check
<1>7. ASSUME r.point.kind = "duplex" PROVE Completed(r.source)
  <2>1. Check("source_completed", Completed(r.source), "invalid") \in CompletionChecks(r)
    BY <1>7 DEF CompletionChecks, When
  <2>2. QED
    BY <1>3, <2>1 DEF Check
<1>8. \A c \in PublishChecks(r) \union LossChecks(r) \union RateChecks(r) : c.passed
  BY <1>2, AllPassed
<1>9. QED
  BY <1>4, <1>5, <1>6, <1>7, <1>8

\* What the checks compare, for a valid record.
LEMMA ValidPublish ==
  ASSUME NEW r, Evaluate(r) = "valid", Publishes(r.point.kind)
  PROVE  FromClient(r) \in (r.worker.done - Tolerance(r.worker.done))
                             .. (r.worker.sent + Tolerance(r.worker.sent))
<1> DEFINE low == r.worker.done - Tolerance(r.worker.done)
           high == r.worker.sent + Tolerance(r.worker.sent)
           c == Check("broker_confirms_client_publishes", FromClient(r) \in low .. high, "invalid")
<1>1. c \in PublishChecks(r)
  BY DEF PublishChecks, When
<1>2. c.passed
  BY <1>1, ValidRecord
<1>3. QED
  BY <1>2 DEF Check

\* At QoS 1 and 2 each check compares what arrived with what was acknowledged.
LEMMA ValidArrivals ==
  ASSUME NEW r, Evaluate(r) = "valid", r.point.qos >= 1
  PROVE  /\ r.point.kind \in {"pub", "duplex"} => Arrived(r.peer.received, r.worker.done)
         /\ r.point.kind = "duplex" => Arrived(r.worker.received, r.source.acked)
         /\ r.point.kind = "sub" /\ r.point.rated => Arrived(r.worker.received, r.peer.acked)
         /\ r.point.kind = "rtt" => Arrived(r.worker.received, r.peer.echoed)
<1> DEFINE excused == IF r.sys.dropped # 0 THEN "not_sustained" ELSE "invalid"
           toPeer == Check("no_loss", Arrived(r.peer.received, r.worker.done), "invalid")
           inbound == Check("no_loss_inbound", Arrived(r.worker.received, r.source.acked), excused)
           taken == Check("no_loss", Arrived(r.worker.received, r.peer.acked), excused)
           answered == Check("no_loss", Arrived(r.worker.received, r.peer.echoed), "not_sustained")
<1>1. \A c \in LossChecks(r) : c.passed
  BY ValidRecord
<1>2. ASSUME r.point.kind \in {"pub", "duplex"} PROVE Arrived(r.peer.received, r.worker.done)
  <2>1. toPeer \in LossChecks(r)
    BY <1>2 DEF LossChecks, When
  <2>2. toPeer.passed
    BY <1>1, <2>1
  <2>3. QED
    BY <2>2 DEF Check
<1>3. ASSUME r.point.kind = "duplex" PROVE Arrived(r.worker.received, r.source.acked)
  <2>1. inbound \in LossChecks(r)
    BY <1>3 DEF LossChecks, When
  <2>2. inbound.passed
    BY <1>1, <2>1
  <2>3. QED
    BY <2>2 DEF Check
<1>4. ASSUME r.point.kind = "sub", r.point.rated PROVE Arrived(r.worker.received, r.peer.acked)
  <2>1. taken \in LossChecks(r)
    BY <1>4 DEF LossChecks, When
  <2>2. taken.passed
    BY <1>1, <2>1
  <2>3. QED
    BY <2>2 DEF Check
<1>5. ASSUME r.point.kind = "rtt" PROVE Arrived(r.worker.received, r.peer.echoed)
  <2>1. answered \in LossChecks(r)
    BY <1>5 DEF LossChecks, When
  <2>2. answered.passed
    BY <1>1, <2>1
  <2>3. QED
    BY <2>2 DEF Check
<1>6. QED
  BY <1>2, <1>3, <1>4, <1>5

\* What a receiver at a fixed rate was fed, whoever fed it.
Fed(r) ==
  CASE r.point.kind = "sub" -> r.peer.wsent
    [] r.point.kind = "duplex" -> r.source.wsent
    [] OTHER -> r.worker.wsent

LEMMA ValidRates ==
  ASSUME NEW r, Evaluate(r) = "valid", r.point.rated, r.point.kind \in {"sub", "duplex", "rtt"}
  PROVE  RateHeld(Fed(r), Offered) /\ RateHeld(r.worker.wreceived, Fed(r))
<1> DEFINE offering == Check("offered_rate_held", RateHeld(r.worker.wsent, Offered), "not_sustained")
           answering == Check("responses_kept_up", RateHeld(r.worker.wreceived, r.worker.wsent),
                              "not_sustained")
           fed == IF r.point.kind = "sub" THEN r.peer.wsent ELSE r.source.wsent
           feeding == IF r.point.kind = "sub"
                        THEN Check("offered_rate_held", RateHeld(r.peer.wsent, Offered), "invalid")
                        ELSE Check("source_rate_held", RateHeld(r.source.wsent, Offered), "invalid")
           keptUp == Check("client_kept_up", RateHeld(r.worker.wreceived, fed), "not_sustained")
<1>1. \A c \in RateChecks(r) : c.passed
  BY ValidRecord
<1>2. CASE r.point.kind = "rtt"
  <2>1. offering \in RateChecks(r) /\ answering \in RateChecks(r)
    BY <1>2 DEF RateChecks, When, Publishes
  <2>2. offering.passed /\ answering.passed
    BY <1>1, <2>1
  <2>3. RateHeld(r.worker.wsent, Offered) /\ RateHeld(r.worker.wreceived, r.worker.wsent)
    BY <2>2 DEF Check
  <2>4. QED
    BY <1>2, <2>3 DEF Fed
<1>3. CASE r.point.kind \in {"sub", "duplex"}
  <2>1. feeding \in RateChecks(r) /\ keptUp \in RateChecks(r)
    BY <1>3 DEF RateChecks, When
  <2>2. feeding.passed /\ keptUp.passed
    BY <1>1, <2>1
  <2>3. RateHeld(fed, Offered) /\ RateHeld(r.worker.wreceived, fed)
    BY <2>2 DEF Check
  <2>4. fed = Fed(r)
    BY <1>3 DEF Fed
  <2>5. QED
    BY <2>3, <2>4
<1>4. QED
  BY <1>2, <1>3
-----------------------------------------------------------------------------
(* Types. *)

Counted == [sent : Few, done : Few, received : Few]
Reading == [received : Readings, sent : Readings, dropped : Readings]
Flows == [sent : Few, routed : Few, forwarded : Few, dropped : Few, received : Few]

\* A message is sent before it is routed, and forwarded before it is received.
FlowOrder ==
  \A m \in Msg :
    /\ flow[m].routed <= flow[m].sent
    /\ flow[m].forwarded + flow[m].dropped <= flow[m].routed
    /\ flow[m].received <= flow[m].forwarded

\* What is still to start is a tail of the order.
Remaining ==
  \E i \in 1 .. 4 : starts = SubSeq(StartOrder(point.kind), i, Len(StartOrder(point.kind)))

\* The rest of the types, by who changes it.
GivenType == <<client, point>> \in Cases /\ sampling \in Profiled
WorldType ==
  /\ heardReady \subseteq Child
  /\ subscription \in [Child -> {"none", "unsent", "granted", "refused"}]
  /\ proc \in [Child -> Alive \cup {"none", "exited"}]
  /\ said \in [Child -> {"nothing", "ok", "error"}]
  /\ flow \in [Msg -> Flows]
  /\ counts \in [Child -> Counted]
  /\ shown \in Reading /\ fresh \in BOOLEAN
RunnerType ==
  /\ pc \in {"refusals", "start", "await", "answer", "go", "measure", "finish",
             "ask again", "answer again", "load", "close", "kill", "over"}
  /\ children \subseteq Child
  /\ before \in Reading /\ after \in Reading
  /\ entries \in [Child -> {"absent", "nothing", "ok", "error"}]
  /\ capture \in {"none", "running", "closed"}
  /\ files \in BOOLEAN /\ sampled \in BOOLEAN
  /\ ending \in {"normal", "exception", "interrupt"}
  /\ status \in {"none", "unsupported", "valid", "not_sustained", "invalid", "raised"}

Types == GivenType /\ Remaining /\ WorldType /\ FlowOrder /\ RunnerType

LEMMA TypesAreTypeOK == Types => TypeOK
<1> SUFFICES ASSUME Types PROVE TypeOK
  OBVIOUS
<1>1. {shown, before, after} \subseteq Reading
  BY DEF Types, WorldType, RunnerType
<1>2. QED
  BY <1>1, Zenon
     DEF Types, GivenType, Remaining, WorldType, RunnerType, TypeOK, Flows, Counted, Reading

\* The bounds are those of the point, which no step changes.
LEMMA LoadType == GivenType => Load[point.kind] \in Nat
<1> SUFFICES ASSUME GivenType PROVE Load[point.kind] \in Nat
  OBVIOUS
<1>1. <<client, point>> \in Cases /\ <<client, point>>[2] = point
  BY DEF GivenType
<1>2. QED
  BY <1>1, RunAssumption

LEMMA BoundsKept ==
  ASSUME point' = point
  PROVE  Flows' = Flows /\ Counted' = Counted /\ Reading' = Reading
  BY DEF Flows, Counted, Reading, Few, Readings

\* What the types say of one direction.
LEMMA FlowNumbers ==
  ASSUME Types, NEW m \in Msg
  PROVE  /\ flow[m] \in Flows
         /\ flow[m].sent \in Nat /\ flow[m].sent <= Load[point.kind] /\ flow[m].routed \in Nat
         /\ flow[m].forwarded \in Nat /\ flow[m].dropped \in Nat /\ flow[m].received \in Nat
         /\ flow[m].routed <= flow[m].sent
         /\ flow[m].forwarded + flow[m].dropped <= flow[m].routed
         /\ flow[m].received <= flow[m].forwarded
<1>1. flow[m] \in Flows
  BY DEF Types, WorldType
<1>2. Load[point.kind] \in Nat
  BY LoadType DEF Types
<1>3. QED
  BY <1>1, <1>2 DEF Types, FlowOrder, Flows, Few

LEMMA BrokerCountersType == Types => BrokerCounters \in Reading
<1> SUFFICES ASSUME Types PROVE BrokerCounters \in Reading
  OBVIOUS
<1>1. "out" \in Msg /\ "in" \in Msg /\ Load[point.kind] \in Nat
  BY LoadType DEF Types, Msg
<1>2. /\ BrokerCounters.received \in Readings /\ BrokerCounters.sent \in Readings
      /\ BrokerCounters.dropped \in Readings
  <2>1. BrokerCounters.received \in Readings
    BY <1>1, FlowNumbers DEF BrokerCounters, Earlier, Readings
  <2>2. BrokerCounters.sent \in Readings
    BY <1>1, FlowNumbers DEF BrokerCounters, Earlier, Readings
  <2>3. BrokerCounters.dropped \in Readings
    BY <1>1, FlowNumbers DEF BrokerCounters, Earlier, Readings
  <2>4. QED
    BY <2>1, <2>2, <2>3
<1>3. QED
  BY <1>2 DEF BrokerCounters, Reading

LEMMA TrueCountsType ==
  ASSUME Types, NEW c \in Child
  PROVE  TrueCounts(c) \subseteq Counted
<1> DEFINE mine == IF Sender(Outgoing(c)) = c THEN flow[Outgoing(c)] ELSE NoFlow
           taken == IF Receiver(Incoming(c)) = c THEN flow[Incoming(c)].received ELSE 0
<1>1. Outgoing(c) \in Msg /\ Incoming(c) \in Msg /\ Load[point.kind] \in Nat
  BY LoadType DEF Types, Outgoing, Incoming, Msg
<1>2. mine.sent \in Few /\ mine.routed \in Few
  BY <1>1, FlowNumbers DEF NoFlow, Few
<1>3. taken \in Few
  BY <1>1, FlowNumbers DEF Few
<1>4. \A n \in TrueCounts(c) :
        /\ n = [sent |-> n.sent, done |-> n.done, received |-> n.received]
        /\ n.sent = mine.sent /\ n.received = taken
        /\ n.done \in 0 .. (IF c = "worker" THEN mine.sent ELSE mine.routed)
  BY DEF TrueCounts
<1> HIDE DEF mine, taken
<1>5. \A d \in 0 .. (IF c = "worker" THEN mine.sent ELSE mine.routed) : d \in Few
  BY <1>1, <1>2 DEF Few
<1>6. QED
  BY <1>2, <1>3, <1>4, <1>5 DEF Counted

LEMMA StartOrderType ==
  StartOrder(point.kind) \in Seq(Child) /\ Len(StartOrder(point.kind)) \in 1 .. 3
<1>1. /\ <<"peer", "worker">> \in Seq(Child) /\ <<"worker", "peer">> \in Seq(Child)
      /\ <<"peer", "worker", "peer_source">> \in Seq(Child) /\ <<"worker">> \in Seq(Child)
  BY DEF Child
<1>2. /\ Len(<<"peer", "worker">>) = 2 /\ Len(<<"worker", "peer">>) = 2
      /\ Len(<<"peer", "worker", "peer_source">>) = 3 /\ Len(<<"worker">>) = 1
  OBVIOUS
<1>3. \/ StartOrder(point.kind) = <<"peer", "worker">>
      \/ StartOrder(point.kind) = <<"worker", "peer">>
      \/ StartOrder(point.kind) = <<"peer", "worker", "peer_source">>
      \/ StartOrder(point.kind) = <<"worker">>
  BY StartOrders, Zenon
<1>4. CASE StartOrder(point.kind) = <<"peer", "worker">>
  BY <1>1, <1>2, <1>4
<1>5. CASE StartOrder(point.kind) = <<"worker", "peer">>
  BY <1>1, <1>2, <1>5
<1>6. CASE StartOrder(point.kind) = <<"peer", "worker", "peer_source">>
  BY <1>1, <1>2, <1>6
<1>7. CASE StartOrder(point.kind) = <<"worker">>
  BY <1>1, <1>2, <1>7
<1>8. QED
  BY <1>3, <1>4, <1>5, <1>6, <1>7

LEMMA InitTypes == Init => Types
<1> SUFFICES ASSUME Init PROVE Types
  OBVIOUS
<1> DEFINE order == StartOrder(point.kind)
<1>1. Remaining
  <2>1. starts = SubSeq(order, 1, Len(order))
    BY StartOrderType, SubSeqFull DEF Init
  <2>2. QED
    BY <2>1 DEF Remaining
<1>2. GivenType
  <2>1. PICK case \in Cases : client = case[1] /\ point = case[2]
    BY DEF Init
  <2>2. case = <<case[1], case[2]>>
    BY RunAssumption
  <2>3. QED
    BY <2>1, <2>2 DEF GivenType, Init
<1>6. 0 \in Few /\ 0 \in Readings /\ 1 \in Readings
  BY <1>2, LoadType DEF Few, Readings
<1>3. WorldType
  <2>1. proc \in [Child -> Alive \cup {"none", "exited"}] /\ said \in [Child -> {"nothing", "ok", "error"}]
    BY DEF Init
  <2>2. flow \in [Msg -> Flows]
    <3>1. NoFlow \in Flows
      BY <1>6 DEF NoFlow, Flows
    <3>2. QED
      BY <3>1 DEF Init
  <2>3. counts \in [Child -> Counted]
    <3>1. NoCounts \in Counted
      BY <1>6 DEF NoCounts, Counted
    <3>2. QED
      BY <3>1 DEF Init
  <2>4. shown \in Reading
    <3>1. Silent \in Reading /\ Earlier \in Reading /\ [Earlier EXCEPT !.received = 0] \in Reading
      BY <1>6 DEF Silent, Earlier, Reading
    <3>2. QED
      BY <3>1 DEF Init
  <2>5. subscription \in [Child -> {"none", "unsent", "granted", "refused"}]
    BY DEF Init
  <2>6. QED
    BY <2>1, <2>2, <2>3, <2>4, <2>5 DEF Init, WorldType
<1>4. RunnerType
  <2>1. Silent \in Reading
    BY <1>6 DEF Silent, Reading
  <2>2. entries \in [Child -> {"absent", "nothing", "ok", "error"}]
    BY DEF Init
  <2>3. QED
    BY <2>1, <2>2 DEF Init, RunnerType
<1>5. FlowOrder
  BY DEF Init, FlowOrder, NoFlow
<1>7. QED
  BY <1>1, <1>2, <1>3, <1>4, <1>5 DEF Types

\* A message that goes one step further.
LEMMA FlowStepsType ==
  ASSUME Types, point' = point, NEW m \in Msg, Send(m) \/ Route(m) \/ Receive(m)
  PROVE  flow' \in [Msg -> Flows] /\ FlowOrder'
<1> DEFINE f == flow[m]
<1>1. flow \in [Msg -> Flows] /\ Load[point.kind] \in Nat
  BY LoadType DEF Types, WorldType
<1>2. /\ f \in Flows /\ f.sent \in Nat /\ f.sent <= Load[point.kind] /\ f.routed \in Nat
      /\ f.forwarded \in Nat /\ f.dropped \in Nat /\ f.received \in Nat
      /\ f.routed <= f.sent /\ f.forwarded + f.dropped <= f.routed /\ f.received <= f.forwarded
  BY FlowNumbers
<1>3. /\ flow' = [flow EXCEPT ![m] = flow'[m]]
      /\ \/ f.sent < Load[point.kind] /\ flow'[m] = [f EXCEPT !.sent = @ + 1]
         \/ f.routed < f.sent /\ flow'[m] = [f EXCEPT !.routed = @ + 1]
         \/ f.routed < f.sent /\ flow'[m] = [f EXCEPT !.routed = @ + 1, !.forwarded = @ + 1]
         \/ f.routed < f.sent /\ flow'[m] = [f EXCEPT !.routed = @ + 1, !.dropped = @ + 1]
         \/ f.received < f.forwarded /\ flow'[m] = [f EXCEPT !.received = @ + 1]
  BY <1>1 DEF Send, Route, Receive
<1> DEFINE g == flow'[m]
<1>4. /\ g \in Flows /\ g.routed <= g.sent /\ g.forwarded + g.dropped <= g.routed
      /\ g.received <= g.forwarded
  <2>1. f.dropped <= Load[point.kind] /\ f.forwarded <= f.routed /\ f.routed <= Load[point.kind]
    BY <1>1, <1>2
  <2> HIDE DEF f, g
  <2>2. CASE f.sent < Load[point.kind] /\ g = [f EXCEPT !.sent = @ + 1]
    BY <1>1, <1>2, <2>1, <2>2 DEF Flows, Few
  <2>3. CASE f.routed < f.sent /\ g = [f EXCEPT !.routed = @ + 1]
    BY <1>1, <1>2, <2>1, <2>3 DEF Flows, Few
  <2>4. CASE f.routed < f.sent /\ g = [f EXCEPT !.routed = @ + 1, !.forwarded = @ + 1]
    <3>1. /\ g = [f EXCEPT !.routed = f.routed + 1, !.forwarded = f.forwarded + 1]
          /\ f.routed + 1 \in Few /\ f.forwarded + 1 \in Few
      BY <1>1, <1>2, <2>1, <2>4 DEF Few
    <3>2. g \in Flows
      BY <1>2, <3>1 DEF Flows
    <3>3. /\ g.routed = f.routed + 1 /\ g.forwarded = f.forwarded + 1 /\ g.sent = f.sent
          /\ g.dropped = f.dropped /\ g.received = f.received
      BY <1>2, <3>1 DEF Flows
    <3>4. QED
      BY <1>2, <2>4, <3>2, <3>3
  <2>5. CASE f.routed < f.sent /\ g = [f EXCEPT !.routed = @ + 1, !.dropped = @ + 1]
    <3>1. /\ g = [f EXCEPT !.routed = f.routed + 1, !.dropped = f.dropped + 1]
          /\ f.routed + 1 \in Few /\ f.dropped + 1 \in Few
      BY <1>1, <1>2, <2>1, <2>5 DEF Few
    <3>2. g \in Flows
      BY <1>2, <3>1 DEF Flows
    <3>3. /\ g.routed = f.routed + 1 /\ g.dropped = f.dropped + 1 /\ g.sent = f.sent
          /\ g.forwarded = f.forwarded /\ g.received = f.received
      BY <1>2, <3>1 DEF Flows
    <3>4. QED
      BY <1>2, <2>5, <3>2, <3>3
  <2>6. CASE f.received < f.forwarded /\ g = [f EXCEPT !.received = @ + 1]
    BY <1>1, <1>2, <2>1, <2>6 DEF Flows, Few
  <2>7. QED
    BY <1>3, <2>2, <2>3, <2>4, <2>5, <2>6 DEF f, g
<1>5. flow' \in [Msg -> Flows]
  <2> HIDE DEF g
  <2>1. flow' = [flow EXCEPT ![m] = g]
    BY <1>3 DEF g
  <2>2. QED
    BY <1>1, <1>4, <2>1
<1>6. \A k \in Msg : k # m => flow'[k] = flow[k]
  BY <1>1, <1>3
<1>7. FlowOrder'
  BY <1>4, <1>6 DEF Types, FlowOrder
<1>8. QED
  BY <1>5, <1>7

\* The steps of the children, the messages and the broker.
LEMMA WorldStepsType ==
  ASSUME Types, point' = point,
         \/ \E c \in Child : BecomeReady(c) \/ Report(c) \/ Exit(c)
         \/ SubscribeLate
         \/ \E m \in Msg : Send(m) \/ Route(m) \/ Receive(m)
         \/ Update \/ Over \/ UNCHANGED vars
  PROVE  WorldType' /\ FlowOrder'
<1>1. WorldType /\ FlowOrder /\ Flows' = Flows /\ Counted' = Counted /\ Reading' = Reading
  BY BoundsKept DEF Types
<1>2. ASSUME NEW c \in Child, BecomeReady(c) PROVE WorldType'
  <2>1. PICK as \in SubscribedAs(c) : subscription' = [subscription EXCEPT ![c] = as]
    BY <1>2 DEF BecomeReady
  <2>2. as \in {"none", "unsent", "granted", "refused"}
    BY SubscribedAsSettles
  <2>3. QED
    BY <1>1, <1>2, <2>1, <2>2 DEF BecomeReady, WorldType, Alive
<1>3. ASSUME NEW c \in Child, Report(c) PROVE WorldType'
  <2>1. counts' \in [Child -> Counted]
    BY <1>1, <1>3, TrueCountsType DEF Report, WorldType
  <2>2. said' \in [Child -> {"nothing", "ok", "error"}]
    BY <1>1, <1>3 DEF Report, WorldType
  <2>3. QED
    BY <1>1, <1>3, <2>1, <2>2 DEF Report, WorldType
<1>4. ASSUME NEW c \in Child, Exit(c) PROVE WorldType'
  BY <1>1, <1>4 DEF Exit, WorldType
<1>5. ASSUME SubscribeLate PROVE WorldType'
  BY <1>1, <1>5 DEF SubscribeLate, WorldType, Child
<1>6. ASSUME NEW m \in Msg, Send(m) \/ Route(m) \/ Receive(m) PROVE WorldType' /\ FlowOrder'
  <2>1. UNCHANGED <<heardReady, subscription, proc, said, counts, shown, fresh>>
    BY <1>6 DEF Send, Route, Receive
  <2>2. flow' \in [Msg -> Flows] /\ FlowOrder'
    BY <1>6, FlowStepsType
  <2>3. QED
    BY <1>1, <2>1, <2>2 DEF WorldType
<1>7. ASSUME Update PROVE WorldType'
  BY <1>1, <1>7, BrokerCountersType DEF Update, WorldType
<1>8. ASSUME Over \/ UNCHANGED vars PROVE WorldType'
  BY <1>1, <1>8 DEF Over, vars, WorldType, world
<1>9. UNCHANGED flow => FlowOrder'
  BY <1>1 DEF FlowOrder
<1>10. QED
  BY <1>2, <1>3, <1>4, <1>5, <1>6, <1>7, <1>8, <1>9
     DEF BecomeReady, Report, Exit, SubscribeLate, Update, Over, vars, world

LEMMA SeeReadyRemaining == Remaining /\ Ordered /\ SeeReady => Remaining'
<1> SUFFICES ASSUME Remaining, Ordered, SeeReady PROVE Remaining'
  OBVIOUS
<1> DEFINE order == StartOrder(point.kind)
<1>1. /\ UNCHANGED point /\ starts # <<>> /\ starts' = Tail(starts)
  BY DEF SeeReady, Ordered, given
<1>2. PICK i \in 1 .. 4 : starts = SubSeq(order, i, Len(order))
  BY DEF Remaining
<1>3. i \in 1 .. Len(order)
  BY <1>1, <1>2, StartOrderType, SubSeqEmpty
<1>4. starts' = SubSeq(order, i + 1, Len(order)) /\ i + 1 \in 1 .. 4
  BY <1>1, <1>2, <1>3, StartOrderType, HeadTailOfSubSeq, SMTT(30)
<1>5. QED
  BY <1>1, <1>4 DEF Remaining

\* run_once, which touches of the world only processes and the probe's question.
LEMMA OrchestrateWorldType ==
  ASSUME WorldType, Ordered, point' = point, Orchestrate \/ Interrupt
  PROVE  WorldType'
<1> USE BoundsKept DEF WorldType, world
<1>1. ASSUME Spawn PROVE WorldType'
  <2>1. Head(starts) \in Child
    BY <1>1 DEF Spawn, Ordered
  <2>2. QED
    BY <1>1, <2>1 DEF Spawn, Alive
<1>2. ASSUME GiveUp PROVE WorldType'
  BY <1>2 DEF GiveUp, Child
<1>3. ASSUME Go PROVE WorldType'
  BY <1>3 DEF Go, Alive
<1>4. ASSUME NEW c \in Child, Finish(c) PROVE WorldType'
  BY <1>4 DEF Finish
<1>5. ASSUME Kill PROVE WorldType'
  BY <1>5 DEF Kill
<1>6. ASSUME \/ Decline \/ Prepare \/ SeeReady \/ Ask \/ Answer \/ Measure \/ AllFinished
             \/ Sampled \/ NotSampled \/ Fail \/ Close \/ Conclude \/ Interrupt
      PROVE  WorldType'
  BY <1>6 DEF Decline, Prepare, SeeReady, Ask, Answer, Measure, AllFinished, Sampled, NotSampled,
     Fail, Close, Conclude, Interrupt
<1>7. QED
  BY <1>1, <1>2, <1>3, <1>4, <1>5, <1>6 DEF Orchestrate

LEMMA OrchestrateRunnerType ==
  ASSUME WorldType, RunnerType, Ordered, point' = point, Orchestrate \/ Interrupt
  PROVE  RunnerType'
<1> USE BoundsKept DEF RunnerType, readings, record, held
<1>1. ASSUME Spawn PROVE RunnerType'
  <2>1. Head(starts) \in Child
    BY <1>1 DEF Spawn, Ordered
  <2>2. QED
    BY <1>1, <2>1 DEF Spawn
<1>2. ASSUME NEW c \in Child, Finish(c) PROVE RunnerType'
  BY <1>2 DEF Finish, WorldType
<1>3. ASSUME Kill PROVE RunnerType'
  BY <1>3 DEF Kill
<1>4. ASSUME Conclude PROVE RunnerType'
  <2>1. status' \in {"raised", "valid", "not_sustained", "invalid"}
    <3>1. \A checks : StatusOf(checks) \in {"valid", "not_sustained", "invalid"}
      BY DEF StatusOf
    <3>2. \A r : Evaluate(r) \in {"valid", "not_sustained", "invalid"}
      BY <3>1, Zenon DEF Evaluate
    <3>3. QED
      BY <1>4, <3>2 DEF Conclude, StatusGiven
  <2>2. QED
    BY <1>4, <2>1 DEF Conclude
<1>5. ASSUME \/ Decline \/ Prepare \/ SeeReady \/ GiveUp \/ Ask \/ Answer \/ Go
      PROVE  RunnerType'
  BY <1>5, ZenonT(60) DEF Decline, Prepare, SeeReady, GiveUp, Ask, Answer, Go, WorldType
<1>6. ASSUME \/ Measure \/ AllFinished \/ Sampled \/ NotSampled \/ Fail \/ Close \/ Interrupt
      PROVE  RunnerType'
  BY <1>6, ZenonT(60) DEF Measure, AllFinished, Sampled, NotSampled, Fail, Close, Interrupt
<1>7. QED
  BY <1>1, <1>2, <1>3, <1>4, <1>5, <1>6 DEF Orchestrate

\* No step changes what is run.
LEMMA GivenKept == [Next]_vars => UNCHANGED given
  BY DEF Next, Orchestrate, vars, Decline, Prepare, Spawn, SeeReady, GiveUp, Ask, Answer, Go,
     Measure, Finish, AllFinished, Sampled, NotSampled, Fail, Close, Kill, Conclude, Interrupt,
     BecomeReady, Report, Exit, SubscribeLate, Send, Route, Receive, Update, Over

LEMMA NextTypes == Types /\ Ordered /\ [Next]_vars => Types'
<1> SUFFICES ASSUME Types, Ordered, [Next]_vars PROVE Types'
  OBVIOUS
<1>1. UNCHANGED given /\ point' = point
  BY GivenKept DEF given
<1>2. GivenType'
  BY <1>1 DEF Types, GivenType, given
<1>3. ASSUME Orchestrate \/ Interrupt PROVE Types'
  <2>0. WorldType' /\ RunnerType'
    BY <1>1, <1>3, OrchestrateWorldType, OrchestrateRunnerType DEF Types
  <2>1. WorldType' /\ RunnerType' /\ FlowOrder'
    <3>1. UNCHANGED flow
      BY <1>3 DEF Orchestrate, world, Decline, Prepare, Spawn, SeeReady, GiveUp, Ask, Answer, Go,
         Measure, Finish, AllFinished, Sampled, NotSampled, Fail, Close, Kill, Conclude, Interrupt
    <3>2. QED
      BY <2>0, <3>1 DEF Types, FlowOrder
  <2>2. CASE SeeReady
    BY <1>2, <2>1, <2>2, SeeReadyRemaining DEF Types
  <2>3. CASE starts' = starts
    <3>1. Remaining'
      BY <1>1, <2>3 DEF Types, Remaining, given
    <3>2. QED
      BY <1>2, <2>1, <3>1 DEF Types
  <2>4. QED
    BY <1>3, <2>2, <2>3
       DEF Orchestrate, Decline, Prepare, Spawn, GiveUp, Ask, Answer, Go, Measure, Finish,
           AllFinished, Sampled, NotSampled, Fail, Close, Kill, Conclude, Interrupt
<1>4. ASSUME \/ \E c \in Child : BecomeReady(c) \/ Report(c) \/ Exit(c)
             \/ SubscribeLate
             \/ \E m \in Msg : Send(m) \/ Route(m) \/ Receive(m)
             \/ Update \/ Over \/ UNCHANGED vars
      PROVE  Types'
  <2>1. WorldType' /\ FlowOrder'
    BY <1>1, <1>4, WorldStepsType
  <2>2. UNCHANGED <<starts, pc, readings, record, held, ending>>
    BY <1>4 DEF BecomeReady, Report, Exit, SubscribeLate, Send, Route, Receive, Update, Over, vars
  <2>3. RunnerType'
    BY <1>1, <2>2, BoundsKept DEF Types, RunnerType, readings, record, held
  <2>4. Remaining'
    BY <1>1, <2>2 DEF Types, Remaining, given
  <2>5. QED
    BY <1>2, <2>1, <2>3, <2>4 DEF Types
<1>5. QED
  BY <1>3, <1>4 DEF Next

\* What a run holds, records and has read of the broker is always what the types say,
\* whichever cases are run.
THEOREM RunTypeCorrect == Spec => []TypeOK
<1>1. IInv /\ Ordered /\ Types /\ [Next]_vars => Types'
  BY NextTypes
<1>2. Types => TypeOK
  BY TypesAreTypeOK
<1>3. QED
  BY <1>1, <1>2, InitTypes, SpecInv, PTL DEF Spec
-----------------------------------------------------------------------------
(* What a valid status rests on. *)

\* Until the GO line nobody runs and nothing has been sent.
Quiet ==
  pc \in {"refusals", "start", "await", "answer", "go"} =>
    /\ \A c \in Child : proc[c] # "running"
    /\ \A m \in Msg : flow[m].sent = 0

\* The counters in a result are of messages that were sent and read.
Told ==
  /\ \A c \in Child : entries[c] = "ok" => said[c] = "ok"
  /\ \A m \in Msg : Sender(m) \notin Child => flow[m].sent = 0
  /\ \A m \in Msg : Sender(m) \in Child /\ said[Sender(m)] = "ok"
                      => counts[Sender(m)].sent = flow[m].sent
  /\ counts["worker"].done > 0 => Publishes(point.kind)
  /\ counts["worker"].received <= flow["in"].received
  /\ counts["peer"].received <= flow["out"].received

\* No reading of the broker is ahead of it.
Honest ==
  /\ shown.received <= BrokerCounters.received
  /\ after.received <= BrokerCounters.received

\* The reading before the run is of the broker before any message of the run.
Baseline ==
  /\ pc = "answer" /\ fresh => shown.received = 1
  /\ pc \in {"go", "measure", "finish", "ask again", "answer again", "load"} => before.received = 1

\* A second reading exists only where every child had started, and where only the
\* profiler can have failed since.
Through ==
  /\ pc \in {"answer", "go", "measure", "finish", "ask again", "answer again", "load"}
       => starts = <<>>
  /\ pc \notin {"close", "kill", "over"} => ending = "normal" /\ ~sampled
  /\ after # Silent =>
       /\ pc \in {"load", "close", "kill", "over"}
       /\ starts = <<>> /\ before.received = 1
       /\ ending = "exception" => sampling /\ ~sampled

\* The status is the last thing written.
Last == status # "none" => pc = "over"

Trail == Quiet /\ Told /\ Honest /\ Baseline /\ Through /\ Last

LEMMA BrokerReceived == BrokerCounters.received = 1 + flow["out"].routed + flow["in"].routed
  BY DEF BrokerCounters, Earlier

\* What a child sends goes one way.
LEMMA SendsOutgoing ==
  ASSUME NEW c \in Child, NEW m \in Msg, Sender(m) = c
  PROVE  m = Outgoing(c)
  BY DEF Sender, Outgoing, Child, Msg

LEMMA InitTrail == Init => Trail
<1> SUFFICES ASSUME Init PROVE Trail
  OBVIOUS
<1>1. /\ pc = "refusals" /\ ending = "normal" /\ ~sampled /\ after = Silent /\ status = "none"
      /\ \A c \in Child : /\ proc[c] = "none" /\ entries[c] = "absent" /\ said[c] = "nothing"
                          /\ counts[c] = NoCounts
      /\ \A m \in Msg : flow[m] = NoFlow
  BY DEF Init
<1>2. Quiet
  BY <1>1 DEF Quiet, NoFlow
<1>3. Told
  BY <1>1 DEF Told, NoCounts, NoFlow, Child, Msg
<1>4. Honest
  <2>1. shown.received \in 0 .. 1
    BY DEF Init, Silent, Earlier
  <2>2. flow["out"].routed = 0 /\ flow["in"].routed = 0
    BY <1>1 DEF NoFlow, Msg
  <2>3. QED
    BY <1>1, <2>1, <2>2, BrokerReceived DEF Honest, Silent
<1>5. Baseline /\ Through /\ Last
  BY <1>1 DEF Baseline, Through, Last
<1>6. QED
  BY <1>2, <1>3, <1>4, <1>5 DEF Trail

LEMMA NextQuiet == Types /\ Quiet /\ [Next]_vars => Quiet'
<1> SUFFICES ASSUME Types, Quiet, [Next]_vars PROVE Quiet'
  OBVIOUS
<1> USE DEF Quiet, world
<1>1. proc \in [Child -> Alive \cup {"none", "exited"}]
  BY DEF Types, WorldType
<1>2. ASSUME NEW c \in Child, BecomeReady(c) \/ Report(c) \/ Exit(c) PROVE Quiet'
  BY <1>1, <1>2 DEF BecomeReady, Report, Exit
<1>3. ASSUME NEW m \in Msg, Send(m) \/ Route(m) \/ Receive(m) PROVE Quiet'
  <2>1. pc' = pc /\ pc \notin {"refusals", "start", "await", "answer", "go"}
    <3>1. flow[m].sent = 0 => flow[m].routed = 0 /\ flow[m].forwarded = 0 /\ flow[m].received = 0
      BY FlowNumbers
    <3>2. /\ pc' = pc
          /\ \/ Sender(m) \in Child /\ proc[Sender(m)] = "running"
             \/ flow[m].routed < flow[m].sent
             \/ flow[m].received < flow[m].forwarded
      BY <1>3 DEF Send, Route, Receive
    <3>3. flow[m].sent = 0 => ~(flow[m].routed < flow[m].sent) /\ ~(flow[m].received < flow[m].forwarded)
      BY <3>1
    <3>4. QED
      BY <3>2, <3>3
  <2>2. QED
    BY <2>1
<1>4. ASSUME Spawn \/ GiveUp \/ Go \/ Kill \/ \E c \in Child : Finish(c) PROVE Quiet'
  BY <1>1, <1>4 DEF Spawn, GiveUp, Go, Kill, Finish
<1>5. ASSUME \/ Decline \/ Prepare \/ SeeReady \/ Ask \/ Answer \/ Measure \/ AllFinished
             \/ Sampled \/ NotSampled \/ Fail \/ Close \/ Conclude \/ Interrupt
      PROVE  Quiet'
  BY <1>5 DEF Decline, Prepare, SeeReady, Ask, Answer, Measure, AllFinished, Sampled, NotSampled,
     Fail, Close, Conclude, Interrupt
<1>6. ASSUME SubscribeLate \/ Update \/ Over \/ UNCHANGED vars PROVE Quiet'
  BY <1>6 DEF SubscribeLate, Update, Over, vars
<1>7. QED
  BY <1>2, <1>3, <1>4, <1>5, <1>6 DEF Next, Orchestrate

\* No step changes who sends what.
LEMMA SendersKept == [Next]_vars => \A m \in Msg : Sender(m)' = Sender(m)
  BY GivenKept DEF given, Sender

LEMMA NextTold == Types /\ Told /\ [Next]_vars => Told'
<1> SUFFICES ASSUME Types, Told, [Next]_vars PROVE Told'
  OBVIOUS
<1> USE DEF Told
<1>1. (\A m \in Msg : Sender(m)' = Sender(m)) /\ point' = point
  BY SendersKept, GivenKept DEF given
<1>2. /\ said \in [Child -> {"nothing", "ok", "error"}] /\ flow \in [Msg -> Flows]
      /\ counts \in [Child -> Counted] /\ entries \in [Child -> {"absent", "nothing", "ok", "error"}]
      /\ "worker" \in Child /\ "peer" \in Child /\ "in" \in Msg /\ "out" \in Msg
  BY DEF Types, WorldType, RunnerType, Child, Msg
<1>3. ASSUME NEW c \in Child, Report(c) PROVE Told'
  <2>1. UNCHANGED <<flow, entries>> /\ said[c] = "nothing" /\ \A d \in Child : entries[d] = "ok" => said'[d] = "ok"
    BY <1>2, <1>3 DEF Report, record
  <2>2. CASE said' = [said EXCEPT ![c] = "error"] /\ UNCHANGED counts
    BY <1>1, <1>2, <2>1, <2>2
  <2>3. ASSUME said' = [said EXCEPT ![c] = "ok"], NEW n \in TrueCounts(c),
               counts' = [counts EXCEPT ![c] = n]
        PROVE  Told'
    <3>1. /\ Sender(Outgoing(c)) = c => n.sent = flow[Outgoing(c)].sent
          /\ Sender(Outgoing(c)) # c => n.sent = 0
          /\ c = "worker" => n.done \in 0 .. n.sent
          /\ Receiver(Incoming(c)) = c => n.received = flow[Incoming(c)].received
      BY DEF TrueCounts, NoFlow
    <3>2. n \in Counted
      BY TrueCountsType
    <3>3. c = "worker" /\ n.done > 0 => Publishes(point.kind)
      <4>1. Sender("out") = "worker" => Publishes(point.kind)
        BY DEF Sender
      <4>2. QED
        BY <3>1, <4>1 DEF Outgoing
    <3>4. /\ c = "worker" => n.received = flow["in"].received
          /\ c = "peer" => n.received = flow["out"].received
      BY <3>1 DEF Receiver, Incoming
    <3>5. \A d \in Child : /\ d # c => counts'[d] = counts[d] /\ said'[d] = said[d]
                           /\ d = c => counts'[d] = n
      BY <1>2, <2>3
    <3>6. ASSUME NEW m \in Msg, Sender(m) \in Child, said'[Sender(m)] = "ok"
          PROVE  counts'[Sender(m)].sent = flow[m].sent
      <4>1. CASE Sender(m) = c
        BY <3>1, <3>5, <4>1, SendsOutgoing
      <4>2. CASE Sender(m) # c
        <5>1. counts'[Sender(m)] = counts[Sender(m)] /\ said[Sender(m)] = "ok"
          BY <3>5, <3>6, <4>2
        <5>2. QED
          BY <3>6, <5>1
      <4>3. QED
        BY <4>1, <4>2
    <3>7. counts'["worker"].done > 0 => Publishes(point.kind)
      BY <1>2, <3>3, <3>5
    <3>8. counts'["worker"].received <= flow["in"].received
      <4>1. flow["in"].received \in Nat
        BY <1>2, FlowNumbers
      <4>2. QED
        BY <1>2, <3>4, <3>5, <4>1
    <3>9. counts'["peer"].received <= flow["out"].received
      <4>1. flow["out"].received \in Nat
        BY <1>2, FlowNumbers
      <4>2. QED
        BY <1>2, <3>4, <3>5, <4>1
    <3>10. QED
      BY <1>1, <2>1, <3>6, <3>7, <3>8, <3>9
  <2>4. QED
    BY <1>3, <2>2, <2>3 DEF Report
<1>4. ASSUME NEW m \in Msg, Send(m) PROVE Told'
  <2>1. /\ UNCHANGED <<said, counts, entries>> /\ Sender(m) \in Child /\ said[Sender(m)] = "nothing"
        /\ \A k \in Msg : k # m => flow'[k] = flow[k]
        /\ \A k \in Msg : flow'[k].received = flow[k].received
    BY <1>2, <1>4 DEF Send, record, Flows
  <2>2. QED
    BY <1>1, <1>2, <2>1
<1>5. ASSUME NEW m \in Msg, Route(m) \/ Receive(m) PROVE Told'
  <2>1. UNCHANGED <<said, counts, entries>> /\ \A k \in Msg : flow'[k].sent = flow[k].sent
    BY <1>2, <1>5 DEF Route, Receive, record, Flows
  <2>2. \A k \in Msg : flow[k].received <= flow'[k].received /\ flow[k].received \in Nat
                                                         /\ flow'[k].received \in Nat
    <3>1. \A k \in Msg : flow[k].received \in Nat
      BY FlowNumbers
    <3>2. \A k \in Msg : \/ flow'[k].received = flow[k].received
                         \/ flow'[k].received = flow[k].received + 1
      BY <1>2, <1>5 DEF Route, Receive, Flows
    <3>3. QED
      BY <3>1, <3>2
  <2>3. counts["worker"].received \in Int /\ counts["peer"].received \in Int
    <3>1. Load[point.kind] \in Nat
      BY LoadType DEF Types
    <3>2. QED
      BY <1>2, <3>1 DEF Counted, Few
  <2>4. /\ counts["worker"].received <= flow'["in"].received
        /\ counts["peer"].received <= flow'["out"].received
    BY <1>2, <2>2, <2>3
  <2>5. QED
    BY <1>1, <2>1, <2>4
<1>6. ASSUME NEW c \in Child, Finish(c) PROVE Told'
  BY <1>1, <1>2, <1>6 DEF Finish
<1>7. CASE UNCHANGED <<said, flow, counts, entries>>
  BY <1>1, <1>7
<1>8. QED
  BY <1>3, <1>4, <1>5, <1>6, <1>7
     DEF Next, Orchestrate, vars, world, record, Decline, Prepare, Spawn, SeeReady, GiveUp, Ask,
         Answer, Go, Measure, AllFinished, Sampled, NotSampled, Fail, Close, Kill, Conclude,
         Interrupt, BecomeReady, Exit, SubscribeLate, Update, Over

\* What was routed and what was received stay so: the messages go one way.
LEMMA FlowGrows ==
  Types /\ [Next]_vars =>
    \A m \in Msg : /\ flow[m].routed \in Nat /\ flow'[m].routed \in Nat
                   /\ flow[m].received \in Nat /\ flow'[m].received \in Nat
                   /\ flow[m].routed <= flow'[m].routed /\ flow[m].received <= flow'[m].received
<1> SUFFICES ASSUME Types, [Next]_vars, NEW m \in Msg
             PROVE  /\ flow[m].routed \in Nat /\ flow'[m].routed \in Nat
                    /\ flow[m].received \in Nat /\ flow'[m].received \in Nat
                    /\ flow[m].routed <= flow'[m].routed /\ flow[m].received <= flow'[m].received
  OBVIOUS
<1>1. flow \in [Msg -> Flows] /\ flow[m].routed \in Nat /\ flow[m].received \in Nat
  BY FlowNumbers DEF Types, WorldType
<1>2. ASSUME NEW k \in Msg, Send(k) \/ Route(k) \/ Receive(k)
      PROVE  /\ flow'[m].routed = flow[m].routed \/ flow'[m].routed = flow[m].routed + 1
             /\ flow'[m].received = flow[m].received \/ flow'[m].received = flow[m].received + 1
  BY <1>1, <1>2 DEF Send, Route, Receive, Flows
<1>3. UNCHANGED flow \/ \E k \in Msg : Send(k) \/ Route(k) \/ Receive(k)
  BY DEF Next, Orchestrate, vars, world, Decline, Prepare, Spawn, SeeReady, GiveUp, Ask, Answer,
     Go, Measure, Finish, AllFinished, Sampled, NotSampled, Fail, Close, Kill, Conclude,
     Interrupt, BecomeReady, Report, Exit, SubscribeLate, Update, Over
<1>4. /\ flow'[m].routed = flow[m].routed \/ flow'[m].routed = flow[m].routed + 1
      /\ flow'[m].received = flow[m].received \/ flow'[m].received = flow[m].received + 1
  BY <1>2, <1>3
<1>5. QED
  BY <1>1, <1>4

\* What the broker has counted it has counted.
LEMMA CountersGrow ==
  Types /\ [Next]_vars =>
    /\ BrokerCounters.received \in Nat /\ BrokerCounters'.received \in Nat
    /\ BrokerCounters.received <= BrokerCounters'.received
<1> SUFFICES ASSUME Types, [Next]_vars
             PROVE  /\ BrokerCounters.received \in Nat /\ BrokerCounters'.received \in Nat
                    /\ BrokerCounters.received <= BrokerCounters'.received
  OBVIOUS
<1>1. (BrokerCounters.received = 1 + flow["out"].routed + flow["in"].routed)'
  BY BrokerReceived, PTL
<1>2. "out" \in Msg /\ "in" \in Msg
  BY DEF Msg
<1>3. QED
  BY <1>1, <1>2, BrokerReceived, FlowGrows

LEMMA NextHonest == Types /\ Honest /\ [Next]_vars => Honest'
<1> SUFFICES ASSUME Types, Honest, [Next]_vars PROVE Honest'
  OBVIOUS
<1>1. shown.received \in Nat /\ after.received \in Nat
  <2>1. shown \in Reading /\ after \in Reading
    BY DEF Types, WorldType, RunnerType
  <2>2. \A n \in Readings : n \in Nat
    BY LoadType DEF Types, Readings
  <2>3. QED
    BY <2>1, <2>2 DEF Reading
<1>2. /\ BrokerCounters.received \in Nat /\ BrokerCounters'.received \in Nat
      /\ BrokerCounters.received <= BrokerCounters'.received
  BY CountersGrow
<1>3. shown' \in {shown, BrokerCounters} /\ after' \in {after, shown}
  BY DEF Next, Orchestrate, vars, world, readings, Decline, Prepare, Spawn, SeeReady, GiveUp, Ask,
     Answer, Go, Measure, Finish, AllFinished, Sampled, NotSampled, Fail, Close, Kill, Conclude,
     Interrupt, BecomeReady, Report, Exit, SubscribeLate, Send, Route, Receive, Update, Over
<1>4. QED
  BY <1>1, <1>2, <1>3 DEF Honest

\* Before the GO line the broker has counted nothing of the run.
LEMMA QuietBroker == Types /\ Quiet /\ pc = "answer" => BrokerCounters.received = 1
<1> SUFFICES ASSUME Types, Quiet, pc = "answer" PROVE BrokerCounters.received = 1
  OBVIOUS
<1>1. "out" \in Msg /\ "in" \in Msg /\ flow["out"].sent = 0 /\ flow["in"].sent = 0
  BY DEF Quiet, Msg
<1>2. flow["out"].routed = 0 /\ flow["in"].routed = 0
  BY <1>1, FlowNumbers
<1>3. QED
  BY <1>2, BrokerReceived

LEMMA NextBaseline == Types /\ Quiet /\ Baseline /\ [Next]_vars => Baseline'
<1> SUFFICES ASSUME Types, Quiet, Baseline, [Next]_vars PROVE Baseline'
  OBVIOUS
<1> USE DEF Baseline
<1>1. ASSUME Update PROVE Baseline'
  <2>1. pc = "answer" => BrokerCounters.received = 1
    BY QuietBroker, Zenon
  <2>2. shown' = BrokerCounters /\ UNCHANGED <<pc, before>> /\ pc \in {"answer", "answer again"}
    BY <1>1 DEF Update, readings
  <2>3. QED
    BY <2>1, <2>2
<1>2. ASSUME Ask PROVE Baseline'
  <2>1. pc' = "answer again" => pc = "ask again" /\ before' = before
    BY <1>2 DEF Ask, readings
  <2>2. pc' \in {"answer", "answer again"} /\ fresh' = FALSE
    BY <1>2 DEF Ask
  <2>3. QED
    BY <2>1, <2>2, Zenon
<1>3. ASSUME Answer PROVE Baseline'
  <2>1. before'.received = 1
    <3>1. CASE pc = "answer" /\ before' = shown /\ fresh
      BY <3>1, Zenon
    <3>2. CASE pc = "answer again" /\ before' = before
      BY <3>2
    <3>3. QED
      BY <1>3, <3>1, <3>2, Zenon DEF Answer
  <2>2. pc' # "answer"
    BY <1>3 DEF Answer
  <2>3. QED
    BY <2>1, <2>2, Zenon
<1>4. CASE /\ UNCHANGED <<shown, fresh, before>>
           /\ \/ pc' = pc
              \/ pc' \in {"start", "await", "close", "kill", "over"}
              \/ pc = "go" /\ pc' = "measure"
              \/ pc = "measure" /\ pc' = "finish"
              \/ pc = "finish" /\ pc' = "ask again"
  BY <1>4
<1>5. ASSUME \/ Decline \/ Prepare \/ Spawn \/ SeeReady \/ GiveUp \/ Go \/ Measure
             \/ \E c \in Child : Finish(c)
             \/ AllFinished \/ Sampled \/ NotSampled \/ Fail \/ Close \/ Kill \/ Conclude \/ Interrupt
      PROVE  Baseline'
  BY <1>4, <1>5
     DEF world, readings, Decline, Prepare, Spawn, SeeReady, GiveUp, Go, Measure, Finish,
         AllFinished, Sampled, NotSampled, Fail, Close, Kill, Conclude, Interrupt
<1>6. ASSUME \/ \E c \in Child : BecomeReady(c) \/ Report(c) \/ Exit(c)
             \/ SubscribeLate
             \/ \E m \in Msg : Send(m) \/ Route(m) \/ Receive(m)
             \/ Over \/ UNCHANGED vars
      PROVE  Baseline'
  BY <1>4, <1>6
     DEF vars, world, readings, BecomeReady, Report, Exit, SubscribeLate, Send, Route, Receive, Over
<1>7. QED
  BY <1>1, <1>2, <1>3, <1>5, <1>6 DEF Next, Orchestrate

LEMMA NextThrough == Baseline /\ Through /\ [Next]_vars => Through'
<1> SUFFICES ASSUME Baseline, Through, [Next]_vars PROVE Through'
  OBVIOUS
<1> USE DEF Through
<1>1. UNCHANGED sampling
  BY GivenKept DEF given
<1>2. ASSUME Ask PROVE Through'
  BY <1>1, <1>2, Zenon DEF Ask, readings, record
<1>3. ASSUME Answer PROVE Through'
  BY <1>1, <1>3, Zenon DEF Answer, Baseline, record
<1>4. CASE /\ UNCHANGED <<ending, sampled, after, before>>
           /\ starts' = starts \/ pc \in {"start", "await"}
           /\ pc' = pc \/ pc \notin {"load", "close", "kill", "over"}
           /\ pc' \in {"answer", "go", "measure", "finish", "ask again", "answer again", "load"}
                => pc \in {"answer", "go", "measure", "finish", "ask again", "answer again", "load"}
  BY <1>1, <1>4, Zenon
<1>5. ASSUME \/ Decline \/ Prepare \/ Spawn \/ SeeReady \/ Go \/ Measure
             \/ \E c \in Child : Finish(c)
             \/ AllFinished
      PROVE  Through'
  BY <1>4, <1>5
     DEF Decline, Prepare, Spawn, SeeReady, Go, Measure, Finish, AllFinished, world,
         readings, record, held
<1>6. ASSUME GiveUp PROVE Through'
  BY <1>1, <1>6, Zenon DEF GiveUp, readings, record
<1>7. ASSUME Sampled PROVE Through'
  BY <1>1, <1>7, Zenon DEF Sampled, readings
<1>8. ASSUME NotSampled PROVE Through'
  BY <1>1, <1>8, Zenon DEF NotSampled, readings, record
<1>9. ASSUME Fail PROVE Through'
  BY <1>1, <1>9, Zenon DEF Fail, readings, record
<1>10. ASSUME Interrupt PROVE Through'
  BY <1>1, <1>10, Zenon DEF Interrupt, readings, record
<1>11. ASSUME Close \/ Kill \/ Conclude PROVE Through'
  <2>1. /\ UNCHANGED <<starts, ending, sampled, after, before>>
        /\ pc \in {"close", "kill"} /\ pc' \in {"kill", "over"}
    BY <1>11 DEF Close, Kill, Conclude, readings, record
  <2>2. QED
    BY <1>1, <2>1, Zenon
<1>12. ASSUME \/ \E c \in Child : BecomeReady(c) \/ Report(c) \/ Exit(c)
              \/ SubscribeLate
              \/ \E m \in Msg : Send(m) \/ Route(m) \/ Receive(m)
              \/ Update \/ Over \/ UNCHANGED vars
       PROVE  Through'
  <2>1. UNCHANGED <<pc, starts, ending, sampled, after, before>>
    BY <1>12 DEF vars, readings, record, BecomeReady, Report, Exit, SubscribeLate, Send, Route,
       Receive, Update, Over
  <2>2. QED
    BY <1>1, <2>1, Zenon
<1>13. QED
  BY <1>2, <1>3, <1>5, <1>6, <1>7, <1>8, <1>9, <1>10, <1>11, <1>12 DEF Next, Orchestrate

LEMMA NextLast == IInv /\ Last /\ [Next]_vars => Last'
  BY DEF Last, Next, Orchestrate, vars, record, Decline, Prepare, Spawn, SeeReady, GiveUp, Ask,
     Answer, Go, Measure, Finish, AllFinished, Sampled, NotSampled, Fail, Close, Kill, Conclude,
     Interrupt, BecomeReady, Report, Exit, SubscribeLate, Send, Route, Receive, Update, Over

LEMMA SpecTrail == Spec => [](IInv /\ Types /\ Trail)
<1>1. Init => Types /\ Trail
  BY InitTypes, InitTrail
<1>2. IInv /\ Ordered /\ Types /\ Trail /\ [Next]_vars => Types' /\ Trail'
  BY NextTypes, NextQuiet, NextTold, NextHonest, NextBaseline, NextThrough, NextLast DEF Trail
<1>3. QED
  BY <1>1, <1>2, SpecInv, PTL DEF Spec

\* What is said and counted once nobody is left alive stays so, whatever the broker
\* still does with the messages.
LEMMA AfterTheEnd ==
  ASSUME IInv, Types, Trail, status = "valid", [Next]_vars
  PROVE  /\ UNCHANGED <<given, starts, said, counts, ending, sampled, status>>
         /\ \A m \in Msg :
              /\ flow[m].routed \in Nat /\ flow'[m].routed \in Nat
              /\ flow[m].received \in Nat /\ flow'[m].received \in Nat
              /\ flow[m].routed <= flow'[m].routed /\ flow[m].received <= flow'[m].received
<1>1. pc = "over" /\ \A c \in Child : proc[c] \notin Alive
  BY DEF Trail, Last, IInv, Cleaned
<1>2. UNCHANGED <<given, starts, said, counts, ending, sampled, status>>
  BY <1>1 DEF Next, Orchestrate, vars, world, record, Alive, Decline, Prepare, Spawn, SeeReady, GiveUp,
     Ask, Answer, Go, Measure, Finish, AllFinished, Sampled, NotSampled, Fail, Close, Kill,
     Conclude, Interrupt, BecomeReady, Report, Exit, SubscribeLate, Send, Route, Receive, Update,
     Over
<1>3. QED
  BY <1>2, FlowGrows, Zenon

\* A record is of this run.
Reflects(r) ==
  /\ r.point.kind = point.kind /\ r.point.qos = point.qos /\ r.point.rated = point.rated
  /\ r.worker.ok => entries["worker"] = "ok" /\ after # Silent
  /\ r.worker.sent = counts["worker"].sent /\ r.worker.done = counts["worker"].done
  /\ r.worker.received = counts["worker"].received
  /\ r.worker.wsent \in 0 .. counts["worker"].sent
  /\ r.worker.wreceived \in 0 .. counts["worker"].received
  /\ Completed(r.peer) => said["peer"] \notin {"nothing", "error"}
  /\ Completed(r.source) => said["peer_source"] \notin {"nothing", "error"}
  /\ r.peer.echoed = counts["peer"].sent /\ r.peer.received = counts["peer"].received
  /\ r.source.sent = counts["peer_source"].sent
  /\ r.peer.acked = counts["peer"].done /\ r.source.acked = counts["peer_source"].done
  /\ r.peer.wsent \in Few /\ r.source.wsent \in Few
  /\ r.sys.received = Delta("received")

LEMMA RecordReflects ==
  ASSUME NEW strict, NEW odd, NEW wsent \in 0 .. counts["worker"].sent,
         NEW wreceived \in 0 .. counts["worker"].received, NEW psent \in Few
  PROVE  Reflects(RecordOf(strict, odd, wsent, wreceived, psent))
  BY DEF Reflects, RecordOf, Completed

\* A valid status is that of a record that has it, of a run nobody interrupted.
LEMMA Judged ==
  ASSUME Conclude, status' = "valid"
  PROVE  /\ ending # "interrupt" /\ (sampling => sampled)
         /\ UNCHANGED <<point, sampling, starts, said, flow, counts, ending, sampled>>
         /\ \E r : Reflects(r) /\ Evaluate(r) = "valid"
<1>1. ending # "interrupt"
  BY DEF Conclude
<1>2. PICK strict \in BOOLEAN, odd \in {{}} \cup {{o} : o \in Oddities}, wsent \in 0 .. counts["worker"].sent,
           wreceived \in 0 .. counts["worker"].received, psent \in Few :
             status' = StatusGiven(Evaluate(RecordOf(strict, odd, wsent, wreceived, psent)))
  BY <1>1 DEF Conclude
<1> DEFINE r == RecordOf(strict, odd, wsent, wreceived, psent)
<1>3. Reflects(r)
  BY RecordReflects
<1>4. (sampling => sampled) /\ Evaluate(r) = "valid"
  BY <1>2, Zenon DEF StatusGiven
<1>5. UNCHANGED <<point, sampling, starts, said, flow, counts, ending, sampled>>
  BY DEF Conclude, given, world
<1> HIDE DEF r
<1>6. QED
  BY <1>1, <1>3, <1>4, <1>5, Zenon

LEMMA StatusGivenAtTheEnd == [Next]_vars /\ status' = "valid" => status = "valid" \/ Conclude
  BY DEF Next, Orchestrate, vars, record, Decline, Prepare, Spawn, SeeReady, GiveUp, Ask, Answer,
     Go, Measure, Finish, AllFinished, Sampled, NotSampled, Fail, Close, Kill, Interrupt,
     BecomeReady, Report, Exit, SubscribeLate, Send, Route, Receive, Update, Over

\* Every planned party said so, whatever else the record holds.
LEMMA ConcludeParties ==
  ASSUME Types, Trail, Conclude, status' = "valid"
  PROVE  /\ ending = "normal" /\ starts = <<>> /\ before.received = 1 /\ (sampling => sampled)
         /\ \A c \in Planned(point.kind) : said[c] = "ok"
<1>1. PICK r : Reflects(r) /\ Evaluate(r) = "valid"
  BY Judged, Zenon
<1>2. entries["worker"] = "ok" /\ after # Silent
  BY <1>1, ValidRecord, Zenon DEF Reflects
<1>3. starts = <<>> /\ before.received = 1 /\ ending # "exception"
  BY <1>2, Judged, Zenon DEF Trail, Through
<1>4. ending = "normal"
  BY <1>3, Judged DEF Types, RunnerType
<1>5. said["worker"] = "ok"
  BY <1>2 DEF Trail, Told, Child
<1>6. point.kind # "idle" => said["peer"] = "ok"
  <2>1. point.kind # "idle" => said["peer"] \notin {"nothing", "error"}
    BY <1>1, ValidRecord, Zenon DEF Reflects
  <2>2. QED
    BY <2>1 DEF Types, WorldType, Child
<1>7. point.kind = "duplex" => said["peer_source"] = "ok"
  <2>1. point.kind = "duplex" => said["peer_source"] \notin {"nothing", "error"}
    BY <1>1, ValidRecord, Zenon DEF Reflects
  <2>2. QED
    BY <2>1 DEF Types, WorldType, Child
<1>8. ASSUME NEW c \in Planned(point.kind) PROVE said[c] = "ok"
  <2>1. CASE point.kind \in {"pub", "rtt"}
    BY <1>5, <1>6, <2>1, StartOrders DEF Planned
  <2>2. CASE point.kind = "duplex"
    BY <1>5, <1>6, <1>7, <2>2, StartOrders DEF Planned
  <2>3. CASE point.kind = "sub"
    BY <1>5, <1>6, <2>3, StartOrders DEF Planned
  <2>4. CASE point.kind \notin {"pub", "rtt", "duplex", "sub"}
    BY <1>5, <2>4, StartOrders DEF Planned
  <2>5. QED
    BY <2>1, <2>2, <2>3, <2>4
<1>9. QED
  BY <1>3, <1>4, <1>8, Judged

\* The tolerance never asks for more than there is.
LEMMA ToleranceType == \A n \in Nat : Tolerance(n) \in Nat
<1> SUFFICES ASSUME NEW n \in Nat PROVE Tolerance(n) \in Nat
  OBVIOUS
<1>1. n \div 2000 \in Nat /\ 0 \div 2000 \in Nat
  BY SMT
<1>2. QED
  BY <1>1, VerdictAssumption DEF Tolerance

LEMMA ArrivedGrows ==
  ASSUME NEW n \in Nat, NEW more \in Nat, n <= more, NEW acked \in Nat, Arrived(n, acked)
  PROVE  Arrived(more, acked)
<1>1. Tolerance(acked) \in Nat
  BY ToleranceType
<1>2. QED
  BY <1>1 DEF Arrived

\* 98 % of 98 %.
LEMMA RatesHeld ==
  ASSUME NEW fed \in Nat, NEW n \in Nat, RateHeld(fed, Offered), RateHeld(n, fed),
         NEW more \in Nat, n <= more
  PROVE  10000 * more >= 98 * 98 * Offered
  BY VerdictAssumption DEF RateHeld

\* What NothingLost says of a valid run.
Accounted ==
  /\ Arrived(flow["out"].routed, counts["worker"].done)
  /\ point.qos >= 1 =>
       /\ point.kind \in {"pub", "duplex"} => Arrived(flow["out"].received, counts["worker"].done)
       /\ point.kind = "duplex" => Arrived(flow["in"].received, counts["peer_source"].done)
       /\ point.kind = "sub" /\ point.rated => Arrived(flow["in"].received, counts["peer"].done)
       /\ point.kind = "rtt" => Arrived(flow["in"].received, counts["peer"].sent)
  /\ point.rated /\ Receives(point.kind) => 10000 * flow["in"].received >= 98 * 98 * Offered

\* What the record compares accounts for the messages, whatever the library claimed.
LEMMA ConcludeNothingLost ==
  ASSUME IInv, Types, Trail, Conclude, status' = "valid"
  PROVE  Accounted
<1>1. PICK r : Reflects(r) /\ Evaluate(r) = "valid"
  BY Judged, Zenon
<1>2. /\ \A c \in Child : /\ counts[c].sent \in Nat /\ counts[c].done \in Nat
                          /\ counts[c].received \in Nat
      /\ "worker" \in Child /\ "peer" \in Child /\ "peer_source" \in Child
      /\ after.received \in Nat /\ before.received = 1 /\ \A n \in Few : n \in Nat
  <2>1. /\ counts \in [Child -> Counted] /\ after \in Reading /\ before.received = 1
        /\ "worker" \in Child /\ "peer" \in Child /\ "peer_source" \in Child
    BY ConcludeParties DEF Types, WorldType, RunnerType, Child
  <2>2. (\A n \in Few : n \in Nat) /\ \A n \in Readings : n \in Nat
    BY LoadType DEF Types, Few, Readings
  <2>3. QED
    BY <2>1, <2>2 DEF Counted, Reading
<1>3. \A m \in Msg : /\ flow[m].sent \in Nat /\ flow[m].routed \in Nat /\ flow[m].received \in Nat
                     /\ flow[m].routed <= flow[m].sent
  BY FlowNumbers
<1>4. "out" \in Msg /\ "in" \in Msg
  BY DEF Msg
<1>5. /\ r.worker.received = counts["worker"].received /\ r.worker.received <= flow["in"].received
      /\ r.peer.received = counts["peer"].received /\ r.peer.received <= flow["out"].received
      /\ r.worker.done = counts["worker"].done
      /\ r.point.kind = point.kind /\ r.point.qos = point.qos /\ r.point.rated = point.rated
  BY <1>1 DEF Reflects, Trail, Told
<1>6. Arrived(flow["out"].routed, counts["worker"].done)
  <2>1. CASE counts["worker"].done = 0
    <3>1. Tolerance(0) \in Nat
      BY ToleranceType
    <3>2. QED
      BY <1>3, <1>4, <2>1, <3>1 DEF Arrived
  <2>2. CASE counts["worker"].done # 0
    <3>1. Publishes(point.kind)
      BY <1>2, <2>2 DEF Trail, Told
    <3>2. FromClient(r) \in (r.worker.done - Tolerance(r.worker.done))
                              .. (r.worker.sent + Tolerance(r.worker.sent))
      BY <1>5, <1>1, <3>1, ValidPublish
    <3>3. r.worker.sent \in Nat /\ r.worker.done \in Nat /\ Tolerance(r.worker.done) \in Nat
          /\ Tolerance(r.worker.sent) \in Nat
      BY <1>1, <1>2, ToleranceType DEF Reflects
    <3>4. r.sys.received \in Int /\ r.sys.received <= flow["out"].routed + flow["in"].routed
      <4>1. r.sys.received = after.received - before.received
        BY <1>1 DEF Reflects, Delta
      <4>2. after.received <= BrokerCounters.received
        BY DEF Trail, Honest
      <4>3. QED
        BY <1>2, <1>3, <1>4, <4>1, <4>2, BrokerReceived
    \* The other sender has reported every message of its own that the broker counted.
    <3>5. FromClient(r) \in Int /\ FromClient(r) <= r.sys.received - flow["in"].routed
      <4>1. \A c \in {"peer", "peer_source"} : c \in Planned(point.kind) => said[c] = "ok"
        BY ConcludeParties
      <4>2. CASE point.kind = "pub"
        <5>1. Sender("in") = "nobody" /\ "nobody" \notin Child
          BY <4>2 DEF Sender, Child
        <5>2. flow["in"].sent = 0
          BY <1>4, <5>1 DEF Trail, Told
        <5>3. flow["in"].routed = 0
          BY <1>3, <1>4, <5>2
        <5>4. FromClient(r) = r.sys.received - 0
          BY <1>5, <4>2 DEF FromClient
        <5>5. QED
          BY <3>4, <5>3, <5>4
      <4>3. CASE point.kind = "rtt"
        <5>1. Sender("in") = "peer" /\ said["peer"] = "ok"
          BY <4>1, <4>3, StartOrders DEF Sender, Planned
        <5>2. counts["peer"].sent = flow["in"].sent
          BY <1>2, <1>4, <5>1 DEF Trail, Told
        <5>3. FromClient(r) = r.sys.received - counts["peer"].sent
          BY <1>1, <1>5, <4>3 DEF FromClient, Reflects
        <5>4. QED
          BY <1>3, <1>4, <3>4, <5>2, <5>3
      <4>4. CASE point.kind = "duplex"
        <5>1. Sender("in") = "peer_source" /\ said["peer_source"] = "ok"
          BY <4>1, <4>4, StartOrders DEF Sender, Planned
        <5>2. counts["peer_source"].sent = flow["in"].sent
          BY <1>2, <1>4, <5>1 DEF Trail, Told
        <5>3. FromClient(r) = r.sys.received - counts["peer_source"].sent
          BY <1>1, <1>5, <4>4 DEF FromClient, Reflects
        <5>4. QED
          BY <1>3, <1>4, <3>4, <5>2, <5>3
      <4>5. QED
        BY <3>1, <4>2, <4>3, <4>4 DEF Publishes
    <3>6. FromClient(r) >= r.worker.done - Tolerance(r.worker.done)
      BY <3>2, <3>3, <3>5
    <3>7. flow["out"].routed >= r.worker.done - Tolerance(r.worker.done)
      BY <1>3, <1>4, <3>3, <3>4, <3>5, <3>6
    <3>8. QED
      BY <1>5, <3>7 DEF Arrived
  <2>3. QED
    BY <2>1, <2>2
<1>7. ASSUME point.qos >= 1
      PROVE  /\ point.kind \in {"pub", "duplex"} => Arrived(flow["out"].received, counts["worker"].done)
             /\ point.kind = "duplex" => Arrived(flow["in"].received, counts["peer_source"].done)
             /\ point.kind = "sub" /\ point.rated => Arrived(flow["in"].received, counts["peer"].done)
             /\ point.kind = "rtt" => Arrived(flow["in"].received, counts["peer"].sent)
  <2>1. /\ point.kind \in {"pub", "duplex"} => Arrived(r.peer.received, counts["worker"].done)
        /\ point.kind = "duplex" => Arrived(r.worker.received, counts["peer_source"].done)
        /\ point.kind = "sub" /\ point.rated => Arrived(r.worker.received, counts["peer"].done)
        /\ point.kind = "rtt" => Arrived(r.worker.received, counts["peer"].sent)
    BY <1>1, <1>5, <1>7, ValidArrivals DEF Reflects
  <2>2. \A acked \in Nat : Arrived(r.peer.received, acked) => Arrived(flow["out"].received, acked)
    BY <1>2, <1>3, <1>4, <1>5, ArrivedGrows
  <2>3. \A acked \in Nat : Arrived(r.worker.received, acked) => Arrived(flow["in"].received, acked)
    BY <1>2, <1>3, <1>4, <1>5, ArrivedGrows
  <2>4. QED
    BY <1>2, <2>1, <2>2, <2>3
<1>8. ASSUME point.rated, Receives(point.kind)
      PROVE  10000 * flow["in"].received >= 98 * 98 * Offered
  <2>1. RateHeld(Fed(r), Offered) /\ RateHeld(r.worker.wreceived, Fed(r))
    BY <1>1, <1>5, <1>8, ValidRates DEF Receives
  <2>2. Fed(r) \in Nat
    <3>1. r.peer.wsent \in Nat /\ r.source.wsent \in Nat
      BY <1>1, <1>2 DEF Reflects
    <3>2. r.worker.wsent \in Nat
      BY <1>1, <1>2 DEF Reflects
    <3>3. QED
      BY <3>1, <3>2 DEF Fed
  <2>3. r.worker.wreceived \in Nat /\ r.worker.wreceived <= flow["in"].received
    BY <1>1, <1>2, <1>3, <1>4, <1>5 DEF Reflects
  <2>4. QED
    BY <1>3, <1>4, <2>1, <2>2, <2>3, RatesHeld
<1>9. QED
  BY <1>6, <1>7, <1>8 DEF Accounted

\* And what was accounted for stays so.
LEMMA StaysAccounted ==
  ASSUME IInv, Types, Trail, status = "valid", Accounted, [Next]_vars
  PROVE  Accounted'
<1>1. /\ UNCHANGED <<given, counts>>
      /\ \A m \in Msg : /\ flow[m].routed \in Nat /\ flow'[m].routed \in Nat
                        /\ flow[m].received \in Nat /\ flow'[m].received \in Nat
                        /\ flow[m].routed <= flow'[m].routed
                        /\ flow[m].received <= flow'[m].received
  BY AfterTheEnd
<1>2. point' = point /\ "out" \in Msg /\ "in" \in Msg /\ Offered \in Nat
  BY <1>1, VerdictAssumption DEF given, Msg
<1>3. /\ counts["worker"].done \in Nat /\ counts["peer_source"].done \in Nat
      /\ counts["peer"].done \in Nat /\ counts["peer"].sent \in Nat
  BY LoadType DEF Types, WorldType, Counted, Few, Child
<1>4. \A acked \in Nat :
        /\ Arrived(flow["out"].routed, acked) => Arrived(flow'["out"].routed, acked)
        /\ Arrived(flow["out"].received, acked) => Arrived(flow'["out"].received, acked)
        /\ Arrived(flow["in"].received, acked) => Arrived(flow'["in"].received, acked)
  BY <1>1, <1>2, ArrivedGrows
<1>5. 10000 * flow["in"].received >= 98 * 98 * Offered
        => 10000 * flow'["in"].received >= 98 * 98 * Offered
  BY <1>1, <1>2
<1>6. QED
  BY <1>1, <1>2, <1>3, <1>4, <1>5 DEF Accounted

\* A valid status is of a run that went to its end, whose every planned party finished
\* and said so, with its profile if one was asked for: whatever died, hung, was
\* interrupted or claimed on the way, and whatever the tolerance.
THEOREM ValidPartiesReported == Spec => []PartiesReported
<1>1. Init => PartiesReported
  BY DEF Init, PartiesReported
<1>2. IInv /\ Types /\ Trail /\ PartiesReported /\ [Next]_vars => PartiesReported'
  <2> SUFFICES ASSUME IInv, Types, Trail, PartiesReported, [Next]_vars, status' = "valid"
               PROVE  PartiesReported'
    BY DEF PartiesReported
  <2>1. CASE status = "valid"
    BY <2>1, AfterTheEnd DEF PartiesReported, given, Planned
  <2>2. CASE Conclude
    BY <2>2, ConcludeParties, Judged DEF PartiesReported, Planned
  <2>3. QED
    BY <2>1, <2>2, StatusGivenAtTheEnd
<1>3. QED
  BY <1>1, <1>2, SpecTrail, PTL DEF Spec

\* A valid status means a complete run, for any cases, loads, tolerance and rate: every
\* planned party finished and said so, and what the record compares is where it says,
\* within the tolerance that checks.py allows.
THEOREM ValidIsComplete == Spec => []ValidMeansComplete
<1>0. NothingLost <=> (status = "valid" => Accounted)
  BY DEF NothingLost, Accounted
<1>1. Init => NothingLost
  BY DEF Init, NothingLost
<1>2. IInv /\ Types /\ Trail /\ NothingLost /\ [Next]_vars => NothingLost'
  <2> SUFFICES ASSUME IInv, Types, Trail, NothingLost, [Next]_vars, status' = "valid"
               PROVE  NothingLost'
    BY DEF NothingLost
  <2>1. CASE status = "valid"
    <3>1. Accounted
      BY <1>0, <2>1
    <3>2. Accounted'
      BY <2>1, <3>1, StaysAccounted
    <3>3. QED
      BY <3>2 DEF NothingLost, Accounted
  <2>2. CASE Conclude
    <3>1. Accounted
      BY <2>2, ConcludeNothingLost
    <3>2. UNCHANGED <<point, flow, counts>>
      BY <2>2, Judged
    <3>3. Accounted'
      BY <3>1, <3>2 DEF Accounted
    <3>4. QED
      BY <3>3 DEF NothingLost, Accounted
  <2>3. QED
    BY <2>1, <2>2, StatusGivenAtTheEnd
<1>3. Spec => []NothingLost
  BY <1>1, <1>2, SpecTrail, PTL DEF Spec
<1>4. QED
  BY <1>3, ValidPartiesReported, PTL DEF ValidMeansComplete
=============================================================================
