------------------------------ MODULE Session -------------------------------
(***************************************************************************)
(* bench/worker.py over one of the eight adapters: the client's process in *)
(* one run, from create to the result file.  run_sync (paho, awscrt) has   *)
(* the library's threads beside it; run_async shares one loop with the     *)
(* library, so what the library does there falls between its awaits.  The  *)
(* drive is reduced to its publishes (AwaitedOffer, TickOffer and Capacity *)
(* have the loops); here is how each adapter answers one, and how its      *)
(* completion finds its way back to run.done and run.failed.  Broker and   *)
(* libraries are external: they may refuse, stay silent, fail, or lose the *)
(* connection at any moment, without a promise to do anything.             *)
(***************************************************************************)
EXTENDS Adapters, Sequences, FiniteSets, Functions

CONSTANTS
  Cases,      \* what may be run: <<client, point>>
  Messages,   \* how many publishes the drive attempts at most
  Ids         \* packet identifiers of mqttium

ASSUME CasesAssumption == Cases \subseteq AllClients \X AllPoints
ASSUME MessagesAssumption == Messages \in Nat
ASSUME IdsAssumption == Ids # {}

VARIABLES
  client, point, reply, build,  \* the run; the CONNACK; the mqttium installed
  pc,         \* where run_sync or run_async is
  error,      \* the step whose exception ended it, or "none"
  result,     \* result["ok"], once the file is written
  clock,      \* 0, then past t_measure, t_end, t_stop
  up,         \* the connection is up
  connected,  \* on_connect has set the event
  asked,      \* the SUBSCRIBE: unasked, asked, granted, refused or lost
  acked,      \* acked[mid]
  event,      \* ack_event is set
  told,       \* how far on_subscribe got
  stage,      \* of each publish, in the library and back
  packet,     \* its packet identifier, with mqttium's on_publish
  waiting,    \* _real_to_synth: publishes waiting on an identifier
  owed,       \* identifiers whose on_publish the library still has to call
  returning,  \* what the publish() under way on the sync thread will return
  sent, done, failed, rejected,
  final       \* the last snapshot

given == <<client, point, reply, build>>
handshake == <<connected, asked, acked, event, told>>
library == <<stage, packet, waiting, owed>>
counters == <<sent, done, failed, rejected>>
vars == <<given, pc, error, result, clock, up, handshake, library, returning, counters, final>>

Msg == 1 .. Messages
Receives(kind) == kind \in {"sub", "rtt", "duplex"}
Publishes(kind) == kind \in {"pub", "rtt", "duplex"}
Shape == DriveShape(client)

\* How a completion reaches on_publish, or the awaiting coroutine.
Mechanism ==
  CASE Shape = "awaited"                   -> "await"
    [] client = "paho"                     -> "callback"
    [] client = "awscrt"                   -> "future"
    [] Shape = "nowait" /\ point.qos = 0   -> "inline"
    [] client = "mqttium" /\ point.qos > 0 -> build
    [] client = "gmqtt" /\ point.qos > 0   -> "hook"

-----------------------------------------------------------------------------
(* What one publish() or publish_nowait() of each adapter may do:           *)
(* "held" it owes a completion; "inline" it completed within the call;      *)
(* "refused" rc # 0, or None; "reported" None, and on_publish(128) as well; *)
(* "raised" an exception the drive does not catch.                          *)

Answers ==
  CASE Mechanism = "callback"   -> {"held", "refused"}
    [] Mechanism = "future"     -> {"held", "raised"}
    [] Mechanism = "await"      -> {"held"}
    [] Mechanism = "inline" /\ client = "mqttium" -> {"inline", "refused", "raised"}
    [] Mechanism = "inline" /\ client = "gmqtt"   -> {"inline", "reported"}
    [] Mechanism \in {"on_publish", "receipt"}    -> {"held", "inline", "refused", "raised"}
    [] Mechanism = "hook"       -> {"held", "inline", "reported"}

\* A library that raises has lost its connection.
Possible == {a \in Answers : a = "raised" => ~up}

\* Every completion the library owes, or has handed over without its being counted.
Owing == {m \in Msg : stage[m] \in {"held", "acked", "erred"}}
\* Publishes nothing will ever complete: cancelled, or cut short by an exception.
Orphaned == {m \in Msg : stage[m] \in {"abandoned", "raised"}}
Reported == {m \in Msg : stage[m] = "reported"}
Unsent == {m \in Msg : stage[m] = "unsent"}

Stages == {"unsent", "held", "acked", "erred", "over", "refused", "reported", "raised", "abandoned"}

TypeOK ==
  /\ <<client, point>> \in Cases /\ reply \in Replies /\ build \in {"on_publish", "receipt"}
  /\ pc \in {"create", "connect", "connecting", "subscribe", "subscribing", "check", "wait",
             "clear", "ready", "read_go", "route", "drive", "drain", "read", "read on",
             "disconnect", "hung", "write", "ended"}
  /\ error \in {"none", "create", "connect", "subscribe", "subscribe_refused", "go", "route", "drive"}
  /\ result \in {"none", "ok", "error"} /\ clock \in 0 .. 3
  /\ {up, connected, event} \subseteq BOOLEAN
  /\ asked \in {"unasked", "asked"} \union Grants
  /\ acked \in {"absent", "granted", "refused"} /\ told \in {"nothing", "half", "all"}
  /\ stage \in [Msg -> Stages] /\ packet \in [Msg -> Ids]
  /\ DOMAIN waiting = Ids /\ \A i \in Ids : Range(waiting[i]) \subseteq Msg
  /\ Range(owed) \subseteq Msg
  /\ returning \in {"nothing", "accepted", "refused"}
  /\ {sent, done, failed, rejected} \subseteq 0 .. Messages
  /\ {final.sent, final.done, final.failed} \subseteq 0 .. Messages

\* The runner starts no worker for a point the client lacks a feature of.
Init ==
  /\ \E case \in Cases : client = case[1] /\ point = case[2]
  /\ MissingForPoint(client, point) = {}
  /\ reply \in Replies
  /\ build \in IF client = "mqttium" THEN {"on_publish", "receipt"} ELSE {"receipt"}
  /\ pc = "create" /\ error = "none" /\ result = "none" /\ clock = 0
  /\ up = FALSE /\ connected = FALSE
  /\ asked = "unasked" /\ acked = "absent" /\ event = FALSE /\ told = "nothing"
  /\ stage = [m \in Msg |-> "unsent"] /\ packet = [m \in Msg |-> CHOOSE i \in Ids : TRUE]
  /\ waiting = [i \in Ids |-> <<>>] /\ owed = <<>>
  /\ returning = "nothing"
  /\ sent = 0 /\ done = 0 /\ failed = 0 /\ rejected = 0
  /\ final = [sent |-> 0, done |-> 0, failed |-> 0]

-----------------------------------------------------------------------------
(* Up to the ready line. *)

GoTo(next) == pc' = next /\ error' = error
\* An exception: main() catches it and writes ok = False.
Fail(where) == pc' = "write" /\ error' = where
AfterConnect == IF Receives(point.kind) THEN "subscribe" ELSE "ready"

Create ==
  /\ pc = "create"
  /\ IF Creates(client, point) THEN GoTo("connect") ELSE Fail("create")
  /\ UNCHANGED <<given, result, clock, up, handshake, library, returning, counters, final>>

\* An async connect returns connected or raises, at the latest when wait_for ends it;
\* a sync one returns, and on_connect tells.
DoConnect ==
  /\ pc = "connect"
  /\ CASE Connect(client, point.protocol, reply) = "exception" -> Fail("connect") /\ up' = up
       [] Shape = "sync" /\ Connect(client, point.protocol, reply) # "exception" ->
            GoTo("connecting") /\ up' = up
       [] OTHER -> GoTo(AfterConnect) /\ up' = TRUE
  /\ UNCHANGED <<given, result, clock, handshake, library, returning, counters, final>>

\* The library's thread runs on_connect; a refusal sets nothing.
OnConnect ==
  /\ pc = "connecting" /\ ~connected
  /\ Connect(client, point.protocol, reply) = "connected"
  /\ connected' = TRUE /\ up' = TRUE
  /\ UNCHANGED <<given, pc, error, result, clock, asked, acked, event, told, library, returning,
                 counters, final>>

AwaitConnected ==
  /\ pc = "connecting"
  /\ IF connected THEN GoTo(AfterConnect) ELSE Fail("connect")
  /\ UNCHANGED <<given, result, clock, up, handshake, library, returning, counters, final>>

\* paho's subscribe() has no mid to give when the connection is down: the worker then
\* waits for nothing.  awscrt reports a refusal; the others raise, now or when the
\* wait ends, if they notice at all.
Subscribe ==
  /\ pc = "subscribe"
  /\ CASE ~up /\ LeavesNoMid(client) -> GoTo("ready") /\ asked' = asked
       [] ~up /\ Shape # "sync"      -> \/ Fail("subscribe") /\ asked' = asked
                                        \/ GoTo("subscribing") /\ asked' = "asked"
       [] OTHER                      -> GoTo("subscribing") /\ asked' = "asked"
  /\ UNCHANGED <<given, result, clock, up, connected, acked, event, told, library, returning,
                 counters, final>>

\* The broker's SUBACK; to awscrt a lost connection is an answer too.
Grant ==
  /\ asked = "asked" /\ pc \notin {"write", "ended"}
  /\ asked' \in IF up THEN {"granted", "refused"} ELSE {g \in {"lost"} : client = "awscrt"}
  /\ UNCHANGED <<given, pc, error, result, clock, up, connected, acked, event, told, library,
                 returning, counters, final>>

\* Mutant: the event is set before the answer is recorded.
OnSubscribeEventFirst ==
  /\ Shape = "sync" /\ asked \in Grants /\ pc \notin {"write", "ended"}
  /\ \/ told = "nothing" /\ told' = "half" /\ event' = TRUE /\ acked' = acked
     \/ told = "half" /\ told' = "all" /\ event' = event /\ acked' = Suback(client, point.protocol, asked)
  /\ UNCHANGED <<given, pc, error, result, clock, up, connected, asked, library, returning,
                 counters, final>>

\* on_subscribe, on the library's thread: acked[mid] = ..., then ack_event.set().
OnSubscribe ==
  /\ Shape = "sync" /\ asked \in Grants /\ pc \notin {"write", "ended"}
  /\ \/ told = "nothing" /\ told' = "half" /\ acked' = Suback(client, point.protocol, asked) /\ event' = event
     \/ told = "half" /\ told' = "all" /\ acked' = acked /\ event' = TRUE
  /\ UNCHANGED <<given, pc, error, result, clock, up, connected, asked, library, returning,
                 counters, final>>

\* subscribe() returns its mid, maybe after on_subscribe has run.  An awaited one
\* returns rc = 0, or raises: the broker has not answered for 30 s, or never will.
Subscribed ==
  /\ pc = "subscribing"
  /\ \/ Shape = "sync" /\ GoTo("check")
     \/ Shape # "sync" /\ (AwaitsSuback(client) => asked \in Grants) /\ GoTo("ready")
     \/ Shape # "sync" /\ AwaitsSuback(client) /\ asked = "asked" /\ Fail("subscribe")
  /\ UNCHANGED <<given, result, clock, up, handshake, library, returning, counters, final>>

\* while mid not in acked; if not acked[mid]
Check ==
  /\ pc = "check"
  /\ CASE acked = "absent"  -> GoTo("wait")
       [] acked = "granted" -> GoTo("ready")
       [] acked = "refused" -> Fail("subscribe_refused")
  /\ UNCHANGED <<given, result, clock, up, handshake, library, returning, counters, final>>

\* ack_event.wait(), until the deadline.
Wait ==
  /\ pc = "wait"
  /\ IF event THEN GoTo("clear") ELSE Fail("subscribe")
  /\ UNCHANGED <<given, result, clock, up, handshake, library, returning, counters, final>>

Clear ==
  /\ pc = "clear" /\ GoTo("check") /\ event' = FALSE
  /\ UNCHANGED <<given, result, clock, up, connected, asked, acked, told, library, returning,
                 counters, final>>

\* emit("ready"), then the GO line: the orchestrator's, or nothing if it gave up.
ReadGo ==
  /\ \/ pc = "ready" /\ GoTo("read_go")
     \/ pc = "read_go" /\ GoTo("route")
     \/ pc = "read_go" /\ Fail("go")
  /\ UNCHANGED <<given, result, clock, up, handshake, library, returning, counters, final>>

\* _route_publishes
RoutePublishes ==
  /\ pc = "route"
  /\ IF Routes(client, point) THEN GoTo("drive") ELSE Fail("route")
  /\ UNCHANGED <<given, result, clock, up, handshake, library, returning, counters, final>>

-----------------------------------------------------------------------------
(* The publishes and their completions. *)

\* The loop runs nothing else while run_async reads its counters.
LibraryMayRun == pc \in {"drive", "drain", "read", "disconnect", "hung"} \/ (Shape = "sync" /\ pc = "read on")

Free == {i \in Ids : \A m \in Msg : stage[m] = "held" => packet[m] # i}

\* Mutant: one waiting publish per identifier.
RegisterLast(m, i) == waiting' = [waiting EXCEPT ![i] = <<m>>]

\* _real_to_synth.setdefault(mid, deque()).append(...)
Register(m, i) == waiting' = [waiting EXCEPT ![i] = Append(@, m)]

\* The library takes the publish; mqttium gives it an identifier it has free.
Accept(m) ==
  /\ stage' = [stage EXCEPT ![m] = "held"]
  /\ IF Mechanism = "on_publish"
       THEN \E i \in Free : packet' = [packet EXCEPT ![m] = i] /\ Register(m, i)
       ELSE UNCHANGED <<packet, waiting>>

End(m, how) == stage' = [stage EXCEPT ![m] = how] /\ UNCHANGED <<packet, waiting>>

NextMessage == CHOOSE m \in Unsent : \A k \in Unsent : m <= k

\* publish() on the worker's thread: a completion may come before it returns.
Call ==
  /\ pc = "drive" /\ Shape = "sync" /\ Publishes(point.kind)
  /\ returning = "nothing" /\ Unsent # {}
  /\ \E answer \in Possible :
       /\ IF answer = "held" THEN Accept(NextMessage) ELSE End(NextMessage, answer)
       /\ returning' = [held |-> "accepted", refused |-> "refused", raised |-> "nothing"][answer]
       /\ IF answer = "raised" THEN Fail("drive") ELSE GoTo("drive")
  /\ UNCHANGED <<given, result, clock, up, handshake, owed, counters, final>>

\* Mutant: a refusal takes back a count this shape has not made yet.
ReturnTakingBack ==
  /\ returning # "nothing" /\ pc = "drive" /\ returning' = "nothing"
  /\ IF returning = "accepted" THEN sent' = sent + 1 /\ rejected' = rejected
       ELSE sent' = sent - 1 /\ rejected' = rejected + 1
  /\ UNCHANGED <<given, pc, error, result, clock, up, handshake, library, done, failed, final>>

\* rc == 0: sent += 1, else rejected += 1.
Return ==
  /\ returning # "nothing" /\ pc = "drive" /\ returning' = "nothing"
  /\ IF returning = "accepted" THEN sent' = sent + 1 /\ rejected' = rejected
       ELSE sent' = sent /\ rejected' = rejected + 1
  /\ UNCHANGED <<given, pc, error, result, clock, up, handshake, library, done, failed, final>>

\* publish_nowait() on the loop: counted first, taken back when it returns None.
PublishNowait ==
  /\ pc = "drive" /\ Shape = "nowait" /\ Publishes(point.kind) /\ Unsent # {}
  /\ \E answer \in Possible :
       LET accepted == answer \in {"held", "inline"}
           m == NextMessage
       IN /\ IF answer = "held" THEN Accept(m)
               ELSE End(m, IF answer = "inline" THEN "over" ELSE answer)
          /\ sent' = IF accepted \/ answer = "raised" THEN sent + 1 ELSE sent
          /\ done' = IF answer = "inline" THEN done + 1 ELSE done
          /\ failed' = IF answer = "reported" THEN failed + 1 ELSE failed
          /\ rejected' = IF answer \in {"refused", "reported"} THEN rejected + 1 ELSE rejected
          /\ IF answer = "raised" THEN Fail("drive") ELSE GoTo("drive")
  /\ UNCHANGED <<given, result, clock, up, handshake, owed, returning, final>>

\* await publish(): counted, then awaited; several may be.
PublishAwaited ==
  /\ pc = "drive" /\ Shape = "awaited" /\ Publishes(point.kind) /\ Unsent # {}
  /\ Accept(NextMessage) /\ sent' = sent + 1
  /\ UNCHANGED <<given, pc, error, result, clock, up, handshake, owed, returning, done, failed,
                 rejected, final>>

\* The library is through with a publish; mqttium's identifier is free from here on.
Settle(m) ==
  /\ LibraryMayRun /\ stage[m] = "held" /\ Mechanism # "hook"
  /\ \/ up /\ stage' = [stage EXCEPT ![m] = "acked"]
     \/ stage' = [stage EXCEPT ![m] = "erred"]
  /\ owed' = IF Mechanism = "on_publish" THEN Append(owed, m) ELSE owed
  /\ UNCHANGED <<given, pc, error, result, clock, up, handshake, packet, waiting, returning,
                 counters, final>>

Count(m) ==
  IF stage[m] = "acked" THEN done' = done + 1 /\ failed' = failed
    ELSE failed' = failed + 1 /\ done' = done

\* Its callback, its future's callback, its receipt's, or the coroutine resumes.
Complete(m) ==
  /\ LibraryMayRun /\ stage[m] \in {"acked", "erred"} /\ Mechanism # "on_publish"
  /\ stage' = [stage EXCEPT ![m] = "over"] /\ Count(m)
  /\ UNCHANGED <<given, pc, error, result, clock, up, handshake, packet, waiting, owed,
                 returning, sent, rejected, final>>

\* mqttium's one on_publish: the oldest publish waiting on the identifier, if any.
CompleteById ==
  /\ LibraryMayRun /\ owed # <<>>
  /\ LET m == Head(owed)
         pending == waiting[packet[m]]
     IN /\ stage' = [stage EXCEPT ![m] = "over"]
        /\ IF pending = <<>> THEN UNCHANGED <<waiting, done, failed>>
             ELSE waiting' = [waiting EXCEPT ![packet[m]] = Tail(@)] /\ Count(m)
  /\ owed' = Tail(owed)
  /\ UNCHANGED <<given, pc, error, result, clock, up, handshake, packet, returning, sent,
                 rejected, final>>

\* gmqtt's _remove_message_from_query, replaced by one that fires on_publish(0) as well.
RemoveAndAck(m) ==
  /\ LibraryMayRun /\ Mechanism = "hook" /\ stage[m] = "held" /\ up
  /\ stage' = [stage EXCEPT ![m] = "over"] /\ done' = done + 1
  /\ UNCHANGED <<given, pc, error, result, clock, up, handshake, packet, waiting, owed,
                 returning, sent, failed, rejected, final>>

\* The cancellation of the drive reaches a publish it was awaiting.
Abandon(m) ==
  /\ LibraryMayRun /\ pc # "drive" /\ Mechanism = "await"
  /\ stage[m] \in {"held", "acked", "erred"}
  /\ stage' = [stage EXCEPT ![m] = "abandoned"]
  /\ UNCHANGED <<given, pc, error, result, clock, up, handshake, packet, waiting, owed,
                 returning, counters, final>>

-----------------------------------------------------------------------------
(* From the end of the drive to the result file. *)

Tick ==
  /\ pc \in {"drive", "drain"} /\ clock < 3 /\ clock' = clock + 1
  /\ UNCHANGED <<given, pc, error, result, up, handshake, library, returning, counters, final>>

LoseConnection ==
  /\ up /\ pc \notin {"write", "ended"} /\ up' = FALSE
  /\ UNCHANGED <<given, pc, error, result, clock, handshake, library, returning, counters, final>>

\* Mutant: the awaited drive is waited for without a timeout.
DriveOverPatiently ==
  CASE ~Publishes(point.kind) /\ Shape # "sync" -> TRUE
    [] Shape = "awaited" /\ Publishes(point.kind) -> clock >= 2 /\ Owing = {}
    [] OTHER -> clock >= 2 /\ returning = "nothing"

\* Sync: the drive sees t_end, and the timer is joined.  Async: the task is done, or
\* t_stop has come and it is cancelled; nothing to wait for without a drive.
DriveOver ==
  CASE ~Publishes(point.kind) /\ Shape # "sync" -> TRUE
    [] Shape = "awaited" /\ Publishes(point.kind) -> clock = 3 \/ (clock >= 2 /\ Owing = {})
    [] OTHER -> clock >= 2 /\ returning = "nothing"

EndDrive ==
  /\ pc = "drive" /\ DriveOver /\ GoTo("drain")
  /\ UNCHANGED <<given, result, clock, up, handshake, library, returning, counters, final>>

\* wait_until nothing is outstanding, then sleep_until t_stop whatever that showed.
Drain ==
  /\ pc = "drain" /\ clock = 3 /\ GoTo("read")
  /\ UNCHANGED <<given, result, clock, up, handshake, library, returning, counters, final>>

\* snapshot() reads one counter after the other.
Snapshot ==
  /\ \/ pc = "read" /\ GoTo("read on") /\ final' = [final EXCEPT !.sent = sent, !.done = done]
     \/ pc = "read on" /\ GoTo("disconnect") /\ final' = [final EXCEPT !.failed = failed]
  /\ UNCHANGED <<given, result, clock, up, handshake, library, returning, counters>>

\* paho's loop_stop() joins the library's thread, for as long as that takes; awscrt waits
\* 10 s, and on a loop wait_for() gives disconnect() 5 s.
MayHang == client = "paho"

\* disconnect() and loop_stop(): exceptions are swallowed, a hang is not noticed.
Disconnect ==
  /\ pc = "disconnect"
  /\ GoTo("write") \/ (MayHang /\ GoTo("hung"))
  /\ UNCHANGED <<given, result, clock, up, handshake, library, returning, counters, final>>

Write ==
  /\ pc = "write" /\ GoTo("ended") /\ result' = IF error = "none" THEN "ok" ELSE "error"
  /\ UNCHANGED <<given, clock, up, handshake, library, returning, counters, final>>

-----------------------------------------------------------------------------

WorkerStep ==
  \/ Create \/ DoConnect \/ AwaitConnected
  \/ Subscribe \/ Subscribed \/ Check \/ Wait \/ Clear
  \/ ReadGo \/ RoutePublishes
  \/ Call \/ Return \/ PublishNowait \/ PublishAwaited
  \/ EndDrive \/ Drain \/ Snapshot \/ Disconnect \/ Write

LibraryStep ==
  \/ OnConnect \/ Grant \/ OnSubscribe \/ CompleteById \/ LoseConnection
  \/ \E m \in Msg : Settle(m) \/ Complete(m) \/ RemoveAndAck(m) \/ Abandon(m)

\* A worker that hangs is killed by the orchestrator (Run.Finish).
Ended == pc \in {"ended", "hung"} /\ UNCHANGED vars

Next == WorkerStep \/ LibraryStep \/ Tick \/ Ended

Spec == Init /\ [][Next]_vars
\* The worker's own process runs and time passes; the library promises nothing.
FairSpec == Spec /\ WF_vars(WorkerStep) /\ WF_vars(Tick)

-----------------------------------------------------------------------------
(* Properties. *)

\* worker.py, run_sync's handshake: no wake-up is lost between the waiting worker and
\* on_subscribe on the library's thread; and a worker that got past it holds a granted
\* subscription, unless it had no mid to wait for or its adapter hides a refusal.
HandshakeSound ==
  /\ pc = "wait" /\ acked # "absent" => event \/ told = "half"
  /\ Shape = "sync" /\ Receives(point.kind) /\ pc \in {"ready", "read_go", "route", "drive"}
       => \/ asked = "granted"
          \/ asked = "unasked" /\ LeavesNoMid(client)
          \/ asked = "refused" /\ HidesRefusal(client, point.protocol)

\* capabilities(), create() and build_publish_properties() of one client are three
\* declarations: a point its capabilities allow is one the other two carry out.
AbleMeansRuns == error \notin {"create", "route"}

\* Each adapter's publish keeps the drives' books right: what they believe outstanding
\* is what the library owes or will never answer, a refusal that is also reported apart,
\* whichever thread or identifier the completion comes by; and the final snapshot of a
\* run, though it is read while completions go on, counts none that was not sent.
OutcomesMatch ==
  /\ sent + (IF returning = "accepted" THEN 1 ELSE 0) - done - failed + Cardinality(Reported)
       = Cardinality(Owing) + Cardinality({m \in Orphaned : Shape # "sync"})
  /\ result = "ok" => final.done + final.failed <= final.sent + Cardinality(Reported)

\* Whatever broker, library and orchestrator do, the worker writes a result and exits, or
\* hangs in the one library call that nothing bounds, its measurement already taken.
SessionEnds == <>(pc = "ended" \/ (pc = "hung" /\ MayHang /\ clock = 3))
=============================================================================
