-------------------------------- MODULE Run ---------------------------------
(***************************************************************************)
(* bench/runner.py: run_once(), one run of one point for one client.  The  *)
(* orchestrator starts up to three children (the worker that holds the     *)
(* client, and C peers), sends them one schedule, waits for them, compares *)
(* their counts with two readings of the broker's $SYS counters, and       *)
(* always cleans up.  Each child is a process of its own: it may fail to   *)
(* start, die or hang at any time.  The messages of the run have two       *)
(* directions, "out" from the client and "in" to it, and are alike: what   *)
(* is kept of each direction is how many went how far.  The broker is      *)
(* external.  A library may report a completion it never had.              *)
(***************************************************************************)
EXTENDS Verdict, Adapters, FiniteSets, Sequences

CONSTANTS
  Cases,      \* what may be run: <<client, point>>
  Profiled,   \* may ctx.sampling be set: subset of BOOLEAN
  Load        \* by kind of point, the messages a direction carries at most: a bound

ASSUME RunAssumption ==
  /\ Cases \subseteq AllClients \X AllPoints /\ Profiled \subseteq BOOLEAN
  /\ \A case \in Cases : Load[case[2].kind] \in Nat

VARIABLES
  client, point, sampling,   \* the run's parameters
  pc,         \* where run_once is
  starts,     \* children still to start, in order
  children,   \* worker and peers[]: the processes run_once holds
  proc,       \* state of each process
  heardReady, \* children whose ready line was read
  subscription, \* what became of each child's SUBSCRIBE, at the broker
  said,       \* what each child left behind: its result line or file
  flow,       \* how many messages of each direction went how far
  counts,     \* the counters in each child's result
  shown,      \* the broker's counters as last published under $SYS
  fresh,      \* an update arrived since snapshot() was called
  before, after,   \* sys_before and sys_after
  entries,    \* record[key]: which results are in the record
  capture,    \* the profiler
  files,      \* result_path and cfg_path exist
  ending,     \* how the try statement was left
  sampled,    \* "sampling" in record
  status      \* record["status"]

given == <<client, point, sampling>>
world == <<proc, heardReady, subscription, said, flow, counts, shown, fresh>>
readings == <<before, after>>
record == <<entries, sampled, status>>
held == <<children, capture, files>>
vars == <<given, pc, starts, world, readings, record, held, ending>>

Child == {"worker", "peer", "peer_source"}
Msg == {"out", "in"}
Alive == {"starting", "ready", "running"}

-----------------------------------------------------------------------------
(* _peer_plan: which peers a point has, and when they start. *)

Receives(kind) == kind \in {"sub", "rtt", "duplex"}

PeersFirst(kind) == IF kind \in {"pub", "rtt", "duplex"} THEN <<"peer">> ELSE <<>>

PeersLast(kind) ==
  CASE kind = "sub"    -> <<"peer">>
    [] kind = "duplex" -> <<"peer_source">>
    [] OTHER           -> <<>>

\* Mutant: every peer is started before the worker.
StartOrderPeersAhead(kind) == PeersFirst(kind) \o PeersLast(kind) \o <<"worker">>

\* start_peers(True), the worker, start_peers(False).
StartOrder(kind) == PeersFirst(kind) \o <<"worker">> \o PeersLast(kind)

Planned(kind) == {StartOrder(kind)[i] : i \in DOMAIN StartOrder(kind)}

\* Who sends and who receives each message: the roles of the argument vectors.
Sender(m) ==
  CASE m = "out" /\ Publishes(point.kind)  -> "worker"
    [] m = "in" /\ point.kind \in {"sub", "rtt"} -> "peer"
    [] m = "in" /\ point.kind = "duplex"   -> "peer_source"
    [] OTHER                               -> "nobody"
Receiver(m) == IF m = "in" THEN "worker" ELSE "peer"

\* The messages go and come by these.
Outgoing(c) == IF c = "worker" THEN "out" ELSE "in"
Incoming(c) == IF c = "worker" THEN "in" ELSE "out"

\* How far a count may go.
Few == 0 .. Load[point.kind]
Readings == 0 .. 1 + 2 * Load[point.kind]

NoFlow == [sent |-> 0, routed |-> 0, forwarded |-> 0, dropped |-> 0, received |-> 0]
NoCounts == [sent |-> 0, done |-> 0, received |-> 0]
Silent == [received |-> 0, sent |-> 0, dropped |-> 0]
Earlier == [received |-> 1, sent |-> 1, dropped |-> 0]   \* what earlier runs left

TypeOK ==
  /\ <<client, point>> \in Cases /\ sampling \in Profiled
  /\ pc \in {"refusals", "start", "await", "answer", "go", "measure", "finish",
             "ask again", "answer again", "load", "close", "kill", "over"}
  /\ \E i \in 1 .. 4 : starts = SubSeq(StartOrder(point.kind), i, Len(StartOrder(point.kind)))
  /\ children \subseteq Child /\ heardReady \subseteq Child
  /\ subscription \in [Child -> {"none", "unsent", "granted", "refused"}]
  /\ proc \in [Child -> Alive \cup {"none", "exited"}]
  /\ said \in [Child -> {"nothing", "ok", "error"}]
  /\ flow \in [Msg -> [sent : Few, routed : Few, forwarded : Few, dropped : Few, received : Few]]
  /\ counts \in [Child -> [sent : Few, done : Few, received : Few]]
  /\ {shown, before, after} \subseteq [received : Readings, sent : Readings, dropped : Readings]
  /\ fresh \in BOOLEAN
  /\ entries \in [Child -> {"absent", "nothing", "ok", "error"}]
  /\ capture \in {"none", "running", "closed"}
  /\ files \in BOOLEAN /\ sampled \in BOOLEAN
  /\ ending \in {"normal", "exception", "interrupt"}
  /\ status \in {"none", "unsupported", "valid", "not_sustained", "invalid", "raised"}

\* Earlier runs left the broker's counters at some value; the copy published under
\* $SYS may be older than that.
Init ==
  /\ \E case \in Cases : client = case[1] /\ point = case[2]
  /\ sampling \in Profiled
  /\ pc = "refusals" /\ starts = StartOrder(point.kind)
  /\ children = {} /\ proc = [c \in Child |-> "none"]
  /\ heardReady = {} /\ subscription = [c \in Child |-> "none"]
  /\ said = [c \in Child |-> "nothing"]
  /\ flow = [m \in Msg |-> NoFlow]
  /\ counts = [c \in Child |-> NoCounts]
  /\ shown \in {Silent, [Earlier EXCEPT !.received = 0], Earlier} /\ fresh = FALSE
  /\ before = Silent /\ after = Silent
  /\ entries = [c \in Child |-> "absent"] /\ sampled = FALSE /\ status = "none"
  /\ capture = "none" /\ files = FALSE /\ ending = "normal"

-----------------------------------------------------------------------------
(* The children. *)

\* What may have become of a child's SUBSCRIBE when it prints its ready line.  A C peer
\* that receives fails on anything but a grant.  The worker says ready when its client
\* tells it of a grant, which may hide a refusal; at once, where subscribe() does not
\* wait to be told; or with no SUBSCRIBE sent, where no mid says that there is nothing to
\* wait for.
SubscribedAs(c) ==
  CASE c = "worker" /\ Receives(point.kind) /\ AwaitsSuback(client) ->
         {g \in {"granted", "refused"} : Suback(client, point.protocol, g) = "granted"}
         \cup {s \in {"unsent"} : LeavesNoMid(client)}
    [] c = "peer" /\ point.kind \in {"pub", "rtt", "duplex"} -> {"granted"}
    [] OTHER -> {"none"}

\* A child prints its ready line: connected and, where it receives, past its subscribe().
BecomeReady(c) ==
  /\ proc[c] = "starting"
  /\ proc' = [proc EXCEPT ![c] = "ready"]
  /\ heardReady' = heardReady \cup {c}
  /\ \E as \in SubscribedAs(c) : subscription' = [subscription EXCEPT ![c] = as]
  /\ UNCHANGED <<given, pc, starts, said, flow, counts, shown, fresh, readings, record, held,
                 ending>>

\* The SUBSCRIBE a client left to a task of its own is answered.
SubscribeLate ==
  /\ proc["worker"] \in {"ready", "running"} /\ Receives(point.kind)
  /\ ~AwaitsSuback(client) /\ subscription["worker"] = "none"
  /\ \E g \in {"granted", "refused"} : subscription' = [subscription EXCEPT !["worker"] = g]
  /\ UNCHANGED <<given, pc, starts, proc, heardReady, said, flow, counts, shown, fresh, readings,
                 record, held, ending>>

\* Mutant: a completion is reported twice.
TrueCountsTwice(c) ==
  {[sent |-> flow[Outgoing(c)].sent, done |-> flow[Outgoing(c)].sent + 1, received |-> 0]}

\* What the child may truthfully count; a library's completions are its own claim.
TrueCounts(c) ==
  LET mine  == IF Sender(Outgoing(c)) = c THEN flow[Outgoing(c)] ELSE NoFlow
      taken == IF Receiver(Incoming(c)) = c THEN flow[Incoming(c)].received ELSE 0
  IN {[sent |-> mine.sent, done |-> d, received |-> taken] :
        d \in 0 .. (IF c = "worker" THEN mine.sent ELSE mine.routed)}

\* The child's schedule is over: it leaves its result, its counts or an error.
Report(c) ==
  /\ proc[c] = "running" /\ said[c] = "nothing"
  /\ \/ /\ said' = [said EXCEPT ![c] = "ok"]
        /\ \E n \in TrueCounts(c) : counts' = [counts EXCEPT ![c] = n]
     \/ /\ said' = [said EXCEPT ![c] = "error"]
        /\ UNCHANGED counts
  /\ UNCHANGED <<given, pc, starts, proc, heardReady, subscription, flow, shown, fresh, readings,
                 record, held, ending>>

\* A child ends, having finished or not.
Exit(c) ==
  /\ proc[c] \in Alive
  /\ proc' = [proc EXCEPT ![c] = "exited"]
  /\ UNCHANGED <<given, pc, starts, heardReady, subscription, said, flow, counts, shown, fresh,
                 readings, record, held, ending>>

-----------------------------------------------------------------------------
(* The messages and the broker. *)

\* A child that has its schedule and has not reported sends a message; the echo answers
\* those it received.
Send(m) ==
  /\ Sender(m) \in Child /\ proc[Sender(m)] = "running" /\ said[Sender(m)] = "nothing"
  /\ flow[m].sent < Load[point.kind]
  /\ m = "in" /\ point.kind = "rtt" => flow["in"].sent < flow["out"].received
  /\ flow' = [flow EXCEPT ![m].sent = @ + 1]
  /\ UNCHANGED <<given, pc, starts, proc, heardReady, subscription, said, counts, shown, fresh,
                 readings, record, held, ending>>

\* The broker handles a PUBLISH: it counts it, and has nobody connected to give it to, or
\* forwards it, or drops it because the subscriber's queue is full.
Route(m) ==
  /\ flow[m].routed < flow[m].sent
  /\ \/ flow' = [flow EXCEPT ![m].routed = @ + 1]
     \/ /\ subscription[Receiver(m)] = "granted" /\ proc[Receiver(m)] \in Alive
        /\ \/ flow' = [flow EXCEPT ![m].routed = @ + 1, ![m].forwarded = @ + 1]
           \/ flow' = [flow EXCEPT ![m].routed = @ + 1, ![m].dropped = @ + 1]
  /\ UNCHANGED <<given, pc, starts, proc, heardReady, subscription, said, counts, shown, fresh,
                 readings, record, held, ending>>

\* The subscriber reads one while it still counts.
Receive(m) ==
  /\ flow[m].received < flow[m].forwarded
  /\ proc[Receiver(m)] = "running" /\ said[Receiver(m)] = "nothing"
  /\ flow' = [flow EXCEPT ![m].received = @ + 1]
  /\ UNCHANGED <<given, pc, starts, proc, heardReady, subscription, said, counts, shown, fresh,
                 readings, record, held, ending>>

BrokerCounters ==
  [received |-> Earlier.received + flow["out"].routed + flow["in"].routed,
   sent     |-> Earlier.sent + flow["out"].forwarded + flow["in"].forwarded,
   dropped  |-> Earlier.dropped + flow["out"].dropped + flow["in"].dropped]

\* The broker publishes $SYS at its interval; every update changes `sent`, since
\* sending to the probe is itself counted.  Only the updates of a snapshot's wait are
\* steps: the others are overwritten before anything reads them.
Update ==
  /\ pc \in {"answer", "answer again"}
  /\ ~fresh \/ shown # BrokerCounters
  /\ shown' = BrokerCounters /\ fresh' = TRUE
  /\ UNCHANGED <<given, pc, starts, proc, heardReady, subscription, said, flow, counts, readings,
                 record, held, ending>>
-----------------------------------------------------------------------------
(* run_once. *)

\* refusals(): an honest refusal is a record, and starts nothing.
Decline ==
  /\ pc = "refusals" /\ MissingForPoint(client, point) # {}
  /\ pc' = "over" /\ status' = "unsupported"
  /\ UNCHANGED <<given, starts, world, readings, entries, sampled, held, ending>>

\* The result and configuration files are made, and the try statement is entered.
Prepare ==
  /\ pc = "refusals" /\ MissingForPoint(client, point) = {}
  /\ pc' = "start" /\ files' = TRUE
  /\ UNCHANGED <<given, starts, world, readings, record, children, capture, ending>>

\* Mutant: a child is held only once it is ready.
SpawnUnheld ==
  /\ pc = "start" /\ starts # <<>>
  /\ proc' = [proc EXCEPT ![Head(starts)] = "starting"]
  /\ pc' = "await"
  /\ UNCHANGED <<given, starts, children, heardReady, subscription, said, flow, counts, shown,
                 fresh, readings, record, capture, files, ending>>

\* ChildProcess(...), held at once in `worker` or peers[key].
Spawn ==
  /\ pc = "start" /\ starts # <<>>
  /\ proc' = [proc EXCEPT ![Head(starts)] = "starting"]
  /\ children' = children \cup {Head(starts)}
  /\ pc' = "await"
  /\ UNCHANGED <<given, starts, heardReady, subscription, said, flow, counts, shown, fresh,
                 readings, record, capture, files, ending>>

\* wait_ready() finds the ready line, be the child still alive or not.
SeeReady ==
  /\ pc = "await" /\ Head(starts) \in heardReady
  /\ starts' = Tail(starts) /\ pc' = "start"
  /\ UNCHANGED <<given, world, readings, record, held, ending>>

\* It does not, in 45 s or because the child has exited: RuntimeError, for the
\* worker after finish(5.0).
GiveUp ==
  /\ pc = "await" /\ Head(starts) \notin heardReady
  /\ proc' = IF Head(starts) = "worker" THEN [proc EXCEPT !["worker"] = "exited"] ELSE proc
  /\ pc' = "close" /\ ending' = "exception"
  /\ UNCHANGED <<given, starts, heardReady, subscription, said, flow, counts, shown, fresh,
                 readings, record, held>>

\* SysProbe.snapshot() notes when it was called ...
Ask ==
  /\ \/ pc = "start" /\ starts = <<>> /\ pc' = "answer"
     \/ pc = "ask again" /\ pc' = "answer again"
  /\ fresh' = FALSE
  /\ UNCHANGED <<given, starts, proc, heardReady, subscription, said, flow, counts, shown,
                 readings, record, held, ending>>

\* Mutant: the values at hand will do.
AnswerAnyway ==
  /\ \/ pc = "answer" /\ pc' = "go" /\ before' = shown /\ UNCHANGED after
     \/ pc = "answer again" /\ pc' = "load" /\ after' = shown /\ UNCHANGED before
  /\ UNCHANGED <<given, starts, world, record, held, ending>>

\* ... and returns the counters of a later update.
Answer ==
  /\ fresh
  /\ \/ pc = "answer" /\ pc' = "go" /\ before' = shown /\ UNCHANGED after
     \/ pc = "answer again" /\ pc' = "load" /\ after' = shown /\ UNCHANGED before
  /\ UNCHANGED <<given, starts, world, record, held, ending>>

\* The GO line: a child that has died is passed over.
Go ==
  /\ pc = "go"
  /\ proc' = [c \in Child |-> IF proc[c] = "ready" THEN "running" ELSE proc[c]]
  /\ pc' = "measure"
  /\ UNCHANGED <<given, starts, heardReady, subscription, said, flow, counts, shown, fresh,
                 readings, record, held, ending>>

\* t_measure: the profiler, if the run is sampled, attaches to the worker.
Measure ==
  /\ pc = "measure"
  /\ capture' = IF sampling THEN "running" ELSE "none"
  /\ pc' = "finish"
  /\ UNCHANGED <<given, starts, world, readings, record, children, files, ending>>

\* finish() each child: the worker, then the peers in the order they were started;
\* one still alive after its grace is killed.  A peer's result goes into the record.
Unfinished == {c \in children : entries[c] = "absent"}
NextToFinish ==
  IF "worker" \in Unfinished THEN {"worker"}
  ELSE IF "peer" \in Unfinished THEN {"peer"} ELSE Unfinished

\* Mutant: an exit is waited for as long as it takes.
FinishPatiently(c) ==
  /\ pc = "finish" /\ c \in NextToFinish
  /\ proc[c] = "exited"
  /\ entries' = [entries EXCEPT ![c] = said[c]]
  /\ UNCHANGED <<given, pc, starts, world, readings, sampled, status, held, ending>>

Finish(c) ==
  /\ pc = "finish" /\ c \in NextToFinish
  /\ proc' = [proc EXCEPT ![c] = "exited"]
  /\ entries' = [entries EXCEPT ![c] = said[c]]
  /\ UNCHANGED <<given, pc, starts, heardReady, subscription, said, flow, counts, shown, fresh,
                 readings, sampled, status, held, ending>>

AllFinished ==
  /\ pc = "finish" /\ Unfinished = {}
  /\ pc' = "ask again"
  /\ UNCHANGED <<given, starts, world, readings, record, held, ending>>

\* capture.finish(): the profile is good, in time.
Sampled ==
  /\ pc = "load" /\ capture # "none"
  /\ capture' = "closed" /\ sampled' = TRUE
  /\ pc' = "close"
  /\ UNCHANGED <<given, starts, world, readings, entries, status, children, files, ending>>

NotSampled ==
  /\ pc = "load" /\ capture = "none"
  /\ pc' = "close"
  /\ UNCHANGED <<given, starts, world, readings, record, held, ending>>

\* A process cannot be created, no update comes in 5 s, the profiler cannot attach or
\* has nothing to show: the exception is caught.
Fail ==
  /\ \/ pc \in {"start", "answer", "answer again"}
     \/ pc \in {"measure", "load"} /\ sampling
  /\ pc' = "close" /\ ending' = "exception"
  /\ UNCHANGED <<given, starts, world, readings, record, held>>

\* The user interrupts it where it waits; nothing catches that.
Interrupt ==
  /\ pc \in {"await", "answer", "measure", "finish", "answer again", "load"}
  /\ pc' = "close" /\ ending' = "interrupt"
  /\ UNCHANGED <<given, starts, world, readings, record, held>>

\* The finally clause: the profiler, the children, the files.
Close ==
  /\ pc = "close"
  /\ capture' = IF capture = "none" THEN "none" ELSE "closed"
  /\ pc' = "kill"
  /\ UNCHANGED <<given, starts, world, readings, record, children, files, ending>>

Kill ==
  /\ pc = "kill"
  /\ \E c \in children :
       /\ proc[c] \in Alive
       /\ c # "worker" => proc["worker"] \notin Alive
       /\ proc' = [proc EXCEPT ![c] = "exited"]
  /\ UNCHANGED <<given, pc, starts, heardReady, subscription, said, flow, counts, shown, fresh,
                 readings, record, held, ending>>

\* delta(): what the run added to a counter; the probe's own messages are left out.
Delta(counter) == after[counter] - before[counter]

\* What checks.evaluate() is given.
RecordOf(strict, odd, wsent, wreceived, psent) ==
  LET party(c) == [heard |-> entries[c] # "absent" /\ said[c] # "nothing",
                   error |-> said[c] = "error",
                   sent |-> counts[c].sent, echoed |-> counts[c].sent, wsent |-> psent,
                   acked |-> counts[c].done, received |-> counts[c].received]
      features == (IF point.filters THEN {"filters"} ELSE {})
                  \cup (IF point.properties # "none" THEN {"properties"} ELSE {})
                  \cup (IF point.topic_alias THEN {"alias"} ELSE {})
  IN [point  |-> [kind |-> point.kind, qos |-> point.qos, rated |-> point.rated, features |-> features],
      worker |-> [ok |-> entries["worker"] = "ok" /\ after # Silent, sent |-> counts["worker"].sent,
                  done |-> counts["worker"].done, received |-> counts["worker"].received,
                  wsent |-> wsent, wreceived |-> wreceived],
      peer   |-> party("peer"), source |-> party("peer_source"),
      sys    |-> [read |-> after # Silent,
                  received |-> Delta("received"), sent |-> Delta("sent"), dropped |-> Delta("dropped")],
      odd    |-> odd, strict |-> strict]

Oddities == {"size_mismatch", "unmatched", "props_missing", "full_topics", "broker_busy", "host_noisy"}

\* The status: evaluate()'s, unless a capture was asked for and is missing.
StatusGiven(verdict) == IF sampling /\ ~sampled THEN "invalid" ELSE verdict

\* The files go; then the record is judged, or the interruption goes on.
Conclude ==
  /\ pc = "kill" /\ \A c \in children : proc[c] \notin Alive
  /\ files' = FALSE /\ pc' = "over"
  /\ IF ending = "interrupt" THEN status' = "raised"
     ELSE \E strict \in BOOLEAN : \E odd \in {{}} \cup {{o} : o \in Oddities} :
          \E wsent \in 0 .. counts["worker"].sent : \E wreceived \in 0 .. counts["worker"].received :
          \E psent \in Few :
            /\ psent <= counts["peer"].sent + counts["peer_source"].sent
            /\ status' = StatusGiven(Evaluate(RecordOf(strict, odd, wsent, wreceived, psent)))
  /\ UNCHANGED <<given, starts, world, readings, entries, sampled, children, capture, ending>>

Over == pc = "over" /\ UNCHANGED vars

Orchestrate ==
  \/ Decline \/ Prepare \/ Spawn \/ SeeReady \/ GiveUp \/ Ask \/ Answer \/ Go \/ Measure
  \/ \E c \in Child : Finish(c)
  \/ AllFinished \/ Sampled \/ NotSampled \/ Fail \/ Close \/ Kill \/ Conclude

Next ==
  \/ Orchestrate
  \/ Interrupt
  \/ \E c \in Child : BecomeReady(c) \/ Report(c) \/ Exit(c)
  \/ SubscribeLate
  \/ \E m \in Msg : Send(m) \/ Route(m) \/ Receive(m)
  \/ Update
  \/ Over

\* Only the orchestrator is fair: each of its waits has a deadline.
Spec == Init /\ [][Next]_vars
FairSpec == Spec /\ WF_vars(Orchestrate)
-----------------------------------------------------------------------------
(* Properties. *)

\* What the start order may rely on: a grant; or, of the worker, a refusal that its
\* adapter hides, or no subscription at all where there was no mid to wait for.
Settled(c) ==
  \/ subscription[c] = "granted"
  \/ c = "worker" /\ subscription[c] = "refused" /\ HidesRefusal(client, point.protocol)
  \/ c = "worker" /\ subscription[c] = "unsent" /\ LeavesNoMid(client)

\* "Whatever receives subscribes before whatever sends exists" (runner.py:167): as far as
\* the client lets the worker know.  The echo only answers, so its reply asks nothing of
\* the order.
ReceiversFirst ==
  \A m \in Msg :
    /\ Sender(m) \in Child /\ proc[Sender(m)] # "none"
    /\ ~(m = "in" /\ point.kind = "rtt")
    => Settled(Receiver(m))

\* However the run ends, returned or interrupted, no process it started is alive, the
\* profiler is gone and so are the files it made.
NothingLeftBehind ==
  pc = "over" =>
    /\ \A c \in Child : proc[c] \notin Alive
    /\ capture # "running"
    /\ ~files

\* When the status says valid, the run went to its end, every planned party finished and
\* said so, and the profile that was asked for is there.
PartiesReported ==
  status = "valid" =>
    /\ ending = "normal" /\ starts = <<>>
    /\ \A c \in Planned(point.kind) : said[c] = "ok"
    /\ sampling => sampled

\* When it says valid, what the library claimed to have published was in the broker, and
\* at QoS 1 and 2 what was acknowledged to a publisher arrived, but for the tolerance;
\* and a receiver at a fixed rate took 98 % of 98 % of the offer, so it was subscribed:
\* whatever the library claims, the broker dropped or refused, the probe had last seen,
\* or failed on the way.
NothingLost ==
  LET kind == point.kind
      arrived == flow["in"].received
  IN status = "valid" =>
    /\ Arrived(flow["out"].routed, counts["worker"].done)
    /\ point.qos >= 1 =>
         /\ kind \in {"pub", "duplex"} => Arrived(flow["out"].received, counts["worker"].done)
         /\ kind = "duplex" => Arrived(arrived, counts["peer_source"].done)
         /\ kind = "sub" /\ point.rated => Arrived(arrived, counts["peer"].done)
         /\ kind = "rtt" => Arrived(arrived, counts["peer"].sent)
    /\ point.rated /\ Receives(kind) => 10000 * arrived >= 98 * 98 * Offered

\* The status is not a matter of who reported what: valid means complete.
ValidMeansComplete == PartiesReported /\ NothingLost

\* A run ends, whatever its children do.
RunEnds == <>(pc = "over")
=============================================================================
