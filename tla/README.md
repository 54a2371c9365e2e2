# A verification project for mqtt-python-client-bench

The program measures MQTT client libraries. An orchestrator runs a *campaign*:
for every point of a catalogue, every client and every repetition it starts a
worker process, which drives one library through an adapter against a broker
and a C peer, and it keeps a record of each run with a verdict on its validity.
The numbers are only worth something if the drive offers exactly the load it
claims, if every message is accounted for, if a run that lost something is not
called valid, and if nothing that was recorded is mixed, lost or repeated when a
campaign is interrupted. That is what the modules in this directory state, check
and prove.

## 1. The system

Paths are under `src/src/mqtt_client_bench/`, the C peer excepted.

| Component | Code | State it keeps | Operations | Modelled in |
|---|---|---|---|---|
| Fixed-offer drive, awaited | `bench/drive.py` | spans of credits, the gate, counters, publish times | pacer wake-up, worker turns, end of offer, cancellation | `AwaitedOffer` |
| Fixed-offer drive, ticks | `bench/drive.py`, `adapters/gmqtt_async.py` | five counters, next tick, publish times | tick, publish, return or refusal, completion | `TickOffer` |
| Capacity drives | `bench/drive.py` | tokens, waiter, burst, counters, `stop` | publish, park, complete, `request_stop` | `Capacity` |
| Drive counters | `bench/drive.py` | `sent`, `done`, `failed`, `rejected`, `skipped`, `sends` | callbacks, final snapshot | the three above, `Session` (partly) |
| Worker process | `bench/worker.py` | handshake, timer, snapshots, result | connect, subscribe, GO, drive, drain, disconnect | `Session` (partly) |
| Client adapters | `adapters/*.py` | the library's own, identifiers in flight | `create`, `connect`, `subscribe`, `publish` | `Adapters`, `Session` (partly) |
| Asyncio bridge | `adapters/async_bridge.py` | two queues and a flag under a lock, worker pool, backlog | schedule, drain, dispatch, worker turns, stop | `Bridge` (partly) |
| Run orchestration | `bench/runner.py`, `bench/peer.py` | child processes, readings, files, the record | start, ready, GO, finish, kill, judge | `Run` |
| Broker `$SYS` probe | `bench/sysprobe.py` | latest counters and their age | snapshot, delta | `Run` (partly) |
| Validity checks | `bench/checks.py` | none (a function of a record) | `evaluate`, `status` | `Verdict` |
| Catalogue | `bench/catalog.py` | static table | the points of the suites | `Catalogue` |
| C peer | `src/peer/mqtt_peer.c` | socket, write lock, identifiers, counters | pace, write, read, acknowledge, echo | `Peer` (partly) |
| Campaign and store | `bench/campaign.py` | manifest, one document per client | load, refuse, freeze, measure, retry, finish, crash | `Campaign`, `Plan` |
| Histogram | `bench/histogram.py` | buckets | record, percentile | not modelled: a numerical function |
| Sampling, host, sessions | `bench/session.py`, `sampling.py`, `procstat.py`, `cpus.py` | readings of `/proc` | | not modelled: input and output |
| Environments, CLI | `bench/envs.py`, `runtime.py`, `cli.py` | arguments | | not modelled: no protocol |
| Broker container, reports | `broker.py`, `report/*.py` | | | not modelled: process start, presentation |

How they interact. `run_campaign` calls `run_once` for each key of its plan and
saves the record it returns. `run_once` starts peers and the worker (processes
talking in JSON lines on pipes), tells them all the same `t_start`, and reads
`/proc` and `$SYS` at the edges of the measured window; `evaluate` compares what
the worker, the peers and the broker each counted. The worker runs a *drive*
over an adapter; its `Timer` thread takes snapshots of the drive's counters and,
for a capacity point, stops the drive. An adapter over an asyncio library used
from a synchronous drive goes through the *bridge*: the drive's thread queues
work, the loop's thread runs it and calls `on_publish` back, which advances the
counters the drive reads.

What is hard here:

* two threads on one set of counters: completions may arrive before the call
  that caused them is counted, and refusals take back what was counted early;
* parked coroutines and threads, and the wake-ups that must reach them;
* a schedule that must never be late without saying so;
* a stop that has to work although a library owes no completion;
* packet identifiers a library uses again while an earlier use is unsettled;
* three processes that each may fail to start, die or hang between any two
  lines they exchange, and must be gone afterwards on every path;
* a subscription that has to be in place before anything is sent to it, and
  adapters that do not say what became of it;
* a refusal that is reported twice;
* broker counters that are republished now and then, so that a reading may
  predate the question;
* two threads of the peer writing to one socket that may be full;
* crashes between any two writes of a campaign.

`PROJECT.json` lists each hazard at its line with the property that watches it,
or why none does.

## 2. The modules

| Module | What it is | Checked by | Proved in |
|---|---|---|---|
| `Schedule` | the arithmetic of a fixed offer: `_owed`, `due_ns`, catch-up cap, next tick | the two drives, `Peer` | the drives' proofs and `Peer_proofs` |
| `Offer` | abstract: each message meets one fate, in order | as a PROPERTY of both drives | |
| `AwaitedOffer` | `pub_fixed_awaited`: pacer, spans of credits, worker pool, gate, cancel | `MCAwaitedOffer` | `AwaitedOffer_proofs` |
| `TickOffer` | `pub_fixed_sync` and `pub_fixed_nowait`, the shape chosen initially | `MCTickOffer` | `TickOffer_proofs` |
| `Capacity` | the three closed-loop drives and the Timer that stops them | `MCCapacity` | `Capacity_proofs` |
| `Bridge` | the main thread, the loop's ready queue, drainer, workers, stop | `MCBridge` | `Bridge_proofs` |
| `Catalogue` | the points of all suites, as what they ask of a client and of a run | `MCSession`, `MCRun` | |
| `Adapters` | per client: capabilities, `create`, property profiles, `connect`, SUBACK; the registry's `missing_for_point` | `MCSession`, `MCRun` | |
| `Session` | `run_sync` and `run_async` over each adapter: one client process, from `create` to the result file | `MCSession` | `Session_proofs` |
| `Verdict` | `evaluate()`: the checks with their severities, and the status they give | `MCRun` | |
| `Run` | `run_once` with its children, the broker, the `$SYS` probe and the profiler | `MCRun` | `Run_proofs` |
| `Peer` | the C peer's source (two threads), sink and echo | `MCPeer` | `Peer_proofs` |
| `Plan` | `plan()` as an operator: rotation of the clients over the runs | `MCCampaign` (an ASSUME) | |
| `Ledger` | abstract: verdicts are judged once or retried, nothing is lost, an end when all is judged | as a PROPERTY of `Campaign` | |
| `Campaign` | `run_campaign` and `Store`: the files, the process, its crashes | `MCCampaign` | `Campaign_proofs` |

How they compose: `Run` extends `Verdict` and `Adapters`, which extends
`Catalogue`, so a run is of a real point for a real client and is judged by the
real checks. `Session` is the worker of `Run` in detail. The drives, `Capacity`
and `Bridge` are what a session runs inside. `Campaign` sees of a run only the
status `Run` gives.

### Correspondence with the code

* **One action per atomic step.** For coroutines that is the code between two
  awaits. For a plain thread the step boundary is what another thread can see:
  in `TickOffer` and `Capacity` the library decides a publish (`Call`,
  `SyncCall`) before the drive counts it (`Return`, `SyncReturn`), with a
  completion possible in between. In `Bridge` each locked section is one step;
  between the steps of a loop callback only the main thread moves. In
  `Campaign` a step ends at each write of a file (`tmp.replace(path)`).
* **Time** is an integer advanced by `Elapse`, relative to `t_start`; a wake-up
  may come arbitrarily late, up to `TStop`. `Session` only tells which of the
  four deadlines have passed.
* **Counters** are the attributes of `Run` in `drive.py` (`sent`, `done`,
  `failed`, `rejected`, `skipped`, `sends`). `Capacity` keeps only
  `outstanding`, the one combination its loops read, and `inflight`, what the
  library really holds. An update from another thread is one step: `+= 1` on
  these attributes is taken as atomic.
* **Refusals in `TickOffer`.** The fixed drive's `publish_nowait` refuses by
  returning `None`, and the drive takes `sent` back. gmqtt's also calls
  `on_publish` with 128 within the same call, so `failed` goes up as well
  (`gmqtt_async.py:141-144`, `163-168`; `drive.py:416-419`). `reports` says
  which of the two adapters the drive has, and `Outstanding` says by how much
  `sent - done - failed` is then short: by one for each refusal.
* **`Bridge.ready`** is asyncio's FIFO ready queue, external to the repository.
  `Iterate` fixes how many callbacks an iteration covers, as
  `BaseEventLoop._run_once` does, because `loop.stop` ends the iteration it runs
  in and no other.
* **`Session`** reduces the drive to its publishes, because the loops are in the
  drive modules, and keeps what is between the drive and the library: how each
  adapter answers a publish, by which identifier its completion finds its way
  back, what an exception or a lost connection does to it. In `run_sync` the
  library's callback thread may act between any two steps of the worker; in
  `run_async` only between its awaits. The window snapshots of `Timer` are left
  out; the final one is there. On a loop `wait_for` bounds `disconnect()`
  (`worker.py:283`). In `run_sync` nothing of the worker's does (222-226): awscrt's
  waits ten seconds at most, paho's `loop_stop()` joins the library's thread
  without a timeout. So `Disconnect` may end in `"hung"`, for paho (`MayHang`).
* **`Run`** has two directions of messages, `"out"` from the client and `"in"` to
  it, and counts how many of each were sent, routed, forwarded, dropped and
  received (`flow`), since the checks compare numbers and never tell two messages
  apart. `subscription` is what became of each child's SUBSCRIBE. A C peer that
  receives fails on anything but a grant. A worker whose client waits to be told
  says ready with what that client lets through (`SubscribedAs`): a grant; a
  refusal, where the adapter returns `rc = 0` for one (mqttium, aiomqtt, aiomqtt3,
  amqtt, and awscrt over MQTT 5); nothing at all, where paho's `subscribe()` on a
  lost connection gave no mid and `run_sync` skips its wait. These are the cases
  `Session` has in detail, by the same operators of `Adapters`. A child may
  fail, die, hang or report an error at any step, and a library may claim a
  completion it never had. The user's interrupt comes where `run_once` blocks.
  A `$SYS` reading is a copy of what the broker last published after the
  question; the probe's own messages, which `delta` subtracts, and its 80 ms of
  settling are left out.
* **`Peer`**: a source is `paced` or has no rate (`g_rate` is 0): it then owes a
  batch each time round and never sleeps (`mqtt_peer.c:785-787`, 817). A packet
  crosses the socket in two pieces, so `send()` may take half of it. `lock` is
  `g_write_lock`; the socket is full at `SocketRoom` pieces. The read loop is
  three actions: `Read` is one `rbuf_fill`, which may end inside a packet;
  `Handle` takes one whole packet, counts it and adds its answer to the buffer;
  `Flush` comes when `next_packet` wants more bytes. Between them the main
  thread and the broker move. Handshake, histogram and per-message checks are
  left out.
* **`Campaign`**: `manifest`, `runs`, `unsupported` are the disk; `mem`,
  `memUnsupported`, `book` are the process's copies, lost by `Crash` (and by an
  exception leaving `run_campaign`). A *setting* stands for all that
  `_mismatches` and the `frozen` dictionary compare. `under` is a history
  field: with which setting the record was really measured.
* Definitions commented `Mutant:` are plausible bugs; no module uses them. Each
  is substituted for the definition it is paired with in `PROJECT.json`, to see
  that the property named there fails.

## 3. The runs

| Run | Bounds | Question |
|---|---|---|
| `awaited_offer` | rate 2/3, 7 time units, `MaxDue` 2, 3 workers, 5 messages offered | is every message counted by the schedule published once, in order, on time, or skipped and counted; are workers woken; does the drive end; is it an `Offer` |
| `tick_offer` | same schedule, both shapes | is a message's index, and what is outstanding, what the counters say through skips and refusals, reported once or twice; is it an `Offer` |
| `capacity` | window 5 (low-water mark 4), the three shapes | is the window held, no token and no wake-up lost, and does stop end a drive that waits |
| `bridge` | 5 items, two of them calls, 2 workers | is every item delivered although wake-ups are coalesced, is a backlog taken up, does stop return |
| `session` | every client over every point it declares it can run, 2 publishes, 2 identifiers, every CONNACK and SUBACK | does the subscribe handshake lose a wake-up, does a client do what it declares, do its completions keep the books right, is a result always written, or can a hang keep it back, and where |
| `run` | `paho` over one point of each shape, `mqttium` over a receiving point, `zmqtt` over a round trip, a client that is unsupported; with and without the profiler; 2 messages a direction (1 in a duplex run), a tolerance of 1, an offer of 1 | are receivers subscribed before senders exist as far as they are told, is everything cleaned up on every path, does *valid* mean complete, does a run end |
| `peer` | source (rate 3/2, and without a rate until it has sent 3), sink and echo at each QoS, 4 time units, batches of 2, a socket of 2 pieces, 2 identifiers, 2 deliveries | are packets of two threads ever mixed, are the counters what crossed the socket, is a result always printed |
| `campaign` | 2 points, 2 clients, 2 settings with plans of 3 and 4 keys, 2 crashes | is the directory a `Ledger` under crashes, resumption and foreign settings; does the campaign finish |
| `capacity_gmqtt` | as `capacity`, refusals also reported | *violation*, finding 1 |
| `tick_offer_unsent` | as `tick_offer` | *violation*, finding 2 |
| `bridge_stop` | as `bridge` | *violation*, finding 3 |
| `run_zmqtt` | `zmqtt` over a receiving point | *violation*, finding 4 |

Why the bounds are enough. The schedules are chosen so that every branch is
taken: due times that round up (2 messages per 3 units), a wake-up late by more
than `MaxDue`, a span that continues the last one and one that does not, more
messages than workers. A window of five separates the low-water mark (4) from
the window and lets a burst both fill it and fall short. Three coroutines over
two workers saturate the bridge's pool, and the calls between them make the
drainer go round with only one of its queues filled. Two crashes let a campaign
die, its successor die as well, and a third finish; the two settings' plans
share keys, so that mixing them would show.

In `session`, two publishes over two identifiers let one settle out of order,
be answered late, and let the identifier be used again; the pairs are all those
the registry allows. In `run`, two messages per direction are one
more than the tolerance of 1 forgives (the code's is `5 + n/2000`), so a loss may
be within it or beyond it, at any place between sender and receiver; the second
also stands for the traffic outside the window, which an offer of 1 leaves room
for. What `ValidMeansComplete` asks is stated with the same tolerance as
`evaluate` has, and the theorem about it is for every tolerance, load and offer.
`paho` brings the subscription without a mid, `mqttium` the hidden refusal. In
`peer`, the socket holds less than a batch, so a write stops inside a batch and
the reader meets a locked socket; two identifiers wrap several times within the
run; a wake-up can be late enough to owe more than a batch and to skip.
`UnpacedMax` only keeps the number of messages of a source without a rate finite.

`MCCampaign` writes its plans out and an ASSUME compares them with `Plan`'s:
that is the check of `plan()` itself, rotation and exclusion included.

### Fairness

* Drives: time passes, the event loop runs every ready coroutine and due timer,
  and the main and Timer threads are scheduled. The library owes nothing: no
  fairness is assumed of completions, so `DriveEnds` and `StopEndsDrive` hold
  against a library that stays silent. `AwaitedOffer.Cancel` and
  `Capacity.Cancel` are `asyncio.wait({task}, timeout)` and the `task.cancel()`
  after it in `run_async` (`worker.py:273-277`); in `AwaitedOffer` it
  follows the pacer's end because the loop runs timers in deadline order and the
  pacer's last deadline lies before `t_stop`.
* `Bridge`: the loop thread runs; the main thread finishes what it began
  (`WakeLoop`, teardown, join) but need never schedule or stop. Completions owe
  nothing, so `ScheduledBegins` makes an exception when every worker awaits the
  library. `stop()` joins with a ten-second timeout; the model shows the join
  does not need it as long as callbacks return.
* `Session`: the worker's own steps and time, no more. Broker and library
  promise nothing: each of the worker's waits has a timeout, paho's join at the end excepted, which
  is what `SessionEnds` rests on: the worker writes its result, or it hangs there,
  its measurement over, until the orchestrator kills it (`RunEnds`).
* `Run`: weak fairness of the orchestrator alone. Each of its waits has a
  deadline, so `RunEnds` holds against children that hang and a broker that
  never publishes a counter again.
* `Peer`: both threads are scheduled, a mutex is granted to a thread that keeps
  asking (strong fairness of `Acquire`), and the broker goes on *reading*
  whatever it has yet to write. The last is needed: a broker that stops reading
  while its own writes are blocked would leave the source's main thread in
  `send()` with the lock, and the peer has no timeout there. It is the
  orchestrator's kill, in `Run`, that ends such a peer.
* `Campaign`: the process takes its steps (`run_once` returns whatever its
  children do, which is `RunEnds`), crashes are bounded, and an operator keeps
  resuming with the settings the campaign was started with (strong fairness of
  `Resume`, which is what `--resume` reads back from the manifest). Invocations
  with other settings may come in between.

## 4. What is proved

TLAPS proves the following for every value of the constants allowed by the
modules' assumptions. Each theorem's comment says it in words.

Every safety invariant and every action property that a passing run checks is
among them; so is each of the three refinements. A property that is a
conjunction of parts is sometimes proved part by part, with a weaker hypothesis
where a part allows one.

**The schedule's arithmetic** — `CountedWhenDue`, in `AwaitedOffer_proofs`:
`TotalDue(t) > i` exactly when `t >= DueNs(i)`, that is, the floor in `_owed`
and the ceiling in `due_ns` agree for every rate. The lemma `DivBracket`
brackets integer division; everything else is arithmetic on it. `TickOffer_proofs`
and `Peer_proofs` state the few of these lemmas they need again, so that each
module of proofs stands by itself.

**`AwaitedOffer_proofs`** — for every schedule and every finite pool:
`TypeCorrect`, `GateNeverLosesAWakeup` (`NoLostWakeup`),
`PublishedOnceAndOnTime` (`OnceAndOnTime`), `BooksAlwaysBalance`
(`BooksBalance`) and `DriveImplementsOffer` (initial states map to initial
states, every step to a step or a stutter of `Offer`). The inductive invariant
adds to the type invariant that the spans are non-empty, disjoint and ascending,
lie below `total`, cover only indices never sent, that what was issued and
skipped sums to `total`, and that a credited index is already due.
`NoLostWakeup` needs the gate's state too: a parked worker implies that there is
no credit and that the pacer is not done.

**`TickOffer_proofs`** — for every schedule: `TickTypeCorrect`,
`CountersAlwaysAgree` (`CountersAgree`), `TickPublishesOnceAndOnTime`
(`OnceAndOnTime`) and `TickImplementsOffer`. Here an index is not stored but
recomputed from the counters before each call, so the invariant says what they
are worth between any two steps: `Settled` says that between two ticks they
count all the last one promised, `Range` bounds the index by what is due,
`Untouched` says that nothing from the index on has been handed over. `Reported` ties
the failures of an adapter that reports a refusal twice to those refusals.
Refinement of the same `Offer` follows from these.

**`Capacity_proofs`** — for every window: `CapacityTypeCorrect`, `NoTokenIsLost`
(`TokensConserved`), `ParkedLoopIsWoken` (`NoLostWakeup`) and, for adapters that
report a refusal once (`~RefusalReported`; finding 1 is the other case),
`WindowIsHeld` (`WindowHeld`) and `BooksStayTrue` (`BooksAreTrue`). Of the
strengthening, `Parking` matters most: the wake that stop sends stays queued as
long as the loop is busy, so a loop that parks after the timer has finished
still has it coming. `SlotsBusy` ties the awaited shape's count to its
coroutines.

**`Bridge_proofs`** — for any number of items, calls and workers:
`BridgeTypeCorrect`, `NothingIsStranded` (`WorkIsAttended`), `EachItemIsTraced`
(`ItemsAreTraced`) and its second half by itself, `StopLosesOnlyHands`
(`OnlyHandsAreLost`, the part of finding 3 that is true). The invariant comes in
layers, each proved with those before it. `Flag`: a filled queue has
`drainScheduled` set, and a set flag has someone who will drain. `Pool`: a
backlog means that every worker is busy, and `idle` is exactly the idle workers.
`Ended`: the teardown is ahead of the halt in the loop's FIFO, so a loop that
exits has closed what was queued. `Traced`: each item scheduled so far is in one
of the places the code keeps items. `Counted` makes that *exactly* one without
comparing the places two by two: until the pool closes, the places together hold
all that was scheduled, and their lengths add up to its number, so that nothing
can be in two of them. Each step then only has to move as much out of one
place as it moves into another.

**`Session_proofs`** — for every set of cases, of identifiers, and any number of
publishes: `SessionTypeCorrect`, `OutcomesAlwaysMatch` (`OutcomesMatch`),
`HandshakeIsSound` (`HandshakeSound`) and `AbleAlwaysRuns` (`AbleMeansRuns`: no
point that `missing_for_point` allows fails in `create()` or for want of a
property set). For the handshake the invariant is short: the event is set *last*
by `on_subscribe`, after its entry in `acked`, and the worker clears it only
before looking again, so an acknowledgement noted while it waits finds the event
set, although the clearing may erase one that was set. `OutcomesMatch` needs
`Kept`, which adds `Books` and `Behind`. In `Books`, `Balance` says what the
counters leave outstanding in terms of how many publishes are in which stage;
`Attempts` that every count is of one attempt; `Returns` when a call may be
between the library's answer and the drive's counting of it;
`Identifiers`, for the adapter that finds a completion by its packet identifier,
that the queue of each identifier is as long as there are publishes waiting on
it, so that an identifier used again settles one publish per acknowledgement.
`Behind` says that the final snapshot never runs ahead of the counters.

**`Run_proofs`** — for every set of cases, offered rate and choice of profiling:
`RunTypeCorrect`, `RunsCleanUp` (`NothingLeftBehind`), `SubscribersComeFirst`
(`ReceiversFirst`), `ValidPartiesReported` (`PartiesReported`, for any
tolerance) and `ValidIsComplete` (`ValidMeansComplete`).

* `RunsCleanUp` rests on `Holds`: the processes `run_once` holds are exactly
  those that were started, at each place an exception may come from.
* `SubscribersComeFirst` has a hypothesis, that a client which receives has a
  `subscribe()` that waits to be told; finding 4 shows that it cannot be
  dropped. It says that a receiver's subscription is *settled* before its sender
  exists: granted, or one of the two cases in which the code cannot know better,
  each only for the clients that have it. Its invariants are `Ordered`, what may
  still be in the start queue given who was heard to be ready, and `Granted`, that
  those heard from are settled.
* `ValidIsComplete` has no hypothesis. What it promises of a valid run is what
  remains after the tolerance: an acknowledged message is missing at most as often
  as `tolerance()` allows, and a receiver at a fixed rate took at least 98 % of
  98 % of the offer, so a subscription that was refused or never sent does not
  pass for valid there. Its invariant, `Trail`, is the evidence
  a verdict rests on: nothing was sent before the GO line (`Quiet`); a counter in
  a result is of messages really sent and read (`Told`); a reading of the broker
  is never ahead of it (`Honest`), the first predates every message
  (`Baseline`), and the second is of a run whose children had all started and
  that nothing but the profiler has failed since (`Through`). The theorem then
  takes the checks of `evaluate` one by one and concludes from their passing
  how many messages must have been where.

**`Peer_proofs`** — for every schedule, batch, socket, number of identifiers and
of deliveries: `PeerTypeCorrect`, `FramesStayWhole` (`FramesWhole`) and
`CountsAreHonest` (`CountsHonest`). The central part of the invariant is
`Framing`: the packet the broker is in, then the socket, then what the *holder of
the lock* has yet to write, are together one stream of whole packets, while a
thread that does not hold the lock has whole packets to write or none. That
is why the lock has to cover the loop of `send()` and not each call. `Balances`
equates the counters with packets: what was published and is still ahead (socket
and both threads' buffers) is what was made; what was acknowledged or received and
is still on its way back is at most what the broker completed or delivered; the
PUBRELs and PUBRECs under way are accounted for, so that a QoS 2 handshake is
never counted twice. `Batch` ties the batch being written to `due`, and `Lines`
says that a PUBLISH which needs an identifier has one that is not 0. `Framing`
and `Balances` are equalities while the connection stands, and bounds after it
dropped with what was in it.

**`Campaign_proofs`** — for every plan of distinct keys, any number of attempts
and of crashes: `CampaignTypeCorrect`, `RulesAreFollowed`
(`AttemptsFollowTheRules`), `ManifestStands` (`ManifestIsTrue`) and
`CampaignImplementsLedger`. The inductive invariant `IInv` is the conjunction of
`Synced` (past loading, memory and disk agree), `Blank` and `Adopted` (what a
directory without and with a manifest holds), `Declared`, `Passing` (what the
pass in progress may assume of each key's attempts) and `Books` (the properties
of the disk). `Passing` is the part that is not obvious: a pass is computed
once, at its start, and stays right while records are appended because a key
occurs in the plan once.

The assumptions: `ScheduleAssumption` (positive rate and tick; the drain
outlasts a tick, as every profile's does), `WorkersAssumption` (a finite pool),
`CapacityAssumption` (a positive window), `BridgeAssumption`,
`RunAssumption` and `CasesAssumption` (the cases are clients of the registry over
points of the catalogue), `CampaignAssumption` (among others that the keys of a
plan are distinct: a command line that names one client twice breaks it, and such
a key is then measured twice in a pass), `VerdictAssumption`,
`MessagesAssumption`, `IdsAssumption`, `PeerAssumption`. TLC evaluates each on
the instance it checks.

Three theorems have a hypothesis of their own, in their statement:
`~RefusalReported` for `WindowIsHeld` and `BooksStayTrue`, an awaited
`subscribe()` for `SubscribersComeFirst`. They are what findings 1 and 4 are
about, and hold on instances the runs check.

**Only model-checked**

* liveness: `DriveEnds` of both drives, `StopEndsDrive`, `ScheduledBegins`,
  `StopReturns`, `SessionEnds`, `RunEnds`, `PeerEnds`, `CampaignFinishes`. The
  prover does not reason about fairness and ENABLED;
* `Plan`, on the two settings of `MCCampaign`: it is a fold over sequences, out
  of the prover's reach;
* the four violations, which are statements about particular behaviours.

## 5. Findings

1. `capacity_gmqtt`: `publish_nowait` of the gmqtt adapter reports a failed
   publish twice, by returning `None` and through `on_publish`. The drive then
   takes `sent` back *and* counts a failure, believes one publish fewer is outstanding
   than is, and exceeds the window that `SCENARIOS.md` promises.
2. `tick_offer_unsent`: `make(index)` stamps `sends[index]` before the library
   has accepted the message; a refused one keeps its stamp although `UNSENT`
   "marks offered messages never published".
3. `bridge_stop`: `stop()` closes undelivered coroutines in `_pending` and
   `_ready`; one just given to a worker that is cancelled before its next step is
   neither entered nor closed. The theorem `StopLosesOnlyHands` shows that this
   is the only case.
4. `run_zmqtt`: `runner.py` says that whatever receives subscribes before
   whatever sends exists. The zmqtt adapter's `asubscribe` returns as soon as it
   has started a task that will subscribe, so its worker says it is ready, and
   the sending peer is started, with no subscription in the broker yet. gmqtt
   returns without waiting for its SUBACK as well. The messages sent before the
   subscription are not in the worker's counts.

Observations that are no findings, because they contradict no doc or because
what they would need is outside the model:

* Under saturation the bridge does not begin coroutines in the order they were
  scheduled. One in the hand of a worker that has not been stepped yet is overtaken
  by a later one that a worker just set free takes from the backlog.
* `CHECK_DOCS` in `checks.py` explains that a loss without drops makes a run
  invalid; for a round trip `no_loss` has the severity *not sustained* in every
  case.
* At QoS 0 nothing `evaluate` compares tells a subscription that was missing for
  a while from messages that were dropped.
* A comment in `gmqtt_async.py` (146-150) says that an older gmqtt takes the
  awaited path; the code raises once the message is on the wire, reports a
  failure, and the PUBACK that follows reports a completion. `Session` has the
  gmqtt builds that offer `push_message_nowait`.
* The asyncio adapters never return a reason code of 128 or more from
  `subscribe`, so the worker's `subscribe_refused` cannot come from them; nor from
  awscrt over MQTT 5, whose callback only asks whether the future raised
  (`awscrt.py:325-329`).
* A receiving run without a rate whose subscription was refused behind the
  adapter, or never sent for want of a mid, receives nothing and may still be
  valid, unless the point has filters: `no_loss` is not asked there, and the delivery
  check only asks that no more was received than the broker sent. At a rate
  `client_kept_up` catches it.
* gmqtt's doubly reported refusals leave a fixed drive's `sent - done - failed`
  short by one each, so the drain after `t_end` may stop waiting for publishes
  still outstanding.
* paho's `loop_stop()` may hang, and the worker's result is then lost although its
  measurement was complete: the orchestrator kills it and the run is invalid.

## 6. What is left out

Abstracted everywhere: payloads, topics, properties, formatting, logging.

Assumed: one invocation per results directory at a time; a file is replaced in
one step; one thread schedules on a bridge (every adapter's case while
measuring); the event loop's ready queue is FIFO; a publish that paho refuses is
never completed by it; `run.failed += 1` and its like are atomic, although two
threads do it.

Not modelled:

* `AsyncioBridge.run` and `create_task`, scheduling from the loop's own thread and
  a restart after `stop`; the synchronous facades over asyncio adapters, which
  only the tests use; message pumps and callback dispatch; `native.py`;
* snapshots of the counters taken while they move (`Timer`'s, at the window's
  edges): the differences they give are left free in `Run`, within what was
  counted;
* the receiving side of a drive (`receive_callback`), `window_lags`'s histogram,
  and `routed_publish`'s choice of topic and alias. The alias is marked
  established before the first publish is known to have left; what would follow
  happens in the broker, and is listed as a hazard without a property;
* the peer's handshake, histogram and per-message checks;
* `noise_summary`, `estimate_s`, placement on CPUs, argument vectors, and the
  record's presentation;
* the histogram, host sampling, environments and the command line, the broker's
  container, the reports: the reasons are in `PROJECT.json`.

What could come next: the window snapshots against their writers; `Session`
with a whole drive inside it instead of its publishes; a refinement from
`Session` to the worker as `Run` sees it; the receiving side's histogram of lags.
