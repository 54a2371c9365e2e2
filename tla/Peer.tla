-------------------------------- MODULE Peer --------------------------------
(***************************************************************************)
(* peer/mqtt_peer.c: the C peer, after its handshake.  A source has two    *)
(* threads: the main one paces and writes PUBLISHes, the reader counts the *)
(* acknowledgements and answers PUBRECs; both write through write_all(),   *)
(* under one lock, to a socket that takes what it has room for.  A sink or *)
(* an echo is one read loop.  A packet crosses the socket in two pieces,   *)
(* so a write or a read may stop inside it.  The broker is external: it    *)
(* reads whatever it has to write, and may drop the connection.            *)
(***************************************************************************)
EXTENDS Schedule, Sequences, FiniteSets, Functions

CONSTANTS
  TMeasure,    \* start of the measured window
  BatchMax,    \* PUBLISHes in one write
  MaxPid,      \* largest packet identifier: 65535
  SocketRoom,  \* pieces the socket's send buffer holds
  Deliveries,  \* messages the broker has for a sink or an echo
  UnpacedMax   \* a source with no rate starts no batch after so many messages: a bound

ASSUME PeerAssumption ==
  /\ TMeasure \in Nat /\ BatchMax \in Nat \ {0} /\ MaxPid \in Nat \ {0}
  /\ SocketRoom \in Nat \ {0} /\ Deliveries \in Nat /\ UnpacedMax \in Nat

VARIABLES
  mode, qos,   \* of this peer
  paced,       \* it has a rate: g_rate # 0
  clock, up,   \* time since t_start; the connection stands
  pc,          \* where each thread is
  lock,        \* the holder of g_write_lock, or "free"
  pending,     \* what each thread still has to write
  nextTick, due, skipped, batch, stamped,   \* run_source's locals; the batch's size and stamp
  pid,         \* the last packet identifier used
  rb,          \* pieces read and not yet handled
  sent, sentWindow, acked, received, echoed,   \* the counters
  error,       \* g_error
  toBroker, toPeer,   \* what is in the socket, each way
  half,        \* broker: the packet it has the first piece of
  delivered,   \* broker: messages it has sent the peer
  published,   \* broker: PUBLISHes it has read
  completed,   \* broker: handshakes it has completed towards the peer
  garbled      \* broker: pieces of two packets came mixed

pacing == <<nextTick, due, skipped, batch, stamped>>
counters == <<sent, sentWindow, acked, received, echoed>>
broker == <<half, delivered, published, completed, garbled>>
vars == <<mode, qos, paced, clock, up, pc, lock, pending, pacing, pid, rb, counters, error,
          toBroker, toPeer, broker>>

Threads == {"main", "reader"}

\* max_due: what one wake-up may owe.
DueMax == IF paced THEN MaxDue ELSE BatchMax

Types == {"PUBLISH", "PUBACK", "PUBREC", "PUBREC refused", "PUBREL", "PUBCOMP"}
Packets == [type : Types, pid : 0 .. MaxPid]
Packet(type, id) == [type |-> type, pid |-> id]
NoPacket == Packet("PUBLISH", -1)

\* A packet on the wire: its head (fixed header and length) and its body.
Pieces(packets) ==
  [i \in 1 .. 2 * Len(packets) |-> <<packets[(i + 1) \div 2], IF i % 2 = 1 THEN 1 ELSE 2>>]
PieceSet == Packets \X {1, 2}

TypeOK ==
  /\ mode \in {"source", "sink", "echo"} /\ qos \in 0 .. 2 /\ paced \in BOOLEAN
  /\ clock \in Time /\ up \in BOOLEAN
  /\ pc["main"] \in {"asleep", "filling", "locking", "writing", "joining", "printed"}
  /\ pc["reader"] \in {"reading", "handling", "locking", "writing", "ended"}
  /\ lock \in Threads \cup {"free"}
  /\ \A t \in Threads : Range(pending[t]) \subseteq PieceSet
  /\ nextTick \in Nat /\ due \in 0 .. DueMax /\ skipped \in Nat /\ batch \in 0 .. BatchMax
  /\ stamped \in BOOLEAN
  /\ pid \in 0 .. MaxPid
  /\ Range(rb) \subseteq PieceSet /\ (pc["reader"] # "handling" => Len(rb) <= 1)
  /\ {sent, sentWindow, acked, received, echoed} \subseteq Nat
  /\ error \in {"", "send", "recv"}
  /\ Range(toBroker) \cup Range(toPeer) \subseteq PieceSet /\ Len(toBroker) <= SocketRoom
  /\ \A piece \in Range(toBroker) : piece[1].type = "PUBLISH" /\ qos > 0 => piece[1].pid # 0
  /\ half \in Packets \cup {NoPacket} /\ delivered \in 0 .. Deliveries
  /\ published \in Nat /\ completed \in Nat /\ garbled \in BOOLEAN

\* Connected, subscribed, and given the schedule.
Init ==
  /\ mode \in {"source", "sink", "echo"} /\ qos \in 0 .. 2
  /\ paced \in BOOLEAN /\ (mode # "source" => ~paced)
  /\ clock = 0 /\ up = TRUE
  /\ pc = [t \in Threads |-> IF t = "reader" THEN "reading"
                              ELSE IF mode = "source" THEN "asleep" ELSE "joining"]
  /\ lock = "free" /\ pending = [t \in Threads |-> <<>>]
  /\ nextTick = 0 /\ due = 0 /\ skipped = 0 /\ batch = 0 /\ stamped = FALSE
  /\ pid = 0 /\ rb = <<>>
  /\ sent = 0 /\ sentWindow = 0 /\ acked = 0 /\ received = 0 /\ echoed = 0
  /\ error = ""
  /\ toBroker = <<>> /\ toPeer = <<>>
  /\ half = NoPacket /\ delivered = 0 /\ published = 0 /\ completed = 0 /\ garbled = FALSE

Elapse ==
  /\ clock < TStop
  /\ clock' = clock + 1
  /\ UNCHANGED <<mode, qos, paced, up, pc, lock, pending, pacing, pid, rb, counters, error,
                 toBroker, toPeer, broker>>

\* fail(): the first error is the one reported.
Failed(what) == IF error = "" THEN what ELSE error

-----------------------------------------------------------------------------
(* write_all. *)

\* pthread_mutex_lock.
Acquire(t) ==
  /\ pc[t] = "locking" /\ lock = "free"
  /\ lock' = t /\ pc' = [pc EXCEPT ![t] = "writing"]
  /\ UNCHANGED <<mode, qos, paced, clock, up, pending, pacing, pid, rb, counters, error,
                 toBroker, toPeer, broker>>

\* Mutant: the lock covers one send(), not the loop.
WriteLockedPerSend(t) ==
  /\ pc[t] = "writing" /\ lock = t /\ up /\ pending[t] # <<>>
  /\ Len(toBroker) < SocketRoom
  /\ toBroker' = Append(toBroker, Head(pending[t]))
  /\ pending' = [pending EXCEPT ![t] = Tail(@)]
  /\ IF pending'[t] = <<>> THEN UNCHANGED <<lock, pc>>
     ELSE lock' = "free" /\ pc' = [pc EXCEPT ![t] = "locking"]
  /\ UNCHANGED <<mode, qos, paced, clock, up, pacing, pid, rb, counters, error, toPeer, broker>>

\* send() takes what there is room for, and blocks while there is none.
Write(t) ==
  /\ pc[t] = "writing" /\ lock = t /\ up /\ pending[t] # <<>>
  /\ Len(toBroker) < SocketRoom
  /\ toBroker' = Append(toBroker, Head(pending[t]))
  /\ pending' = [pending EXCEPT ![t] = Tail(@)]
  /\ UNCHANGED <<mode, qos, paced, clock, up, pc, lock, pacing, pid, rb, counters, error,
                 toPeer, broker>>

\* All is written; the source counts its batch only now.
Written(t) ==
  /\ pc[t] = "writing" /\ pending[t] = <<>>
  /\ lock' = "free"
  /\ IF t = "main"
     THEN /\ pc' = [pc EXCEPT !.main = "filling"]
          /\ sent' = sent + batch
          /\ sentWindow' = IF stamped THEN sentWindow + batch ELSE sentWindow
          /\ due' = due - batch /\ batch' = 0
     ELSE /\ pc' = [pc EXCEPT !.reader = "reading"]
          /\ UNCHANGED <<sent, sentWindow, due, batch>>
  /\ UNCHANGED <<mode, qos, paced, clock, up, pending, nextTick, skipped, stamped, pid, rb,
                 acked, received, echoed, error, toBroker, toPeer, broker>>

\* Mutant: the error path returns without unlocking.
WriteErrorLocked(t) ==
  /\ pc[t] = "writing" /\ ~up /\ pending[t] # <<>>
  /\ pending' = [pending EXCEPT ![t] = <<>>]
  /\ pc' = [pc EXCEPT ![t] = IF t = "main" THEN "joining" ELSE "ended"]
  /\ error' = IF t = "reader" /\ mode = "source" THEN error ELSE Failed("send")
  /\ UNCHANGED <<mode, qos, paced, clock, up, lock, pacing, pid, rb, counters, toBroker,
                 toPeer, broker>>

\* send() fails: the main thread says so and leaves; the source's reader just leaves.
WriteError(t) ==
  /\ pc[t] = "writing" /\ ~up /\ pending[t] # <<>>
  /\ lock' = "free"
  /\ pending' = [pending EXCEPT ![t] = <<>>]
  /\ pc' = [pc EXCEPT ![t] = IF t = "main" THEN "joining" ELSE "ended"]
  /\ error' = IF t = "reader" /\ mode = "source" THEN error ELSE Failed("send")
  /\ UNCHANGED <<mode, qos, paced, clock, up, pacing, pid, rb, counters, toBroker, toPeer,
                 broker>>
-----------------------------------------------------------------------------
(* run_source: the main thread. *)

\* Mutant: the identifier wraps one late.
NthPidLate(n) == (pid + n) % (MaxPid + 1)

\* The n-th identifier from here: after the largest comes 1.
NthPid(n) == ((pid + n - 1) % MaxPid) + 1

InMeasured(t) == TMeasure <= t /\ t < TEnd

\* A tick: what is owed, no more than MaxDue of it, or with no rate a batch, at once;
\* past t_end the thread joins the reader.
Wake ==
  /\ pc["main"] = "asleep" /\ nextTick <= clock
  /\ \/ /\ InWindow(clock) /\ paced
        /\ LET owed == TotalDue(clock) - sent - skipped
               over == IF owed > MaxDue THEN owed - MaxDue ELSE 0
           IN /\ due' = IF owed > 0 THEN owed - over ELSE 0
              /\ skipped' = skipped + over
        /\ nextTick' = NextTick(nextTick, clock)
        /\ pc' = [pc EXCEPT !.main = "filling"]
     \/ /\ InWindow(clock) /\ ~paced /\ sent < UnpacedMax
        /\ due' = BatchMax
        /\ pc' = [pc EXCEPT !.main = "filling"]
        /\ UNCHANGED <<skipped, nextTick>>
     \/ /\ ~InWindow(clock)
        /\ pc' = [pc EXCEPT !.main = "joining"]
        /\ UNCHANGED <<due, skipped, nextTick>>
  /\ UNCHANGED <<mode, qos, paced, clock, up, lock, pending, batch, stamped, pid, rb, counters,
                 error, toBroker, toPeer, broker>>

\* Mutant: a batch is counted when it is filled.
FillCounting ==
  /\ pc["main"] = "filling" /\ due > 0
  /\ batch' = 1 /\ stamped' = InMeasured(clock) /\ sent' = sent + 1
  /\ pid' = IF qos > 0 THEN NthPid(1) ELSE 0
  /\ pending' = [pending EXCEPT !.main = Pieces(<<Packet("PUBLISH", pid')>>)]
  /\ pc' = [pc EXCEPT !.main = "locking"]
  /\ UNCHANGED <<mode, qos, paced, clock, up, lock, nextTick, due, skipped, rb, sentWindow,
                 acked, received, echoed, error, toBroker, toPeer, broker>>

\* Up to a batch of PUBLISHes, stamped together, each with its own identifier.
Fill ==
  /\ pc["main"] = "filling" /\ due > 0
  /\ batch' = IF due > BatchMax THEN BatchMax ELSE due
  /\ stamped' = InMeasured(clock)
  /\ LET id(i) == IF qos > 0 THEN NthPid(i) ELSE 0
     IN /\ pid' = id(batch')
        /\ pending' = [pending EXCEPT !.main =
                         Pieces([i \in 1 .. batch' |-> Packet("PUBLISH", id(i))])]
  /\ pc' = [pc EXCEPT !.main = "locking"]
  /\ UNCHANGED <<mode, qos, paced, clock, up, lock, nextTick, due, skipped, rb, counters, error,
                 toBroker, toPeer, broker>>

\* Nothing more is owed: sleep until the next tick, which with no rate is now.
Rest ==
  /\ pc["main"] = "filling" /\ due = 0
  /\ pc' = [pc EXCEPT !.main = "asleep"]
  /\ UNCHANGED <<mode, qos, paced, clock, up, lock, pending, pacing, pid, rb, counters, error,
                 toBroker, toPeer, broker>>

\* The loop is over and, for a source, the reader joined: DISCONNECT, and the result.
PrintResult ==
  /\ pc["main"] = "joining" /\ pc["reader"] = "ended" /\ lock = "free"
  /\ pc' = [pc EXCEPT !.main = "printed"]
  /\ UNCHANGED <<mode, qos, paced, clock, up, lock, pending, pacing, pid, rb, counters, error,
                 toBroker, toPeer, broker>>

-----------------------------------------------------------------------------
(* source_reader and run_receiver: the read loop. *)

\* rbuf_fill() returns some of what has come, which may end inside a packet.
Read ==
  /\ pc["reader"] = "reading" /\ clock < TStop /\ up
  /\ \E k \in 1 .. Len(toPeer) :
       /\ rb' = rb \o SubSeq(toPeer, 1, k)
       /\ toPeer' = SubSeq(toPeer, k + 1, Len(toPeer))
  /\ pc' = [pc EXCEPT !.reader = "handling"]
  /\ UNCHANGED <<mode, qos, paced, clock, up, lock, pending, pacing, pid, counters, error,
                 toBroker, broker>>

\* put_ack: what acknowledges a packet.
Ack(p) ==
  CASE p.type = "PUBREC" -> <<Packet("PUBREL", p.pid)>>
    [] p.type = "PUBREL" /\ mode # "source" -> <<Packet("PUBCOMP", p.pid)>>
    [] p.type = "PUBLISH" /\ mode # "source" /\ qos = 1 -> <<Packet("PUBACK", p.pid)>>
    [] p.type = "PUBLISH" /\ mode # "source" /\ qos = 2 -> <<Packet("PUBREC", p.pid)>>
    [] OTHER -> <<>>

\* The same message on the reply topic, with an identifier of its own.
Echo(p) ==
  IF mode = "echo" /\ p.type = "PUBLISH"
  THEN <<Packet("PUBLISH", IF qos > 0 THEN NthPid(1) ELSE 0)>> ELSE <<>>

\* next_packet() has a whole one: it is counted, and its answers kept for the flush.
Handle ==
  /\ pc["reader"] = "handling" /\ Len(rb) >= 2
  /\ rb' = SubSeq(rb, 3, Len(rb))
  /\ LET p    == rb[2][1]
         came == p.type = "PUBLISH" /\ mode # "source"
     IN /\ acked' = IF p.type \in {"PUBACK", "PUBCOMP"} THEN acked + 1 ELSE acked
        /\ received' = IF came THEN received + 1 ELSE received
        /\ echoed' = IF came /\ mode = "echo" THEN echoed + 1 ELSE echoed
        /\ pid' = IF came /\ mode = "echo" /\ qos > 0 THEN NthPid(1) ELSE pid
        /\ pending' = [pending EXCEPT !.reader = (@ \o Pieces(Ack(p))) \o Pieces(Echo(p))]
  /\ UNCHANGED <<mode, qos, paced, clock, up, pc, lock, pacing, sent, sentWindow, error,
                 toBroker, toPeer, broker>>

\* More bytes are needed: the answers, if any, are written at once.
Flush ==
  /\ pc["reader"] = "handling" /\ Len(rb) < 2
  /\ pc' = [pc EXCEPT !.reader = IF pending["reader"] = <<>> THEN "reading" ELSE "locking"]
  /\ UNCHANGED <<mode, qos, paced, clock, up, lock, pending, pacing, pid, rb, counters, error,
                 toBroker, toPeer, broker>>

\* The connection is gone: a receiver says so, the source's reader does not.
ReadError ==
  /\ pc["reader"] = "reading" /\ clock < TStop /\ ~up
  /\ pc' = [pc EXCEPT !.reader = "ended"]
  /\ error' = IF mode = "source" THEN error ELSE Failed("recv")
  /\ UNCHANGED <<mode, qos, paced, clock, up, lock, pending, pacing, pid, rb, counters,
                 toBroker, toPeer, broker>>

\* t_stop.
StopReading ==
  /\ pc["reader"] = "reading" /\ clock = TStop
  /\ pc' = [pc EXCEPT !.reader = "ended"]
  /\ UNCHANGED <<mode, qos, paced, clock, up, lock, pending, pacing, pid, rb, counters, error,
                 toBroker, toPeer, broker>>

-----------------------------------------------------------------------------
(* The broker. *)

\* What the broker answers a packet with; on MQTT 5 it may refuse a QoS 2 PUBLISH.
Reply(p) ==
  CASE p.type = "PUBLISH" /\ qos = 1 -> {<<Packet("PUBACK", p.pid)>>}
    [] p.type = "PUBLISH" /\ qos = 2 -> {<<Packet("PUBREC", p.pid)>>, <<Packet("PUBREC refused", p.pid)>>}
    [] p.type = "PUBREL"             -> {<<Packet("PUBCOMP", p.pid)>>}
    [] p.type = "PUBREC"             -> {<<Packet("PUBREL", p.pid)>>}
    [] OTHER                         -> {<<>>}

\* The broker reads a piece; a second one completes the packet of the first.
BrokerReads ==
  /\ up /\ toBroker # <<>>
  /\ toBroker' = Tail(toBroker)
  /\ LET p == Head(toBroker)[1]  part == Head(toBroker)[2] IN
     IF part = 1
     THEN /\ half' = p /\ garbled' = (garbled \/ half # NoPacket)
          /\ UNCHANGED <<published, completed, toPeer>>
     ELSE /\ half' = NoPacket /\ garbled' = (garbled \/ half # p)
          /\ published' = IF p.type = "PUBLISH" THEN published + 1 ELSE published
          /\ \E reply \in Reply(p) :
               /\ toPeer' = toPeer \o Pieces(reply)
               /\ completed' = IF reply # <<>> /\ reply[1].type \in {"PUBACK", "PUBCOMP"}
                               THEN completed + 1 ELSE completed
  /\ UNCHANGED <<mode, qos, paced, clock, up, pc, lock, pending, pacing, pid, rb, counters,
                 error, delivered>>

\* The broker forwards a message to a sink or an echo.
BrokerDelivers ==
  /\ up /\ mode # "source" /\ delivered < Deliveries
  /\ delivered' = delivered + 1
  /\ toPeer' = toPeer \o Pieces(<<Packet("PUBLISH", IF qos > 0 THEN (delivered % MaxPid) + 1 ELSE 0)>>)
  /\ UNCHANGED <<mode, qos, paced, clock, up, pc, lock, pending, pacing, pid, rb, counters,
                 error, toBroker, half, published, completed, garbled>>

\* The connection drops, with what was in it.
Drop ==
  /\ up /\ up' = FALSE
  /\ toBroker' = <<>> /\ toPeer' = <<>>
  /\ UNCHANGED <<mode, qos, paced, clock, pc, lock, pending, pacing, pid, rb, counters, error,
                 broker>>

Printed == pc["main"] = "printed" /\ UNCHANGED vars

MainStep == Wake \/ Fill \/ Rest \/ PrintResult
ReaderStep == Read \/ Handle \/ Flush \/ ReadError \/ StopReading
WriteStep(t) == Acquire(t) \/ Write(t) \/ Written(t) \/ WriteError(t)

Next ==
  \/ Elapse
  \/ MainStep
  \/ ReaderStep
  \/ \E t \in Threads : WriteStep(t)
  \/ BrokerReads \/ BrokerDelivers \/ Drop
  \/ Printed

\* Both threads run, a mutex is granted to who keeps asking, and the broker goes on
\* reading whatever it has yet to write.
Spec == Init /\ [][Next]_vars
FairSpec ==
  /\ Spec
  /\ WF_vars(Elapse) /\ WF_vars(MainStep) /\ WF_vars(ReaderStep) /\ WF_vars(BrokerReads)
  /\ \A t \in Threads : SF_vars(Acquire(t)) /\ WF_vars(WriteStep(t))

-----------------------------------------------------------------------------
(* Properties. *)

\* Two threads write to one socket, each in as many send() calls as it takes: the
\* broker never finds a packet of one inside a packet of the other.
FramesWhole == ~garbled

WholeIn(pieces, types) ==
  Cardinality({i \in DOMAIN pieces : pieces[i][2] = 2 /\ pieces[i][1].type \in types})

\* The counters the run is judged by.  A publish is counted sent only when all of it is
\* in the socket, an acknowledgement only when the broker gave it, and a message received
\* only when it came; with no error to report, a source's count is what the broker has
\* read or has still to read, and no more was acknowledged.
CountsHonest ==
  /\ sentWindow <= sent
  /\ acked <= completed
  /\ received <= delivered
  /\ mode = "source" /\ up => sent <= published + WholeIn(toBroker, {"PUBLISH"})
  /\ mode = "source" /\ pc["main"] = "printed" /\ error = "" =>
       /\ acked <= sent
       /\ up => sent = published + WholeIn(toBroker, {"PUBLISH"})
  /\ mode = "echo" /\ up /\ pc["reader"] \in {"reading", "ended"} =>
       echoed = published + WholeIn(toBroker, {"PUBLISH"})

\* The peer prints its result, whatever the broker answers or drops.
PeerEnds == <>(pc["main"] = "printed")
=============================================================================
