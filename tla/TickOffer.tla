----------------------------- MODULE TickOffer ------------------------------
(***************************************************************************)
(* pub_fixed_sync and pub_fixed_nowait (bench/drive.py 275-330, 403-423):  *)
(* a fixed offer over a client that admits a publish synchronously.  Each  *)
(* tick the loop asks _owed how many messages the schedule is ahead of the *)
(* counters, and publishes that range of indices.  The index of a message  *)
(* is derived from the counters, so they must agree with what was handed   *)
(* over.  In the sync shape completions run on the library's own thread,   *)
(* possibly before publish() returns; in the nowait shape they run inline  *)
(* or on the event loop, between ticks.  gmqtt's publish_nowait answers a  *)
(* message it cannot take twice: on_publish(128) and then None.            *)
(***************************************************************************)
EXTENDS Schedule, FiniteSets

VARIABLES
  clock,      \* monotonic_ns() - t_start
  shape,      \* "sync" | "nowait", fixed for the run
  reports,    \* the adapter reports a refusal through on_publish too (gmqtt), fixed as well
  pc,         \* where the drive loop is
  nextTick,   \* next_tick
  index,      \* the message in hand, or the next one of the range
  limit,      \* first + owed, the end of the range
  sent, done, failed, rejected, skipped,   \* the counters of Run
  sends,      \* Run.sends: publish time of each message
  inflight,   \* publishes the library accepted and has not completed
  refused     \* history: the messages the library refused

counters == <<sent, done, failed, rejected, skipped>>
vars == <<clock, shape, reports, pc, nextTick, index, limit, counters, sends, inflight, refused>>

InCall == {"accepted", "refused"}   \* the library has decided, publish() has not returned

TypeOK ==
  /\ clock \in Time
  /\ shape \in {"sync", "nowait"} /\ reports \in BOOLEAN /\ (reports => shape = "nowait")
  /\ pc \in {"asleep", "bursting", "ended"} \cup InCall
  /\ nextTick \in Nat
  /\ index \in 0 .. Offered /\ limit \in 0 .. Offered
  /\ sent \in Nat /\ done \in Nat /\ failed \in Nat /\ rejected \in Nat /\ skipped \in Nat
  /\ sends \in [Index -> Time \cup {UNSENT}]
  /\ inflight \in Nat
  /\ refused \subseteq Index

Init ==
  /\ clock = 0 /\ shape \in {"sync", "nowait"}
  /\ reports \in BOOLEAN /\ (reports => shape = "nowait")
  /\ pc = "asleep" /\ nextTick = 0 /\ index = 0 /\ limit = 0
  /\ sent = 0 /\ done = 0 /\ failed = 0 /\ rejected = 0 /\ skipped = 0
  /\ sends = [i \in Index |-> UNSENT]
  /\ inflight = 0 /\ refused = {}

Elapse ==
  /\ clock < TStop
  /\ clock' = clock + 1
  /\ UNCHANGED <<shape, reports, pc, nextTick, index, limit, counters, sends, inflight,
                 refused>>

\* _owed before its cap: the schedule's count less what the counters hold.
Due(now) == TotalDue(now) - sent - rejected - skipped

\* Mutant: refusals are left out of the count.
FirstForgettingRefusals(skips) == sent + skips

\* The first index of the range, the skipped ones included.
First(skips) == sent + rejected + skips

\* The loop wakes: _owed, then the range of indices to publish.
Wake ==
  /\ pc = "asleep" /\ nextTick <= clock /\ InWindow(clock)
  /\ LET over == IF Due(clock) > MaxDue THEN Due(clock) - MaxDue ELSE 0
     IN /\ skipped' = skipped + over
        /\ index' = First(skipped')
        /\ limit' = index' + Due(clock) - over
  /\ pc' = "bursting"
  /\ nextTick' = NextTick(nextTick, clock)
  /\ UNCHANGED <<clock, shape, reports, sent, done, failed, rejected, sends, inflight, refused>>

\* publish(topic, make(index), qos): make stamps the message, then the library
\* accepts or refuses it.  The nowait shape counts it sent beforehand; where the refusal
\* is reported, on_publish counts it failed within the call.
Call(verdict) ==
  /\ pc = "bursting" /\ index < limit
  /\ sends' = [sends EXCEPT ![index] = clock]
  /\ pc' = verdict
  /\ inflight' = IF verdict = "accepted" THEN inflight + 1 ELSE inflight
  /\ sent' = IF shape = "nowait" THEN sent + 1 ELSE sent
  /\ failed' = IF verdict = "refused" /\ reports THEN failed + 1 ELSE failed
  /\ UNCHANGED <<clock, shape, reports, nextTick, index, limit, done, rejected, skipped,
                 refused>>

\* Mutant: a refusal does not take the early count back.
ReturnWithoutRollback ==
  /\ pc \in InCall
  /\ \/ /\ pc = "accepted"
        /\ sent' = IF shape = "sync" THEN sent + 1 ELSE sent
        /\ UNCHANGED <<rejected, refused>>
     \/ /\ pc = "refused"
        /\ rejected' = rejected + 1
        /\ refused' = refused \cup {index}
        /\ UNCHANGED sent
  /\ index' = index + 1
  /\ pc' = "bursting"
  /\ UNCHANGED <<clock, shape, reports, nextTick, limit, done, failed, skipped, sends,
                 inflight>>

\* publish() returns: rc == 0 or a mid, or a refusal.
Return ==
  /\ pc \in InCall
  /\ \/ /\ pc = "accepted"
        /\ sent' = IF shape = "sync" THEN sent + 1 ELSE sent
        /\ UNCHANGED <<rejected, refused>>
     \/ /\ pc = "refused"
        /\ rejected' = rejected + 1
        /\ refused' = refused \cup {index}
        /\ sent' = IF shape = "nowait" THEN sent - 1 ELSE sent
  /\ index' = index + 1
  /\ pc' = "bursting"
  /\ UNCHANGED <<clock, shape, reports, nextTick, limit, done, failed, skipped, sends,
                 inflight>>

\* The range is done: sleep until the next tick.
Rest ==
  /\ pc = "bursting" /\ index = limit
  /\ pc' = "asleep"
  /\ UNCHANGED <<clock, shape, reports, nextTick, index, limit, counters, sends, inflight,
                 refused>>

\* Mutant: the clock is never compared with t_end.
ExitNever == FALSE /\ UNCHANGED vars

\* A wake-up at or past t_end leaves the loop.
Exit ==
  /\ pc = "asleep" /\ nextTick <= clock /\ ~InWindow(clock)
  /\ pc' = "ended"
  /\ UNCHANGED <<clock, shape, reports, nextTick, index, limit, counters, sends, inflight,
                 refused>>

\* Mutant: a failure reason code is counted as done as well.
CompleteTwice ==
  /\ inflight > 0
  /\ inflight' = inflight - 1
  /\ done' = done + 1
  /\ failed' \in {failed, failed + 1}
  /\ UNCHANGED <<clock, shape, reports, pc, nextTick, index, limit, sent, rejected, skipped,
                 sends, refused>>

\* on_publish: at any moment on the sync library's thread; within the call (QoS 0)
\* or while the loop sleeps in the nowait shape.
Complete ==
  /\ inflight > 0
  /\ shape = "nowait" => pc \in {"accepted", "asleep", "ended"}
  /\ inflight' = inflight - 1
  /\ \/ done' = done + 1 /\ UNCHANGED failed
     \/ failed' = failed + 1 /\ UNCHANGED done
  /\ UNCHANGED <<clock, shape, reports, pc, nextTick, index, limit, sent, rejected, skipped,
                 sends, refused>>

Stopped == pc = "ended" /\ clock = TStop /\ UNCHANGED vars

Next ==
  \/ Elapse
  \/ Wake
  \/ \E verdict \in InCall : Call(verdict)
  \/ Return
  \/ Rest
  \/ Exit
  \/ Complete
  \/ Stopped

\* publish() returns, and a sleeping loop is woken; completions may never come.
Fairness ==
  /\ WF_vars(Elapse)
  /\ WF_vars(Wake \/ Exit)
  /\ WF_vars(\E verdict \in InCall : Call(verdict))
  /\ WF_vars(Return)
  /\ WF_vars(Rest)

Spec == Init /\ [][Next]_vars
FairSpec == Spec /\ Fairness

-----------------------------------------------------------------------------
(* Properties. *)

\* The index of the message in hand is what the counters say it is, whatever was
\* refused, skipped or completed in the meantime.
Counted == sent + rejected + skipped
CountersNameTheIndex ==
  pc # "ended" /\ pc # "asleep" =>
    index = Counted - (IF shape = "nowait" /\ pc \in InCall THEN 1 ELSE 0)

\* What the one message whose call has not returned adds to sent - done - failed.
InTheCall ==
  CASE shape = "sync" /\ pc = "accepted"                -> -1
    [] shape = "nowait" /\ pc = "refused" /\ ~reports   -> 1
    [] OTHER                                            -> 0

\* sent - done - failed counts the library's unfinished publishes, up to the message in the
\* call, and short by the refusals an adapter reported: those are in failed and not in sent.
Outstanding ==
  sent - done - failed = inflight + InTheCall - (IF reports THEN rejected ELSE 0)

\* The counters two threads share name both the message in hand and what is out, but for
\* the refusals that are counted twice.
CountersAgree == CountersNameTheIndex /\ Outstanding

\* A message's publish time is stored once, and no earlier than it is due.
OnceAndOnTime ==
  [][\A i \in Index : sends'[i] # sends[i] => sends[i] = UNSENT /\ sends'[i] >= DueNs(i)]_vars

fate == [i \in Index |-> IF i \in refused THEN "refused"
                         ELSE IF i >= limit THEN "future"
                         ELSE IF i >= index THEN "owed"
                         ELSE IF sends[i] # UNSENT THEN "published" ELSE "skipped"]

AbstractOffer == INSTANCE Offer WITH
  Size <- Offered, fate <- fate, counted <- limit, open <- (pc # "ended")

\* The tick loop implements the same fixed offer as the awaited drive.
ImplementsOffer == AbstractOffer!Spec

\* The loop ends, however late it wakes.
DriveEnds == <>(pc = "ended")

\* "UNSENT marks offered messages never published" (drive.py:85).
UnsentMarksUnpublished == \A i \in refused : sends[i] = UNSENT
=============================================================================
