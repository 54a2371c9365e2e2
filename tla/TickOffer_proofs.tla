-------------------------- MODULE TickOffer_proofs ---------------------------
(***************************************************************************)
(* The tick loops of the fixed offer, proved for every schedule: the       *)
(* counters name the message in hand through refusals, skips and           *)
(* completions at any moment, every message is published once and on time, *)
(* and every step is a step of the abstract offer.                         *)
(***************************************************************************)
EXTENDS TickOffer, TLAPS

-----------------------------------------------------------------------------
(* The schedule's integer arithmetic, for every rate: the tick loops share the module
   Schedule with the awaited shape, and need the same facts of it. *)

\* Integer division brackets the quotient: `//` of the code rounds down.
LEMMA DivBracket ==
  ASSUME NEW a \in Nat, NEW b \in Nat \ {0}
  PROVE  /\ a \div b \in Nat
         /\ (a \div b) * b <= a
         /\ a < (a \div b + 1) * b
  BY Z3

\* A quotient is bounded from below exactly as its dividend is.
LEMMA DivAtLeast ==
  ASSUME NEW a \in Nat, NEW b \in Nat \ {0}, NEW q \in Nat
  PROVE  q <= a \div b <=> q * b <= a
<1> DEFINE d == a \div b
<1>1. d \in Nat /\ d * b <= a /\ a < (d + 1) * b
  BY DivBracket
<1> HIDE DEF d
<1>2. ASSUME q <= d PROVE q * b <= a
  <2>1. q * b <= d * b
    BY <1>1, <1>2, Z3
  <2>2. QED
    BY <1>1, <2>1
<1>3. ASSUME d < q PROVE a < q * b
  <2>1. (d + 1) * b <= q * b
    BY <1>1, <1>3, Z3
  <2>2. QED
    BY <1>1, <2>1
<1>4. QED
  BY <1>1, <1>2, <1>3 DEF d

LEMMA TotalDueType == \A t \in Nat : TotalDue(t) \in Nat
<1> TAKE t \in Nat
<1>1. Rate * t \in Nat /\ NS \in Nat \ {0}
  BY ScheduleAssumption
<1>2. QED
  BY <1>1, DivBracket DEF TotalDue

LEMMA DueNsType == \A i \in Nat : DueNs(i) \in Nat
<1> TAKE i \in Nat
<1>1. (i + 1) * NS \in Nat /\ Rate \in Nat \ {0}
  BY ScheduleAssumption
<1>2. (i + 1) * NS + Rate - 1 \in Nat
  BY <1>1
<1>3. QED
  BY <1>1, <1>2, DivBracket DEF DueNs

\* The schedule never takes a message back: the count grows with time.
LEMMA TotalDueMonotone ==
  \A s, t \in Nat : s <= t => TotalDue(s) <= TotalDue(t)
<1> SUFFICES ASSUME NEW s \in Nat, NEW t \in Nat, s <= t
             PROVE  TotalDue(s) <= TotalDue(t)
  OBVIOUS
<1>1. Rate * s \in Nat /\ Rate * t \in Nat /\ NS \in Nat \ {0}
  BY ScheduleAssumption
<1>2. Rate * s <= Rate * t
  BY ScheduleAssumption, Z3
<1>3. TotalDue(s) \in Nat /\ TotalDue(s) * NS <= Rate * s
  BY <1>1, DivBracket DEF TotalDue
<1>4. TotalDue(s) * NS <= Rate * t
  <2>1. TotalDue(s) * NS \in Nat
    BY <1>1, <1>3
  <2>2. QED
    BY <1>1, <1>2, <1>3, <2>1
<1>5. QED
  BY <1>1, <1>3, <1>4, DivAtLeast DEF TotalDue

LEMMA OfferedType == Offered \in Nat
  BY ScheduleAssumption, TotalDueType DEF Offered

LEMMA MaxDueType == MaxDue \in Nat \ {0}
<1>1. Rate * TickNs * MaxCatchupTicks \in Nat /\ NS \in Nat \ {0}
  BY ScheduleAssumption
<1>2. QED
  BY <1>1, DivBracket DEF MaxDue

\* due_ns against _owed: a message is counted from its due time on, and never before it.
LEMMA CountedWhenDue ==
  \A i, t \in Nat : i < TotalDue(t) <=> DueNs(i) <= t
<1> TAKE i, t \in Nat
<1> DEFINE need == (i + 1) * NS  have == Rate * t
<1>1. need \in Nat /\ have \in Nat /\ NS \in Nat \ {0} /\ Rate \in Nat \ {0}
  BY ScheduleAssumption
<1>2. i < TotalDue(t) <=> need <= have
  <2>1. i + 1 <= TotalDue(t) <=> need <= have
    BY <1>1, DivAtLeast DEF TotalDue
  <2>2. QED
    BY <2>1, TotalDueType
<1>3. t + 1 <= DueNs(i) <=> (t + 1) * Rate <= need + Rate - 1
  <2>1. need + Rate - 1 \in Nat
    BY <1>1
  <2>2. QED
    BY <1>1, <2>1, DivAtLeast DEF DueNs
<1>4. (t + 1) * Rate = have + Rate
  BY <1>1, Z3
<1>5. DueNs(i) \in Nat
  BY DueNsType
<1> HIDE DEF need, have
<1>6. QED
  BY <1>1, <1>2, <1>3, <1>4, <1>5

-----------------------------------------------------------------------------
(* The inductive invariant. *)

\* Between ranges nothing is in hand, and what was counted is all the range promised.
Settled == pc \in {"asleep", "ended"} => index = limit /\ Counted = limit

\* The range in hand lies within what the schedule has counted.
Range ==
  /\ index <= limit
  /\ limit <= TotalDue(clock)
  /\ pc \in InCall => index < limit /\ sends[index] # UNSENT

\* No message from the index on has been handed over, but the one in the call.
Untouched ==
  \A i \in Index : index <= i =>
    /\ i \notin refused
    /\ ~(pc \in InCall /\ i = index) => sends[i] = UNSENT

\* A reported refusal is in failed before it is taken back from sent.
Reported == reports => failed >= rejected + (IF pc = "refused" THEN 1 ELSE 0)

IInv == TypeOK /\ CountersAgree /\ Reported /\ Settled /\ Range /\ Untouched

-----------------------------------------------------------------------------
(* One step at a time. *)

LEMMA ClockType == TypeOK => clock \in Nat
  BY ScheduleAssumption DEF TypeOK, Time

LEMMA InitIInv == Init => IInv
<1> SUFFICES ASSUME Init PROVE IInv
  OBVIOUS
<1>1. Offered \in Nat /\ TotalDue(0) \in Nat
  BY OfferedType, TotalDueType
<1>2. TypeOK
  <2>1. 0 \in Time
    BY ScheduleAssumption DEF Time
  <2>2. sends \in [Index -> Time \cup {UNSENT}]
    BY DEF Init
  <2>3. QED
    BY <1>1, <2>1, <2>2 DEF Init, TypeOK
<1>3. CountersAgree
  BY DEF Init, CountersAgree, CountersNameTheIndex, Outstanding, InTheCall
<1>4. Reported /\ Settled /\ Range /\ Untouched
  BY <1>1 DEF Init, Reported, Settled, Range, Untouched, Counted, InCall
<1>5. QED
  BY <1>2, <1>3, <1>4 DEF IInv

LEMMA ElapseStep == IInv /\ Elapse => IInv'
<1> SUFFICES ASSUME IInv, Elapse PROVE IInv'
  OBVIOUS
<1>1. clock \in Nat /\ clock' = clock + 1 /\ clock' \in Time
  BY ClockType, ScheduleAssumption DEF IInv, Elapse, Time
<1>2. UNCHANGED <<shape, reports, pc, nextTick, index, limit, sent, done, failed, rejected, skipped,
                  sends, inflight, refused>>
  BY DEF Elapse, counters
<1>3. TypeOK'
  BY <1>1, <1>2 DEF IInv, TypeOK
<1>4. limit <= TotalDue(clock')
  <2>1. TotalDue(clock) <= TotalDue(clock') /\ TotalDue(clock) \in Nat /\ TotalDue(clock') \in Nat
    BY <1>1, TotalDueMonotone, TotalDueType
  <2>2. limit \in Nat /\ limit <= TotalDue(clock)
    BY OfferedType DEF IInv, TypeOK, Range
  <2>3. QED
    BY <2>1, <2>2
<1>5. Range'
  BY <1>2, <1>4 DEF IInv, Range
<1>6. CountersAgree' /\ Reported' /\ Settled' /\ Untouched'
  BY <1>2 DEF IInv, CountersAgree, CountersNameTheIndex, Outstanding, InTheCall, Reported, Settled,
              Untouched, Counted
<1>7. QED
  BY <1>3, <1>5, <1>6 DEF IInv

\* What a wake-up computes: as the counters add up to the old limit, the new range ends
\* at the schedule's count and begins after what is skipped.
LEMMA WakeFacts ==
  ASSUME IInv, Wake
  PROVE  /\ limit' = TotalDue(clock) /\ limit' \in 0 .. Offered
         /\ limit \in Nat /\ limit <= index' /\ index' <= limit'
         /\ index' \in Nat /\ skipped' \in Nat
         /\ sent + rejected + skipped' = index'
         /\ limit < limit' => index' < limit'
<1> DEFINE now == TotalDue(clock)
           due == Due(clock)
           over == IF due > MaxDue THEN due - MaxDue ELSE 0
<1>1. clock \in Nat /\ clock <= TEnd /\ TEnd \in Nat
  BY ClockType, ScheduleAssumption DEF Wake, InWindow, IInv
<1>2. now \in Nat /\ now <= Offered /\ Offered \in Nat
  BY <1>1, TotalDueMonotone, TotalDueType, OfferedType DEF Offered
<1>3. /\ sent \in Nat /\ rejected \in Nat /\ skipped \in Nat /\ limit \in Nat
      /\ sent + rejected + skipped = limit /\ limit <= now
  BY OfferedType DEF Wake, IInv, TypeOK, Settled, Range, Counted
<1>4. due = now - limit
  BY <1>2, <1>3 DEF Due
<1>5. MaxDue \in Nat \ {0}
  BY MaxDueType
<1>6. /\ skipped' = skipped + over
      /\ index' = sent + rejected + skipped'
      /\ limit' = index' + due - over
  BY DEF Wake, First
<1> HIDE DEF now, due
<1>7. over \in Nat /\ over <= due /\ (due > 0 => over < due)
  BY <1>2, <1>3, <1>4, <1>5
<1> HIDE DEF over
<1>8. limit' = now /\ index' = limit + over
  BY <1>2, <1>3, <1>4, <1>6, <1>7
<1>9. limit' = TotalDue(clock)
  BY <1>8 DEF now
<1>10. limit' \in 0 .. Offered /\ index' \in Nat /\ skipped' \in Nat
  BY <1>2, <1>3, <1>4, <1>6, <1>7, <1>8
<1>11. limit <= index' /\ index' <= limit' /\ (limit < limit' => index' < limit')
  BY <1>2, <1>3, <1>4, <1>7, <1>8
<1>12. QED
  BY <1>3, <1>6, <1>9, <1>10, <1>11

LEMMA WakeStep == IInv /\ Wake => IInv'
<1> SUFFICES ASSUME IInv, Wake PROVE IInv'
  OBVIOUS
<1>1. /\ limit' = TotalDue(clock) /\ limit' \in 0 .. Offered
      /\ limit \in Nat /\ limit <= index' /\ index' <= limit'
      /\ index' \in Nat /\ skipped' \in Nat
      /\ sent + rejected + skipped' = index'
  BY WakeFacts
<1>2. /\ pc = "asleep" /\ pc' = "bursting"
      /\ nextTick' = NextTick(nextTick, clock)
      /\ UNCHANGED <<clock, shape, reports, sent, done, failed, rejected, sends, inflight, refused>>
  BY DEF Wake
<1>3. nextTick' \in Nat
  BY <1>2, ClockType, ScheduleAssumption DEF IInv, TypeOK, NextTick
<1>4. Offered \in Nat
  BY OfferedType
<1>5. TypeOK'
  <2>1. index' \in 0 .. Offered
    BY <1>1, <1>4
  <2>2. QED
    BY <1>1, <1>2, <1>3, <2>1 DEF IInv, TypeOK
<1>6. CountersAgree'
  <2>1. CountersNameTheIndex'
    BY <1>1, <1>2 DEF CountersNameTheIndex, Counted, InCall
  <2>2. Outstanding'
    BY <1>2 DEF IInv, CountersAgree, Outstanding, InTheCall
  <2>3. QED
    BY <2>1, <2>2 DEF CountersAgree
<1>7. Reported' /\ Settled' /\ Range'
  <2>1. limit' <= TotalDue(clock')
    BY <1>1, <1>2, <1>4
  <2>2. Reported'
    BY <1>2 DEF IInv, Reported
  <2>3. QED
    BY <1>1, <1>2, <2>1, <2>2 DEF Settled, Range, InCall
<1>8. Untouched'
  <2>1. \A i \in Index : index' <= i => index <= i
    BY <1>1, <1>2, <1>4 DEF IInv, Settled, Index
  <2>2. QED
    BY <1>2, <2>1 DEF IInv, Untouched, InCall
<1>9. QED
  BY <1>5, <1>6, <1>7, <1>8 DEF IInv

\* The message of a call is one of the offer's, and its time has come.
LEMMA CallFacts ==
  ASSUME IInv, pc = "bursting", index < limit
  PROVE  /\ index \in Index /\ sends[index] = UNSENT
         /\ clock \in Nat /\ clock >= DueNs(index)
<1>1. index \in Nat /\ limit \in Nat /\ limit <= Offered /\ Offered \in Nat
  BY OfferedType DEF IInv, TypeOK
<1>2. index \in Index
  BY <1>1 DEF Index
<1>3. sends[index] = UNSENT
  BY <1>1, <1>2 DEF IInv, Untouched, InCall
<1>4. clock \in Nat /\ TotalDue(clock) \in Nat
  BY ClockType, TotalDueType DEF IInv
<1>5. index < TotalDue(clock)
  BY <1>1, <1>4 DEF IInv, Range
<1>6. DueNs(index) <= clock /\ DueNs(index) \in Nat
  BY <1>1, <1>4, <1>5, CountedWhenDue, DueNsType
<1>7. QED
  BY <1>2, <1>3, <1>4, <1>6

LEMMA CallStep == ASSUME IInv, NEW v \in InCall, Call(v) PROVE IInv'
<1>1. /\ pc = "bursting" /\ index < limit
      /\ sends' = [sends EXCEPT ![index] = clock] /\ pc' = v
      /\ inflight' = IF v = "accepted" THEN inflight + 1 ELSE inflight
      /\ sent' = IF shape = "nowait" THEN sent + 1 ELSE sent
      /\ failed' = IF v = "refused" /\ reports THEN failed + 1 ELSE failed
      /\ UNCHANGED <<clock, shape, reports, nextTick, index, limit, done, rejected, skipped, refused>>
  BY DEF Call
<1>2. index \in Index /\ clock \in Nat
  BY <1>1, CallFacts
<1>3. v = "accepted" \/ v = "refused"
  BY DEF InCall
<1>4. TypeOK'
  <2>1. sends' \in [Index -> Time \cup {UNSENT}]
    BY <1>1, <1>2 DEF IInv, TypeOK
  <2>2. sent' \in Nat /\ inflight' \in Nat /\ failed' \in Nat
    BY <1>1 DEF IInv, TypeOK
  <2>3. QED
    BY <1>1, <2>1, <2>2 DEF IInv, TypeOK
<1>5. /\ shape \in {"sync", "nowait"}
      /\ {sent, done, failed, rejected, skipped, inflight, index} \subseteq Nat
      /\ reports \in BOOLEAN /\ (reports => shape = "nowait")
  BY OfferedType DEF IInv, TypeOK
<1>6. CountersNameTheIndex'
  <2>1. index = sent + rejected + skipped
    BY <1>1, <1>5 DEF IInv, CountersAgree, CountersNameTheIndex, Counted, InCall
  <2>2. QED
    BY <1>1, <1>5, <2>1 DEF CountersNameTheIndex, Counted
<1>7. Outstanding'
  <2>1. sent - done - failed = inflight - (IF reports THEN rejected ELSE 0)
    BY <1>1, <1>5 DEF IInv, CountersAgree, Outstanding, InTheCall
  <2>2. QED
    BY <1>1, <1>3, <1>5, <2>1 DEF Outstanding, InTheCall
<1>8. Reported' /\ Settled' /\ Range'
  <2>1. Reported' /\ Settled'
    BY <1>1, <1>3, <1>5 DEF IInv, Reported, Settled
  <2>2. sends'[index] = clock /\ clock # UNSENT
    BY <1>1, <1>2 DEF IInv, TypeOK, UNSENT
  <2>3. QED
    BY <1>1, <2>1, <2>2 DEF IInv, Range
<1>9. Untouched'
  <2>1. \A i \in Index : i # index => sends'[i] = sends[i]
    BY <1>1 DEF IInv, TypeOK
  <2>2. QED
    BY <1>1, <2>1 DEF IInv, Untouched, InCall
<1>10. QED
  BY <1>4, <1>6, <1>7, <1>8, <1>9 DEF IInv, CountersAgree

LEMMA ReturnStep == IInv /\ Return => IInv'
<1> SUFFICES ASSUME IInv, Return PROVE IInv'
  OBVIOUS
<1>1. /\ pc \in InCall /\ pc' = "bursting" /\ index' = index + 1
      /\ UNCHANGED <<clock, shape, reports, nextTick, limit, done, failed, skipped, sends, inflight>>
  BY DEF Return
<1>2. \/ /\ pc = "accepted" /\ sent' = (IF shape = "sync" THEN sent + 1 ELSE sent)
         /\ rejected' = rejected /\ refused' = refused
      \/ /\ pc = "refused" /\ rejected' = rejected + 1
         /\ refused' = refused \cup {index}
         /\ sent' = IF shape = "nowait" THEN sent - 1 ELSE sent
  BY DEF Return
<1>3. /\ {sent, done, failed, rejected, skipped, inflight, index, limit, Offered} \subseteq Nat
      /\ shape \in {"sync", "nowait"} /\ reports \in BOOLEAN /\ (reports => shape = "nowait")
      /\ index < limit /\ limit <= Offered
  BY <1>1, OfferedType DEF IInv, TypeOK, Range
<1>4. index \in Index /\ index' \in 0 .. Offered
  BY <1>1, <1>3 DEF Index
<1>5. /\ index = sent + rejected + skipped - (IF shape = "nowait" THEN 1 ELSE 0)
      /\ sent - done - failed = inflight + InTheCall - (IF reports THEN rejected ELSE 0)
  BY <1>1, <1>3 DEF IInv, CountersAgree, CountersNameTheIndex, Outstanding, Counted, InCall
<1>6. sent' \in Nat /\ rejected' \in Nat
  <2>1. pc = "refused" /\ shape = "nowait" => sent >= 1
    BY <1>3, <1>5 DEF IInv, Reported, InTheCall
  <2>2. QED
    BY <1>2, <1>3, <2>1
<1>7. TypeOK'
  <2>1. refused' \subseteq Index
    BY <1>2, <1>4 DEF IInv, TypeOK
  <2>2. pc' \in {"asleep", "bursting", "ended"} \cup InCall
    BY <1>1
  <2>3. QED
    BY <1>1, <1>4, <1>6, <2>1, <2>2 DEF IInv, TypeOK
<1>8. CountersNameTheIndex'
  BY <1>1, <1>2, <1>3, <1>5 DEF CountersNameTheIndex, Counted, InCall
<1>9. Outstanding'
  <2>1. InTheCall' = 0
    BY <1>1 DEF InTheCall
  <2>2. InTheCall = IF shape = "sync" /\ pc = "accepted" THEN -1
                    ELSE IF shape = "nowait" /\ pc = "refused" /\ ~reports THEN 1 ELSE 0
    BY DEF InTheCall
  <2>3. sent' - done - failed = inflight - (IF reports THEN rejected' ELSE 0)
    <3>1. CASE pc = "accepted"
      BY <1>2, <1>3, <1>5, <2>2, <3>1
    <3>2. CASE pc = "refused"
      <4>1. rejected' = rejected + 1 /\ sent' = IF shape = "nowait" THEN sent - 1 ELSE sent
        BY <1>2, <3>2
      <4>2. CASE reports
        BY <1>3, <1>5, <2>2, <3>2, <4>1, <4>2
      <4>3. CASE ~reports
        BY <1>3, <1>5, <2>2, <3>2, <4>1, <4>3
      <4>4. QED
        BY <4>2, <4>3
    <3>3. QED
      BY <1>1, <3>1, <3>2 DEF InCall
  <2>4. QED
    BY <1>1, <1>2, <1>3, <2>1, <2>3 DEF Outstanding
<1>10. Reported' /\ Settled' /\ Range'
  BY <1>1, <1>2, <1>3 DEF IInv, Reported, Settled, Range, InCall
<1>11. Untouched'
  <2> SUFFICES ASSUME NEW i \in Index, index' <= i
               PROVE  i \notin refused' /\ sends'[i] = UNSENT
    BY <1>1 DEF Untouched
  <2>1. index <= i /\ i # index
    BY <1>1, <1>3 DEF Index
  <2>2. QED
    BY <1>1, <1>2, <2>1 DEF IInv, Untouched
<1>12. QED
  BY <1>7, <1>8, <1>9, <1>10, <1>11 DEF IInv, CountersAgree

LEMMA RestOrExitStep == IInv /\ (Rest \/ Exit) => IInv'
<1> SUFFICES ASSUME IInv, Rest \/ Exit PROVE IInv'
  OBVIOUS
<1>1. /\ pc \in {"bursting", "asleep"} /\ pc' \in {"asleep", "ended"}
      /\ UNCHANGED <<clock, shape, reports, nextTick, index, limit, sent, done, failed, rejected, skipped,
                     sends, inflight, refused>>
  BY DEF Rest, Exit, counters
<1>2. index = limit /\ Counted = limit
  <2>1. CASE Rest
    <3>1. index = limit /\ index = Counted - 0 /\ Counted \in Nat
      BY <2>1 DEF Rest, IInv, TypeOK, CountersAgree, CountersNameTheIndex, Counted, InCall
    <3>2. QED
      BY <3>1
  <2>2. CASE Exit
    BY <2>2 DEF Exit, IInv, Settled
  <2>3. QED
    BY <2>1, <2>2
<1>3. TypeOK'
  BY <1>1 DEF IInv, TypeOK
<1>4. CountersNameTheIndex'
  BY <1>1 DEF CountersNameTheIndex
<1>5. Outstanding'
  BY <1>1 DEF IInv, CountersAgree, Outstanding, InTheCall
<1>6. Reported' /\ Settled' /\ Range' /\ Untouched'
  <2>1. Counted' = Counted
    BY <1>1 DEF Counted
  <2>2. Settled'
    BY <1>1, <1>2, <2>1 DEF Settled
  <2>3. Reported' /\ Range' /\ Untouched'
    BY <1>1 DEF IInv, Reported, Range, Untouched, InCall
  <2>4. QED
    BY <2>2, <2>3
<1>7. QED
  BY <1>3, <1>4, <1>5, <1>6 DEF IInv, CountersAgree

LEMMA CompleteStep == IInv /\ Complete => IInv'
<1> SUFFICES ASSUME IInv, Complete PROVE IInv'
  OBVIOUS
<1>1. /\ inflight > 0 /\ inflight' = inflight - 1
      /\ \/ done' = done + 1 /\ failed' = failed
         \/ failed' = failed + 1 /\ done' = done
      /\ UNCHANGED <<clock, shape, reports, pc, nextTick, index, limit, sent, rejected, skipped, sends, refused>>
  BY DEF Complete
<1>2. {sent, done, failed, inflight} \subseteq Nat
  BY DEF IInv, TypeOK
<1>3. TypeOK'
  <2>1. done' \in Nat /\ failed' \in Nat /\ inflight' \in Nat
    BY <1>1, <1>2
  <2>2. QED
    BY <1>1, <2>1 DEF IInv, TypeOK
<1>4. Outstanding'
  <2>1. sent' - done' - failed' = sent - done - failed - 1
    BY <1>1, <1>2
  <2>2. InTheCall' = InTheCall
    BY <1>1 DEF InTheCall
  <2>3. InTheCall \in Int /\ (IF reports THEN rejected ELSE 0) \in Int
    BY DEF InTheCall, IInv, TypeOK
  <2>4. QED
    BY <1>1, <1>2, <2>1, <2>2, <2>3 DEF IInv, CountersAgree, Outstanding
<1>5. CountersNameTheIndex' /\ Settled' /\ Range' /\ Untouched'
  BY <1>1 DEF IInv, CountersAgree, CountersNameTheIndex, Settled, Range, Untouched, Counted
<1>6. Reported'
  BY <1>1, <1>2 DEF IInv, TypeOK, Reported
<1>7. QED
  BY <1>3, <1>4, <1>5, <1>6 DEF IInv, CountersAgree

LEMMA StutterStep == IInv /\ UNCHANGED vars => IInv'
<1> SUFFICES ASSUME IInv, UNCHANGED vars PROVE IInv'
  OBVIOUS
<1>1. UNCHANGED <<clock, shape, reports, pc, nextTick, index, limit, sent, done, failed, rejected, skipped,
                  sends, inflight, refused>>
  BY DEF vars, counters
<1>2. TypeOK'
  BY <1>1 DEF IInv, TypeOK
<1>3. CountersAgree' /\ Reported' /\ Settled' /\ Range' /\ Untouched'
  BY <1>1 DEF IInv, CountersAgree, CountersNameTheIndex, Outstanding, InTheCall, Reported, Settled,
              Range, Untouched, Counted
<1>4. QED
  BY <1>2, <1>3 DEF IInv

LEMMA NextIInv == IInv /\ [Next]_vars => IInv'
  BY ElapseStep, WakeStep, CallStep, ReturnStep, RestOrExitStep, CompleteStep, StutterStep
     DEF Next, Stopped

LEMMA Inductive == Spec => []IInv
  BY InitIInv, NextIInv, PTL DEF Spec

-----------------------------------------------------------------------------
(* The theorems. *)

\* Every variable keeps its type: no counter goes below zero when a refusal is taken
\* back, and no index leaves the offer.
THEOREM TickTypeCorrect == Spec => []TypeOK
  BY Inductive, PTL DEF IInv

\* Three counters and the schedule name the message in hand, for both shapes and completions
\* at any moment; sent - done - failed is what the library still has, and with an adapter
\* that reports its refusals exactly as much less as it has refused (drive.py 416-419).
THEOREM CountersAlwaysAgree == Spec => []CountersAgree
  BY Inductive, PTL DEF IInv

\* A message's publish time is stored once, and no earlier than due_ns of its index.
THEOREM TickPublishesOnceAndOnTime == Spec => OnceAndOnTime
<1>1. ASSUME IInv, [Next]_vars, NEW i \in Index, sends'[i] # sends[i]
      PROVE  sends[i] = UNSENT /\ sends'[i] >= DueNs(i)
  <2>1. ASSUME NEW v \in InCall, Call(v)
        PROVE  sends[i] = UNSENT /\ sends'[i] >= DueNs(i)
    <3>1. pc = "bursting" /\ index < limit /\ sends' = [sends EXCEPT ![index] = clock]
      BY <2>1 DEF Call
    <3>2. sends[index] = UNSENT /\ clock >= DueNs(index)
      BY <1>1, <3>1, CallFacts
    <3>3. i = index /\ sends'[i] = clock
      BY <1>1, <3>1 DEF IInv, TypeOK
    <3>4. QED
      BY <3>2, <3>3
  <2>2. CASE Elapse \/ Wake \/ Return \/ Rest \/ Exit \/ Complete \/ Stopped \/ UNCHANGED vars
    BY <1>1, <2>2 DEF Elapse, Wake, Return, Rest, Exit, Complete, Stopped, vars
  <2>3. QED
    BY <1>1, <2>1, <2>2 DEF Next
<1>2. IInv /\ [Next]_vars
        => [\A i \in Index : sends'[i] # sends[i] => sends[i] = UNSENT /\ sends'[i] >= DueNs(i)]_vars
  BY <1>1
<1>3. QED
  BY <1>2, Inductive, PTL DEF Spec, OnceAndOnTime

-----------------------------------------------------------------------------
(* Every step of the loop is a step of the abstract offer, or changes nothing in it. *)

LEMMA InitRefines == Init => AbstractOffer!Init
<1> SUFFICES ASSUME Init PROVE AbstractOffer!Init
  OBVIOUS
<1>1. \A i \in Index : i \notin refused /\ i >= limit
  BY OfferedType DEF Init, Index
<1>2. fate = [i \in Index |-> "future"]
  BY <1>1 DEF fate
<1>3. QED
  BY <1>2 DEF Init, AbstractOffer!Init, AbstractOffer!Index, Index

LEMMA GrantArithmetic ==
  ASSUME NEW size \in Nat, NEW old \in Nat, NEW first \in Nat, NEW total \in 0 .. size,
         old <= first, first < total
  PROVE  /\ total \in 1 .. size /\ total - first \in 1 .. total
         /\ total - first <= total - old
         /\ total - (total - first) = first
  OBVIOUS

\* A wake-up grants what the schedule has counted since the last, all but the skipped.
LEMMA WakeRefines ==
  ASSUME IInv, Wake
  PROVE  AbstractOffer!Next \/ UNCHANGED AbstractOffer!vars
<1>1. /\ limit' \in 0 .. Offered /\ limit \in Nat /\ index' \in Nat
      /\ limit <= index' /\ index' <= limit'
      /\ limit < limit' => index' < limit'
  BY WakeFacts
<1>2. /\ pc = "asleep" /\ pc' = "bursting" /\ index = limit
      /\ sends' = sends /\ refused' = refused
  BY DEF Wake, IInv, Settled
<1>3. Offered \in Nat /\ \A i \in Index : i \in Nat
  BY OfferedType DEF Index
<1>4. ASSUME NEW i \in Index
      PROVE  fate'[i] = IF i < limit \/ i >= limit' THEN fate[i]
                        ELSE IF i < index' THEN "skipped" ELSE "owed"
  <2>1. limit <= i => i \notin refused /\ sends[i] = UNSENT
    BY <1>2 DEF IInv, Untouched, InCall
  <2>2. fate[i] = IF i \in refused THEN "refused"
                  ELSE IF i >= limit THEN "future"
                  ELSE IF i >= index THEN "owed"
                  ELSE IF sends[i] # UNSENT THEN "published" ELSE "skipped"
    BY DEF fate
  <2>3. fate'[i] = IF i \in refused THEN "refused"
                   ELSE IF i >= limit' THEN "future"
                   ELSE IF i >= index' THEN "owed"
                   ELSE IF sends[i] # UNSENT THEN "published" ELSE "skipped"
    BY <1>2 DEF fate
  <2>4. QED
    BY <1>1, <1>2, <1>3, <2>1, <2>2, <2>3
<1>5. CASE limit < limit'
  <2> DEFINE kept == limit' - index'
  <2>1. limit' \in 1 .. Offered /\ kept \in 1 .. limit' /\ kept <= limit' - limit
        /\ limit' - kept = index'
    BY <1>1, <1>3, <1>5, GrantArithmetic, ZenonT(60)
  <2>2. fate' = [i \in Index |-> IF i < limit \/ i >= limit' THEN fate[i]
                                 ELSE IF i < index' THEN "skipped" ELSE "owed"]
    BY <1>4 DEF fate
  <2> HIDE DEF kept
  <2>3. AbstractOffer!Grant(limit', kept)
    BY <1>2, <1>5, <2>1, <2>2 DEF AbstractOffer!Grant, AbstractOffer!Index, Index
  <2>4. QED
    BY <2>1, <2>3 DEF AbstractOffer!Next
<1>6. CASE ~(limit < limit')
  <2>1. limit' = limit
    BY <1>1, <1>3, <1>6
  <2>2. \A i \in Index : fate'[i] = fate[i]
    BY <1>1, <1>3, <1>4, <2>1
  <2>3. fate' = fate
    BY <2>2 DEF fate
  <2>4. QED
    BY <1>2, <2>1, <2>3 DEF AbstractOffer!vars
<1>7. QED
  BY <1>5, <1>6

\* The message in the call is still owed, as far as the offer is concerned.
LEMMA CallRefines ==
  ASSUME IInv, NEW v \in InCall, Call(v)
  PROVE  UNCHANGED AbstractOffer!vars
<1>1. /\ pc = "bursting" /\ index < limit /\ pc' # "ended"
      /\ sends' = [sends EXCEPT ![index] = clock]
      /\ index' = index /\ limit' = limit /\ refused' = refused
  BY DEF Call, InCall
<1>2. index \in Nat /\ limit \in Nat /\ \A i \in Index : i \in Nat
  BY OfferedType DEF IInv, TypeOK, Index
<1>3. ASSUME NEW i \in Index PROVE fate'[i] = fate[i]
  <2>1. i < index => sends'[i] = sends[i]
    BY <1>1, <1>2 DEF IInv, TypeOK
  <2>2. QED
    BY <1>1, <1>2, <2>1 DEF fate
<1>4. fate' = fate
  BY <1>3 DEF fate
<1>5. QED
  BY <1>1, <1>4 DEF AbstractOffer!vars

\* publish() returns: the oldest owed message is published or refused.
LEMMA ReturnRefines ==
  ASSUME IInv, Return
  PROVE  AbstractOffer!Next
<1> DEFINE outcome == IF pc = "refused" THEN "refused" ELSE "published"
<1>1. /\ pc \in InCall /\ pc' = "bursting" /\ index' = index + 1
      /\ limit' = limit /\ sends' = sends
      /\ refused' = IF pc = "refused" THEN refused \cup {index} ELSE refused
  BY DEF Return
<1>2. /\ index \in Nat /\ limit \in Nat /\ Offered \in Nat /\ limit <= Offered /\ index < limit
      /\ sends[index] # UNSENT
      /\ \A i \in Index : i \in Nat
  BY <1>1, OfferedType DEF IInv, TypeOK, Range, Index
<1>3. index \in Index /\ \A i \in Index : index <= i => i \notin refused
  BY <1>2 DEF IInv, Untouched, Index
<1>4. fate[index] = "owed" /\ \A i \in Index : fate[i] = "owed" => index <= i
  <2>1. fate[index] = "owed"
    BY <1>2, <1>3 DEF fate
  <2>2. ASSUME NEW i \in Index, i < index PROVE fate[i] # "owed"
    BY <1>2, <2>2 DEF fate
  <2>3. QED
    BY <1>2, <2>1, <2>2
<1>5. ASSUME NEW i \in Index
      PROVE  fate'[i] = IF i = index THEN outcome ELSE fate[i]
  <2>1. CASE i = index
    BY <1>1, <1>2, <1>3, <2>1 DEF fate
  <2>2. CASE i # index
    <3>1. i \in refused' <=> i \in refused
      BY <1>1, <2>2
    <3>2. i >= index' <=> i >= index
      BY <1>1, <1>2, <2>2
    <3>3. QED
      BY <1>1, <2>2, <3>1, <3>2 DEF fate
  <2>3. QED
    BY <2>1, <2>2
<1> HIDE DEF outcome
<1>6. fate' = [fate EXCEPT ![index] = outcome]
  BY <1>5 DEF fate
<1>7. AbstractOffer!Send(index, outcome)
  <2>1. outcome \in {"published", "refused"}
    BY DEF outcome
  <2>2. QED
    BY <1>1, <1>3, <1>4, <1>6, <2>1
       DEF AbstractOffer!Send, AbstractOffer!Owed, AbstractOffer!Index, Index, InCall
<1>8. outcome \in {"published", "refused"}
  BY DEF outcome
<1>9. QED
  BY <1>3, <1>7, <1>8 DEF AbstractOffer!Next, AbstractOffer!Index, Index

\* The loop leaves only between ranges: nothing is owed then.
LEMMA ExitRefines ==
  ASSUME IInv, Exit
  PROVE  AbstractOffer!Close
<1>1. /\ pc = "asleep" /\ pc' = "ended" /\ index = limit
      /\ UNCHANGED <<index, limit, sends, refused>>
  BY DEF Exit, IInv, Settled
<1>2. index \in Nat /\ limit \in Nat /\ \A i \in Index : i \in Nat
  BY OfferedType DEF IInv, TypeOK, Index
<1>3. \A i \in Index : fate[i] # "owed" /\ fate'[i] = fate[i]
  BY <1>1, <1>2 DEF fate
<1>4. fate' = [i \in Index |-> IF fate[i] = "owed" THEN "skipped" ELSE fate[i]]
  BY <1>3 DEF fate
<1>5. QED
  BY <1>1, <1>4 DEF AbstractOffer!Close, AbstractOffer!Index, Index

LEMMA OtherRefines ==
  ASSUME UNCHANGED <<index, limit, sends, refused>>, (pc = "ended") <=> (pc' = "ended")
  PROVE  UNCHANGED AbstractOffer!vars
<1>1. fate' = fate
  BY DEF fate
<1>2. QED
  BY <1>1 DEF AbstractOffer!vars

LEMMA NextRefines == IInv /\ [Next]_vars => [AbstractOffer!Next]_(AbstractOffer!vars)
<1> SUFFICES ASSUME IInv, [Next]_vars
             PROVE  AbstractOffer!Next \/ UNCHANGED AbstractOffer!vars
  OBVIOUS
<1>1. CASE Wake
  BY <1>1, WakeRefines
<1>2. ASSUME NEW v \in InCall, Call(v) PROVE UNCHANGED AbstractOffer!vars
  BY <1>2, CallRefines
<1>3. CASE Return
  BY <1>3, ReturnRefines
<1>4. CASE Exit
  BY <1>4, ExitRefines DEF AbstractOffer!Next
<1>5. CASE Elapse \/ Rest \/ Complete \/ Stopped \/ UNCHANGED vars
  BY <1>5, OtherRefines DEF Elapse, Rest, Complete, Stopped, vars
<1>6. QED
  BY <1>1, <1>2, <1>3, <1>4, <1>5 DEF Next

\* The tick loop, whose indices are never stored but recomputed from the counters,
\* implements the same fixed offer as the awaited drive.
THEOREM TickImplementsOffer == Spec => ImplementsOffer
  BY InitRefines, NextRefines, Inductive, PTL DEF Spec, ImplementsOffer, AbstractOffer!Spec
=============================================================================
