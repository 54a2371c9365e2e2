------------------------- MODULE AwaitedOffer_proofs -------------------------
(***************************************************************************)
(* The awaited fixed-rate drive, proved for every schedule and every pool  *)
(* of workers: type correctness, no lost wake-up at the gate, every        *)
(* message published once and on time, books that balance, and every step  *)
(* a step of the abstract offer.                                           *)
(***************************************************************************)
EXTENDS AwaitedOffer, TLAPS, FiniteSetTheorems, SequenceTheorems

-----------------------------------------------------------------------------
(* The schedule's integer arithmetic, for every rate. *)

\* Integer division brackets the quotient: `//` of the code rounds down.
LEMMA DivBracket ==
  ASSUME NEW a \in Nat, NEW b \in Nat \ {0}
  PROVE  /\ a \div b \in Nat
         /\ (a \div b) * b <= a
         /\ a < (a \div b + 1) * b
  BY Z3

\* A quotient is bounded from below exactly as its dividend is.
LEMMA DivAtLeast ==
  ASSUME NEW a \in Nat, NEW b \in Nat \ {0}, NEW q \in Nat
  PROVE  q <= a \div b <=> q * b <= a
<1> DEFINE d == a \div b
<1>1. d \in Nat /\ d * b <= a /\ a < (d + 1) * b
  BY DivBracket
<1> HIDE DEF d
<1>2. ASSUME q <= d PROVE q * b <= a
  <2>1. q * b <= d * b
    BY <1>1, <1>2, Z3
  <2>2. QED
    BY <1>1, <2>1
<1>3. ASSUME d < q PROVE a < q * b
  <2>1. (d + 1) * b <= q * b
    BY <1>1, <1>3, Z3
  <2>2. QED
    BY <1>1, <2>1
<1>4. QED
  BY <1>1, <1>2, <1>3 DEF d

LEMMA TotalDueType == \A t \in Nat : TotalDue(t) \in Nat
<1> TAKE t \in Nat
<1>1. Rate * t \in Nat /\ NS \in Nat \ {0}
  BY ScheduleAssumption
<1>2. QED
  BY <1>1, DivBracket DEF TotalDue

LEMMA DueNsType == \A i \in Nat : DueNs(i) \in Nat
<1> TAKE i \in Nat
<1>1. (i + 1) * NS \in Nat /\ Rate \in Nat \ {0}
  BY ScheduleAssumption
<1>2. (i + 1) * NS + Rate - 1 \in Nat
  BY <1>1
<1>3. QED
  BY <1>1, <1>2, DivBracket DEF DueNs

\* The schedule never takes a message back: the count grows with time.
LEMMA TotalDueMonotone ==
  \A s, t \in Nat : s <= t => TotalDue(s) <= TotalDue(t)
<1> SUFFICES ASSUME NEW s \in Nat, NEW t \in Nat, s <= t
             PROVE  TotalDue(s) <= TotalDue(t)
  OBVIOUS
<1>1. Rate * s \in Nat /\ Rate * t \in Nat /\ NS \in Nat \ {0}
  BY ScheduleAssumption
<1>2. Rate * s <= Rate * t
  BY ScheduleAssumption, Z3
<1>3. TotalDue(s) \in Nat /\ TotalDue(s) * NS <= Rate * s
  BY <1>1, DivBracket DEF TotalDue
<1>4. TotalDue(s) * NS <= Rate * t
  <2>1. TotalDue(s) * NS \in Nat
    BY <1>1, <1>3
  <2>2. QED
    BY <1>1, <1>2, <1>3, <2>1
<1>5. QED
  BY <1>1, <1>3, <1>4, DivAtLeast DEF TotalDue

LEMMA OfferedType == Offered \in Nat
  BY ScheduleAssumption, TotalDueType DEF Offered

LEMMA MaxDueType == MaxDue \in Nat \ {0}
<1>1. Rate * TickNs * MaxCatchupTicks \in Nat /\ NS \in Nat \ {0}
  BY ScheduleAssumption
<1>2. QED
  BY <1>1, DivBracket DEF MaxDue

\* due_ns against _owed: a message is counted from its due time on, and never
\* before it ("When _owed first counts message index", drive.py:133).
THEOREM CountedWhenDue ==
  \A i, t \in Nat : i < TotalDue(t) <=> DueNs(i) <= t
<1> TAKE i, t \in Nat
<1> DEFINE need == (i + 1) * NS  have == Rate * t
<1>1. need \in Nat /\ have \in Nat /\ NS \in Nat \ {0} /\ Rate \in Nat \ {0}
  BY ScheduleAssumption
<1>2. i < TotalDue(t) <=> need <= have
  <2>1. i + 1 <= TotalDue(t) <=> need <= have
    BY <1>1, DivAtLeast DEF TotalDue
  <2>2. QED
    BY <2>1, TotalDueType
<1>3. t + 1 <= DueNs(i) <=> (t + 1) * Rate <= need + Rate - 1
  <2>1. need + Rate - 1 \in Nat
    BY <1>1
  <2>2. QED
    BY <1>1, <2>1, DivAtLeast DEF DueNs
<1>4. (t + 1) * Rate = have + Rate
  BY <1>1, Z3
<1>5. DueNs(i) \in Nat
  BY DueNsType
<1> HIDE DEF need, have
<1>6. QED
  BY <1>1, <1>2, <1>3, <1>4, <1>5

-----------------------------------------------------------------------------
(* The inductive invariant. *)

\* Spans are non-empty, in order and do not overlap.
Sorted(cs) ==
  /\ \A k \in 1 .. Len(cs) : cs[k].next < cs[k].end
  /\ \A j, k \in 1 .. Len(cs) : j < k => cs[j].end <= cs[k].next

UpTo(cs, n) == \A k \in 1 .. Len(cs) : cs[k].end <= n

\* The pacer's own books: what it counted is what it issued or skipped.
Books ==
  /\ gateDone <=> pacer = "done"
  /\ pacer = "pacing" => issued + skipped = total
  /\ total <= TotalDue(clock)

Spans ==
  /\ Sorted(credits)
  /\ UpTo(credits, total)
  /\ gateDone => credits = << >>

\* Neither a credit nor a message still to come has been published.
Unspent == \A i \in Index : Credited(i) \/ total <= i => sends[i] = UNSENT

NeverEarly == \A i \in Index : sends[i] # UNSENT => sends[i] >= DueNs(i)

IInv ==
  /\ TypeOK
  /\ Books
  /\ Spans
  /\ Unspent
  /\ NeverEarly
  /\ NoLostWakeup

-----------------------------------------------------------------------------
(* The deque of spans. *)

\* Rewriting one span leaves the others and the length alone.
LEMMA RewriteFacts ==
  ASSUME NEW cs \in Seq(Span), NEW m \in 1 .. Len(cs), NEW span \in Span
  PROVE  LET new == [cs EXCEPT ![m] = span]
         IN /\ new \in Seq(Span) /\ Len(new) = Len(cs)
            /\ \A k \in 1 .. Len(cs) : k # m => new[k] = cs[k]
            /\ new[m] = span
  BY ExceptSeq

\* Extending a sorted deque past its end keeps it sorted and adds just lo .. hi - 1.
LEMMA ExtendFacts ==
  ASSUME NEW cs \in Seq(Span), NEW lo \in Nat, NEW hi \in Nat,
         Sorted(cs), UpTo(cs, lo), lo < hi
  PROVE  /\ Extend(cs, lo, hi) \in Seq(Span)
         /\ Extend(cs, lo, hi) # << >>
         /\ Sorted(Extend(cs, lo, hi))
         /\ UpTo(Extend(cs, lo, hi), hi)
         /\ \A i \in Nat : InSpans(i, Extend(cs, lo, hi))
                             <=> InSpans(i, cs) \/ (lo <= i /\ i < hi)
<1> DEFINE new == Extend(cs, lo, hi)  n == Len(cs)
<1>1. CASE cs # << >> /\ cs[n].end = lo
  <2>1. new = [cs EXCEPT ![n].end = hi] /\ n \in Nat \ {0}
    BY <1>1 DEF Extend
  <2>2. /\ Len(new) = n
        /\ \A k \in 1 .. n : k # n => new[k] = cs[k]
        /\ new[n].next = cs[n].next /\ new[n].end = hi
        /\ new \in Seq(Span)
    <3> DEFINE last == [cs[n] EXCEPT !.end = hi]
    <3>1. n \in 1 .. n /\ cs[n] \in Span
      BY <2>1
    <3>2. last \in Span /\ last.next = cs[n].next /\ last.end = hi
      BY <3>1 DEF Span
    <3>3. new = [cs EXCEPT ![n] = last]
      BY <2>1
    <3> HIDE DEF last, new
    <3>4. QED
      BY <3>1, <3>2, <3>3, RewriteFacts
  <2>3. \A k \in 1 .. n : cs[k] \in Span
    OBVIOUS
  <2>4. new # << >> /\ Sorted(new)
    BY <1>1, <2>1, <2>2, <2>3, SMTT(30) DEF Sorted, UpTo, Span
  <2>5. UpTo(new, hi)
    BY <1>1, <2>1, <2>2, <2>3 DEF UpTo, Span
  <2>6. ASSUME NEW i \in Nat
        PROVE  InSpans(i, new) <=> InSpans(i, cs) \/ (lo <= i /\ i < hi)
    <3>1. cs[n].next < lo
      BY <1>1, <2>1 DEF Sorted
    <3>2. Within(i, new[n]) <=> Within(i, cs[n]) \/ (lo <= i /\ i < hi)
      BY <1>1, <2>1, <2>2, <2>3, <3>1 DEF Within, Span
    <3>3. QED
      BY <2>1, <2>2, <3>2 DEF InSpans
  <2>7. QED
    BY <2>2, <2>4, <2>5, <2>6
<1>2. CASE ~(cs # << >> /\ cs[n].end = lo)
  <2>1. new = Append(cs, [next |-> lo, end |-> hi]) /\ n \in Nat
    BY <1>2 DEF Extend
  <2>2. /\ Len(new) = n + 1
        /\ \A k \in 1 .. n : new[k] = cs[k]
        /\ new[n + 1] = [next |-> lo, end |-> hi]
        /\ new \in Seq(Span)
    BY <2>1 DEF Span
  <2>3. \A k \in 1 .. n : cs[k] \in Span
    OBVIOUS
  <2>4. new # << >> /\ Sorted(new)
    <3>1. new # << >>
      BY <2>1, <2>2
    <3>2. \A k \in 1 .. n + 1 : new[k].next < new[k].end
      BY <2>1, <2>2 DEF Sorted
    <3>3. \A j, k \in 1 .. n + 1 : j < k => new[j].end <= new[k].next
      <4> TAKE j, k \in 1 .. n + 1
      <4>1. CASE k = n + 1
        BY <2>1, <2>2, <4>1 DEF UpTo
      <4>2. CASE k # n + 1
        BY <2>1, <2>2, <4>2, SMTT(30) DEF Sorted
      <4>3. QED
        BY <4>1, <4>2
    <3> HIDE DEF new
    <3>4. QED
      BY <2>2, <3>1, <3>2, <3>3 DEF Sorted
  <2>5. UpTo(new, hi)
    BY <2>1, <2>2, <2>3 DEF UpTo, Span
  <2>6. ASSUME NEW i \in Nat
        PROVE  InSpans(i, new) <=> InSpans(i, cs) \/ (lo <= i /\ i < hi)
    BY <2>1, <2>2 DEF InSpans, Within
  <2>7. QED
    BY <2>2, <2>4, <2>5, <2>6
<1>3. QED
  BY <1>1, <1>2

\* Taking the first index removes it, and it alone, from the deque.
LEMMA SpendFacts ==
  ASSUME NEW cs \in Seq(Span), Sorted(cs), cs # << >>
  PROVE  /\ SpendFirst(cs) \in Seq(Span)
         /\ Sorted(SpendFirst(cs))
         /\ \A n \in Nat : UpTo(cs, n) => UpTo(SpendFirst(cs), n)
         /\ InSpans(Head(cs).next, cs)
         /\ \A i \in Nat : InSpans(i, SpendFirst(cs)) <=> InSpans(i, cs) /\ i # Head(cs).next
         /\ \A i \in Nat : InSpans(i, cs) => Head(cs).next <= i
<1> DEFINE new == SpendFirst(cs)  n == Len(cs)
<1>1. /\ n \in Nat \ {0} /\ Head(cs) = cs[1] /\ cs[1] \in Span
      /\ \A k \in 1 .. n : cs[k] \in Span
  OBVIOUS
<1>2. \A k \in 1 .. n : k # 1 => cs[1].end <= cs[k].next /\ cs[k].next < cs[k].end
  BY <1>1 DEF Sorted
<1>3. cs[1].next < cs[1].end
  BY <1>1 DEF Sorted
<1>4. InSpans(cs[1].next, cs)
  BY <1>1, <1>3 DEF InSpans, Within, Span
<1>5. \A i \in Nat : InSpans(i, cs) => cs[1].next <= i
  BY <1>1, <1>2, <1>3 DEF InSpans, Within, Span
<1>6. CASE cs[1].next + 1 = cs[1].end
  <2>1. new = Tail(cs)
    BY <1>1, <1>6 DEF SpendFirst
  <2>2. /\ new \in Seq(Span) /\ Len(new) = n - 1
        /\ \A k \in 1 .. n - 1 : new[k] = cs[k + 1]
    BY <1>1, <2>1
  <2>3. Sorted(new) /\ \A m \in Nat : UpTo(cs, m) => UpTo(new, m)
    <3> HIDE DEF new
    <3>1. \A k \in 1 .. n - 1 : k + 1 \in 1 .. n
      BY <1>1
    <3>2. Sorted(new)
      BY <1>1, <2>2, <3>1, SMTT(30) DEF Sorted
    <3>3. \A m \in Nat : UpTo(cs, m) => UpTo(new, m)
      BY <1>1, <2>2, <3>1 DEF UpTo
    <3>4. QED
      BY <3>2, <3>3
  <2>4. ASSUME NEW i \in Nat
        PROVE  InSpans(i, new) <=> InSpans(i, cs) /\ i # cs[1].next
    <3>1. InSpans(i, new) <=> \E k \in 2 .. n : Within(i, cs[k])
      <4>1. ASSUME NEW k \in 1 .. n - 1, Within(i, new[k])
            PROVE  \E m \in 2 .. n : Within(i, cs[m])
        BY <1>1, <2>2, <4>1
      <4>2. ASSUME NEW m \in 2 .. n, Within(i, cs[m])
            PROVE  \E k \in 1 .. n - 1 : Within(i, new[k])
        <5>1. m - 1 \in 1 .. n - 1 /\ new[m - 1] = cs[m]
          BY <1>1, <2>2
        <5>2. QED
          BY <4>2, <5>1
      <4>3. QED
        BY <2>2, <4>1, <4>2 DEF InSpans
    <3>2. Within(i, cs[1]) <=> i = cs[1].next
      BY <1>1, <1>6 DEF Within, Span
    <3>3. \A k \in 2 .. n : Within(i, cs[k]) => i # cs[1].next
      BY <1>1, <1>2, <1>3 DEF Within, Span
    <3>4. InSpans(i, cs) <=> Within(i, cs[1]) \/ \E k \in 2 .. n : Within(i, cs[k])
      BY <1>1 DEF InSpans
    <3>5. QED
      BY <3>1, <3>2, <3>3, <3>4
  <2>5. QED
    BY <1>1, <1>4, <1>5, <2>2, <2>3, <2>4
<1>7. CASE cs[1].next + 1 # cs[1].end
  <2>1. new = [cs EXCEPT ![1].next = cs[1].next + 1]
    BY <1>1, <1>7 DEF SpendFirst
  <2>2. /\ new \in Seq(Span) /\ Len(new) = n
        /\ \A k \in 1 .. n : k # 1 => new[k] = cs[k]
        /\ new[1].next = cs[1].next + 1 /\ new[1].end = cs[1].end
    <3> DEFINE first == [cs[1] EXCEPT !.next = cs[1].next + 1]
    <3>1. first \in Span /\ first.next = cs[1].next + 1 /\ first.end = cs[1].end
      BY <1>1, SMTT(30) DEF Span
    <3>2. new = [cs EXCEPT ![1] = first] /\ 1 \in 1 .. n
      BY <1>1, <2>1
    <3> HIDE DEF first, new
    <3>3. QED
      BY <3>1, <3>2, RewriteFacts
  <2>3. Sorted(new)
    <3> HIDE DEF new
    <3>1. cs[1].next + 1 < cs[1].end
      BY <1>1, <1>3, <1>7 DEF Span
    <3>2. \A k \in 1 .. n : new[k].next < new[k].end
      BY <2>2, <3>1 DEF Sorted
    <3>3. \A j, k \in 1 .. n : j < k => new[j].end <= new[k].next
      BY <1>1, <2>2 DEF Sorted
    <3>4. QED
      BY <2>2, <3>2, <3>3 DEF Sorted
  <2>4. \A m \in Nat : UpTo(cs, m) => UpTo(new, m)
    BY <1>1, <2>2 DEF UpTo, Span
  <2>5. ASSUME NEW i \in Nat
        PROVE  InSpans(i, new) <=> InSpans(i, cs) /\ i # cs[1].next
    <3>1. Within(i, new[1]) <=> Within(i, cs[1]) /\ i # cs[1].next
      BY <1>1, <2>2 DEF Within, Span
    <3>2. \A k \in 1 .. n : k # 1 /\ Within(i, cs[k]) => i # cs[1].next
      BY <1>1, <1>2, <1>3 DEF Within, Span
    <3>3. QED
      BY <1>1, <2>2, <3>1, <3>2 DEF InSpans
  <2>6. QED
    BY <1>1, <1>4, <1>5, <2>2, <2>3, <2>4, <2>5
<1>8. QED
  BY <1>6, <1>7

-----------------------------------------------------------------------------
(* The pieces of a step. *)

LEMMA UnspentCreditsType == UnspentCredits \in Nat
<1>1. IsFiniteSet(Index)
  BY OfferedType, FS_Interval DEF Index
<1>2. IsFiniteSet({i \in Index : Credited(i)})
  BY <1>1, FS_Subset
<1>3. QED
  BY <1>2, FS_CardinalityType DEF UnspentCredits

\* The head of a non-empty deque is a message already due and not yet published.
LEMMA HeadFacts ==
  ASSUME IInv, credits # << >>
  PROVE  /\ Head(credits).next \in Index
         /\ Head(credits).next < total
         /\ sends[Head(credits).next] = UNSENT
         /\ DueNs(Head(credits).next) <= clock
<1> DEFINE i == Head(credits).next
<1>1. credits \in Seq(Span) /\ Sorted(credits) /\ UpTo(credits, total)
  BY DEF IInv, TypeOK, Spans
<1>2. /\ Head(credits) = credits[1] /\ credits[1] \in Span
      /\ 1 \in 1 .. Len(credits)
  BY <1>1
<1>3. i \in Nat /\ i < credits[1].end /\ credits[1].end <= total
  BY <1>1, <1>2 DEF Sorted, UpTo, Span
<1>4. total \in Nat /\ total <= Offered /\ clock \in Nat /\ Offered \in Nat
  BY OfferedType, ScheduleAssumption DEF IInv, TypeOK, Time
<1>5. credits[1].end \in Nat
  BY <1>2 DEF Span
<1>6. i < total
  BY <1>3, <1>4, <1>5
<1>7. i \in Index
  BY <1>3, <1>4, <1>6 DEF Index
<1>8. Credited(i)
  BY <1>1, SpendFacts DEF Credited
<1>9. sends[i] = UNSENT
  BY <1>7, <1>8 DEF IInv, Unspent
<1>10. i < TotalDue(clock)
  <2>1. total <= TotalDue(clock) /\ TotalDue(clock) \in Nat
    BY <1>4, TotalDueType DEF IInv, Books
  <2>2. QED
    BY <1>3, <1>4, <1>6, <2>1
<1>11. DueNs(i) <= clock
  BY <1>3, <1>4, <1>10, CountedWhenDue
<1>12. QED
  BY <1>6, <1>7, <1>9, <1>11

LEMMA InitIInv == Init => IInv
<1> SUFFICES ASSUME Init PROVE IInv
  OBVIOUS
<1>1. TypeOK
  <2>1. clock \in Time /\ total \in 0 .. Offered
    BY ScheduleAssumption, OfferedType DEF Init, Time
  <2>2. sends \in [Index -> Int]
    BY DEF Init, UNSENT
  <2>3. credits \in Seq(Span)
    BY DEF Init
  <2>4. worker \in [Workers -> WorkerStates]
    BY DEF Init, WorkerStates
  <2>5. QED
    BY <2>1, <2>2, <2>3, <2>4 DEF Init, TypeOK
<1>2. Books
  BY ScheduleAssumption, TotalDueType DEF Init, Books
<1>3. Spans
  BY DEF Init, Spans, Sorted, UpTo
<1>4. Unspent /\ NeverEarly
  BY DEF Init, Unspent, NeverEarly
<1>5. NoLostWakeup
  BY DEF Init, NoLostWakeup
<1>6. QED
  BY <1>1, <1>2, <1>3, <1>4, <1>5 DEF IInv

LEMMA ElapseStep == IInv /\ Elapse => IInv'
<1> SUFFICES ASSUME IInv, Elapse PROVE IInv'
  OBVIOUS
<1> USE DEF Elapse, pacerVars, counters
<1>1. TypeOK' /\ clock \in Nat /\ clock' \in Nat /\ clock <= clock'
  BY ScheduleAssumption DEF IInv, TypeOK, Time
<1>2. Books'
  <2>1. TotalDue(clock) <= TotalDue(clock') /\ TotalDue(clock) \in Nat /\ TotalDue(clock') \in Nat
    BY <1>1, TotalDueMonotone, TotalDueType
  <2>2. total \in Nat
    BY OfferedType DEF IInv, TypeOK
  <2>3. total <= TotalDue(clock)
    BY DEF IInv, Books
  <2>4. total' <= TotalDue(clock')
    BY <2>1, <2>2, <2>3
  <2>5. QED
    BY <2>4 DEF IInv, Books
<1>3. Spans'
  BY DEF IInv, Spans
<1>4. Unspent' /\ NeverEarly'
  BY DEF IInv, Unspent, NeverEarly, Credited
<1>5. NoLostWakeup'
  BY DEF IInv, NoLostWakeup
<1>6. QED
  BY <1>1, <1>2, <1>3, <1>4, <1>5 DEF IInv

\* What a wake-up of the pacer computes: it never owes a negative number, keeps at
\* most what is due, and, as issued + skipped is the count, the kept messages are the
\* last of it.
LEMMA PaceFacts ==
  ASSUME IInv, Pace
  PROVE  LET now  == TotalDue(clock)
             due  == now - issued - skipped
             kept == IF due > MaxDue THEN MaxDue ELSE due
         IN /\ now \in Nat /\ now <= Offered /\ total <= now
            /\ due = now - total
            /\ kept \in Nat /\ kept <= due /\ (kept = 0 <=> due = 0)
            /\ now - kept \in Nat /\ total <= now - kept
<1> DEFINE now  == TotalDue(clock)
           due  == now - issued - skipped
           kept == IF due > MaxDue THEN MaxDue ELSE due
<1>1. clock \in Nat /\ clock <= TEnd /\ TEnd \in Nat
  BY ScheduleAssumption DEF Pace, InWindow, IInv, TypeOK, Time
<1>2. now \in Nat /\ now <= Offered
  BY <1>1, TotalDueMonotone, TotalDueType DEF Offered
<1>3. /\ total \in Nat /\ issued \in Nat /\ skipped \in Nat
      /\ issued + skipped = total /\ total <= now
  BY OfferedType DEF Pace, IInv, TypeOK, Books
<1>4. MaxDue \in Nat \ {0}
  BY MaxDueType
<1> HIDE DEF now
<1>5. QED
  BY <1>2, <1>3, <1>4 DEF now

LEMMA PaceStep == IInv /\ Pace => IInv'
<1> SUFFICES ASSUME IInv, Pace PROVE IInv'
  OBVIOUS
<1> DEFINE now  == TotalDue(clock)
           due  == now - issued - skipped
           kept == IF due > MaxDue THEN MaxDue ELSE due
<1>1. /\ now \in Nat /\ now <= Offered /\ total <= now
      /\ due = now - total
      /\ kept \in Nat /\ kept <= due /\ (kept = 0 <=> due = 0)
      /\ now - kept \in Nat /\ total <= now - kept
  BY PaceFacts
<1>2. /\ pacer = "pacing" /\ pacer' = pacer /\ gateDone' = gateDone
      /\ total' = now /\ skipped' = skipped + (due - kept)
      /\ clock' = clock /\ sent' = sent /\ done' = done /\ failed' = failed
      /\ sends' = sends /\ nextTick' = NextTick(nextTick, clock)
  BY DEF Pace, InWindow
<1>3. \/ /\ kept > 0 /\ issued' = issued + kept
         /\ credits' = Extend(credits, now - kept, now) /\ OpenGate
      \/ /\ kept <= 0 /\ UNCHANGED <<issued, credits, worker>>
  BY DEF Pace, InWindow
<1>4. /\ total \in Nat /\ issued \in Nat /\ skipped \in Nat /\ clock \in Nat
      /\ issued + skipped = total /\ credits \in Seq(Span) /\ ~gateDone
      /\ Offered \in Nat
  BY <1>2, OfferedType, ScheduleAssumption DEF IInv, TypeOK, Books, Time
<1>5. Sorted(credits) /\ UpTo(credits, total)
  BY DEF IInv, Spans
<1> HIDE DEF now, due, kept
<1>6. UpTo(credits, now - kept) /\ UpTo(credits, now)
  <2>1. \A k \in 1 .. Len(credits) : credits[k].end \in Nat
    <3>1. \A k \in 1 .. Len(credits) : credits[k] \in Span
      BY <1>4
    <3>2. QED
      BY <3>1 DEF Span
  <2>2. QED
    BY <1>1, <1>4, <1>5, <2>1 DEF UpTo
<1>7. /\ credits' \in Seq(Span) /\ Sorted(credits') /\ UpTo(credits', now)
      /\ \A i \in Nat : InSpans(i, credits') => InSpans(i, credits) \/ now - kept <= i
      /\ worker' \in [Workers -> WorkerStates]
      /\ credits' # << >> => \A w \in Workers : worker'[w] # "parked"
      /\ issued' = issued + kept /\ issued' \in Nat
  <2>1. CASE kept > 0
    <3>1. /\ credits' = Extend(credits, now - kept, now) /\ now - kept < now
          /\ issued' = issued + kept /\ OpenGate
      BY <1>1, <1>3, <2>1
    <3>2. \A w \in Workers : worker'[w] # "parked"
      BY <3>1 DEF OpenGate
    <3>3. worker' \in [Workers -> WorkerStates]
      BY <3>1 DEF OpenGate, IInv, TypeOK, WorkerStates
    <3>4. QED
      BY <1>1, <1>4, <1>5, <1>6, <3>1, <3>2, <3>3, ExtendFacts
  <2>2. CASE ~(kept > 0)
    BY <1>1, <1>3, <1>4, <1>5, <1>6, <2>2 DEF IInv, NoLostWakeup, TypeOK
  <2>3. QED
    BY <2>1, <2>2
<1>8. TypeOK'
  <2>1. nextTick' \in Nat
    BY <1>2, <1>4, ScheduleAssumption DEF NextTick, IInv, TypeOK
  <2>2. skipped' \in Nat
    BY <1>1, <1>2, <1>4
  <2>3. total' \in 0 .. Offered
    BY <1>1, <1>2, <1>4
  <2>4. QED
    BY <1>2, <1>7, <2>1, <2>2, <2>3 DEF IInv, TypeOK
<1>9. Books'
  <2>1. issued' + skipped' = total'
    BY <1>1, <1>2, <1>4, <1>7
  <2>2. total' <= TotalDue(clock')
    BY <1>1, <1>2 DEF now
  <2>3. QED
    BY <1>2, <2>1, <2>2 DEF IInv, Books
<1>10. Spans'
  BY <1>2, <1>4, <1>7 DEF Spans
<1>11. Unspent'
  <2> SUFFICES ASSUME NEW i \in Index, InSpans(i, credits') \/ now <= i
               PROVE  sends[i] = UNSENT
    BY <1>2 DEF Unspent, Credited
  <2>1. i \in Nat
    BY <1>4 DEF Index
  <2>2. InSpans(i, credits) \/ total <= i
    BY <1>1, <1>4, <1>7, <2>1
  <2>3. QED
    BY <2>2 DEF IInv, Unspent, Credited
<1>12. NeverEarly'
  BY <1>2 DEF IInv, NeverEarly
<1>13. NoLostWakeup'
  BY <1>2, <1>4, <1>7 DEF NoLostWakeup
<1>14. QED
  BY <1>8, <1>9, <1>10, <1>11, <1>12, <1>13 DEF IInv

LEMMA FinishStep == IInv /\ Finish => IInv'
<1> SUFFICES ASSUME IInv, Finish PROVE IInv'
  OBVIOUS
<1>1. /\ pacer' = "done" /\ gateDone' = TRUE /\ credits' = << >>
      /\ skipped' = skipped + UnspentCredits
      /\ UNCHANGED <<clock, nextTick, total, issued, sent, done, failed, sends>>
      /\ OpenGate
  BY DEF Finish, InWindow
<1>2. TypeOK'
  <2>1. skipped' \in Nat
    BY <1>1, UnspentCreditsType DEF IInv, TypeOK
  <2>2. worker' \in [Workers -> WorkerStates]
    BY <1>1 DEF OpenGate, IInv, TypeOK, WorkerStates
  <2>3. credits' \in Seq(Span)
    BY <1>1
  <2>4. QED
    BY <1>1, <2>1, <2>2, <2>3 DEF IInv, TypeOK
<1>3. Books'
  BY <1>1 DEF IInv, Books
<1>4. Spans'
  BY <1>1 DEF Spans, Sorted, UpTo
<1>5. Unspent' /\ NeverEarly'
  <2>1. \A i : ~InSpans(i, credits')
    BY <1>1 DEF InSpans
  <2>2. QED
    BY <1>1, <2>1 DEF IInv, Unspent, NeverEarly, Credited
<1>6. NoLostWakeup'
  BY <1>1 DEF NoLostWakeup, OpenGate
<1>7. QED
  BY <1>2, <1>3, <1>4, <1>5, <1>6 DEF IInv

\* The steps of a worker that neither take a credit nor touch the pacer.
LEMMA WaitStep ==
  ASSUME NEW w \in Workers
  PROVE  IInv /\ (Park(w) \/ Return(w) \/ Settle(w)) => IInv'
<1> SUFFICES ASSUME IInv, Park(w) \/ Return(w) \/ Settle(w) PROVE IInv'
  OBVIOUS
<1> USE DEF Park, Return, Settle, pacerVars, counters
<1>1. UNCHANGED <<clock, pacerVars, credits, sent, skipped, sends>>
  OBVIOUS
<1>2. TypeOK'
  <2>1. worker' \in [Workers -> WorkerStates]
    BY DEF IInv, TypeOK, WorkerStates
  <2>2. done' \in Nat /\ failed' \in Nat
    BY DEF IInv, TypeOK
  <2>3. QED
    BY <1>1, <2>1, <2>2 DEF IInv, TypeOK
<1>3. Books' /\ Spans' /\ Unspent' /\ NeverEarly'
  BY <1>1 DEF IInv, Books, Spans, Unspent, NeverEarly, Credited
<1>4. NoLostWakeup'
  <2>1. ASSUME NEW v \in Workers, worker'[v] = "parked"
        PROVE  credits = << >> /\ ~gateDone
    BY <2>1 DEF IInv, TypeOK, NoLostWakeup
  <2>2. QED
    BY <1>1, <2>1 DEF NoLostWakeup
<1>5. QED
  BY <1>2, <1>3, <1>4 DEF IInv

LEMMA TakeStep ==
  ASSUME NEW w \in Workers
  PROVE  IInv /\ Take(w) => IInv'
<1> SUFFICES ASSUME IInv, Take(w) PROVE IInv'
  OBVIOUS
<1> DEFINE i == Head(credits).next
<1>1. /\ credits # << >> /\ credits' = SpendFirst(credits)
      /\ sends' = [sends EXCEPT ![i] = clock] /\ sent' = sent + 1
      /\ worker' = [worker EXCEPT ![w] = "publishing"]
      /\ UNCHANGED <<clock, pacerVars, done, failed, skipped>>
  BY DEF Take
<1>2. i \in Index /\ i < total /\ DueNs(i) <= clock
  BY <1>1, HeadFacts
<1>3. /\ credits \in Seq(Span) /\ Sorted(credits) /\ UpTo(credits, total)
      /\ total \in Nat /\ clock \in Nat /\ sends \in [Index -> Int]
  BY OfferedType, ScheduleAssumption DEF IInv, TypeOK, Spans, Time
<1>4. /\ credits' \in Seq(Span) /\ Sorted(credits') /\ UpTo(credits', total)
      /\ \A j \in Nat : InSpans(j, credits') <=> InSpans(j, credits) /\ j # i
  BY <1>1, <1>3, SpendFacts
<1> HIDE DEF i
<1>5. TypeOK'
  <2>1. sends' \in [Index -> Int]
    BY <1>1, <1>2, <1>3
  <2>2. worker' \in [Workers -> WorkerStates]
    BY <1>1 DEF IInv, TypeOK, WorkerStates
  <2>3. QED
    BY <1>1, <1>4, <2>1, <2>2 DEF IInv, TypeOK, pacerVars
<1>6. Books'
  BY <1>1 DEF IInv, Books, pacerVars
<1>7. Spans'
  BY <1>1, <1>4 DEF IInv, Spans, pacerVars
<1>8. Unspent'
  <2> SUFFICES ASSUME NEW j \in Index, InSpans(j, credits') \/ total <= j
               PROVE  sends'[j] = UNSENT
    BY <1>1 DEF Unspent, Credited, pacerVars
  <2>1. j \in Nat
    BY OfferedType DEF Index
  <2>2. j # i /\ (InSpans(j, credits) \/ total <= j)
    BY <1>2, <1>3, <1>4, <2>1
  <2>3. sends'[j] = sends[j]
    BY <1>1, <1>3, <2>2
  <2>4. QED
    BY <2>2, <2>3 DEF IInv, Unspent, Credited
<1>9. NeverEarly'
  <2> SUFFICES ASSUME NEW j \in Index, sends'[j] # UNSENT
               PROVE  sends'[j] >= DueNs(j)
    BY DEF NeverEarly
  <2>1. CASE j = i
    BY <1>1, <1>2, <1>3, <2>1
  <2>2. CASE j # i
    BY <1>1, <1>3, <2>2 DEF IInv, NeverEarly
  <2>3. QED
    BY <2>1, <2>2
<1>10. NoLostWakeup'
  BY <1>1 DEF IInv, TypeOK, NoLostWakeup, pacerVars
<1>11. QED
  BY <1>5, <1>6, <1>7, <1>8, <1>9, <1>10 DEF IInv

LEMMA CancelStep == IInv /\ Cancel => IInv'
<1> SUFFICES ASSUME IInv, Cancel PROVE IInv'
  OBVIOUS
<1>1. UNCHANGED <<clock, pacerVars, credits, counters, sends>>
  BY DEF Cancel
<1>2. worker' \in [Workers -> WorkerStates] /\ \A w \in Workers : worker'[w] # "parked"
  BY DEF Cancel, IInv, TypeOK, WorkerStates
<1>3. TypeOK'
  BY <1>1, <1>2 DEF IInv, TypeOK, pacerVars, counters
<1>4. Books' /\ Spans' /\ Unspent' /\ NeverEarly'
  <2>1. Books' /\ Spans'
    BY <1>1 DEF IInv, Books, Spans, pacerVars, counters
  <2>2. Unspent' /\ NeverEarly'
    BY <1>1 DEF IInv, Unspent, NeverEarly, Credited, pacerVars
  <2>3. QED
    BY <2>1, <2>2
<1>5. NoLostWakeup'
  BY <1>2 DEF NoLostWakeup
<1>6. QED
  BY <1>3, <1>4, <1>5 DEF IInv

LEMMA StutterStep == IInv /\ UNCHANGED vars => IInv'
<1> SUFFICES ASSUME IInv, UNCHANGED vars PROVE IInv'
  OBVIOUS
<1>1. TypeOK'
  BY DEF vars, pacerVars, counters, IInv, TypeOK
<1>2. Books' /\ Spans' /\ Unspent' /\ NeverEarly' /\ NoLostWakeup'
  BY DEF vars, pacerVars, counters, IInv, Books, Spans, Unspent, NeverEarly, Credited, NoLostWakeup
<1>3. QED
  BY <1>1, <1>2 DEF IInv

LEMMA NextIInv == IInv /\ [Next]_vars => IInv'
  BY ElapseStep, PaceStep, FinishStep, WaitStep, TakeStep, CancelStep, StutterStep
     DEF Next, Work, Stopped

LEMMA Inductive == Spec => []IInv
  BY InitIInv, NextIInv, PTL DEF Spec

-----------------------------------------------------------------------------
(* The theorems. *)

\* Every variable keeps its type; in particular the pacer never counts past the offer.
THEOREM TypeCorrect == Spec => []TypeOK
  BY Inductive, PTL DEF IInv

\* open_gate wakes every waiter, and a worker waits only when there is nothing to take:
\* no credit is left lying while a worker sleeps, and no worker outsleeps the pacer.
THEOREM GateNeverLosesAWakeup == Spec => []NoLostWakeup
  BY Inductive, PTL DEF IInv

\* A message's publish time is stored once, whatever the rate and the delays, and no
\* earlier than due_ns of its index: no credit is spent twice, nor before its time.
THEOREM PublishedOnceAndOnTime == Spec => OnceAndOnTime
<1>1. ASSUME IInv, [Next]_vars, NEW i \in Index, sends'[i] # sends[i]
      PROVE  sends[i] = UNSENT /\ sends'[i] >= DueNs(i)
  <2>1. ASSUME NEW w \in Workers, Take(w) PROVE i = Head(credits).next
    <3>1. sends' = [sends EXCEPT ![Head(credits).next] = clock]
      BY <2>1 DEF Take
    <3>2. QED
      BY <1>1, <3>1 DEF IInv, TypeOK
  <2>2. ASSUME NEW w \in Workers, Take(w) PROVE sends[i] = UNSENT /\ sends'[i] >= DueNs(i)
    <3>1. credits # << >> /\ sends' = [sends EXCEPT ![Head(credits).next] = clock]
      BY <2>2 DEF Take
    <3>2. sends[i] = UNSENT /\ DueNs(i) <= clock
      BY <1>1, <2>1, <2>2, <3>1, HeadFacts
    <3>3. sends'[i] = clock
      BY <1>1, <2>1, <2>2, <3>1 DEF IInv, TypeOK
    <3>4. QED
      BY <3>2, <3>3
  <2>3. ASSUME NEW w \in Workers, Park(w) \/ Return(w) \/ Settle(w) PROVE FALSE
    BY <1>1, <2>3 DEF Park, Return, Settle
  <2>4. CASE Elapse \/ Pace \/ Finish \/ Cancel \/ Stopped \/ UNCHANGED vars
    BY <1>1, <2>4 DEF Elapse, Pace, Finish, Cancel, Stopped, vars
  <2>5. QED
    BY <1>1, <2>2, <2>3, <2>4 DEF Next, Work
<1>2. IInv /\ [Next]_vars
        => [\A i \in Index : sends'[i] # sends[i] => sends[i] = UNSENT /\ sends'[i] >= DueNs(i)]_vars
  BY <1>1
<1>3. QED
  BY <1>2, Inductive, PTL DEF Spec, OnceAndOnTime

-----------------------------------------------------------------------------
(* The books: every count against the set it counts. *)

CreditedSet == {i \in Index : Credited(i)}
Out == {w \in Workers : worker[w] \in {"publishing", "abandoned"}}

LEMMA SetsAreFinite ==
  /\ IsFiniteSet(CreditedSet) /\ UnspentCredits = Cardinality(CreditedSet)
  /\ IsFiniteSet(Out) /\ Cardinality(CreditedSet) \in Nat /\ Cardinality(Out) \in Nat
<1>1. IsFiniteSet(Index)
  BY OfferedType, FS_Interval DEF Index
<1>2. IsFiniteSet(CreditedSet) /\ IsFiniteSet(Out)
  BY <1>1, WorkersAssumption, FS_Subset DEF CreditedSet, Out
<1>3. QED
  BY <1>2, FS_CardinalityType DEF UnspentCredits, CreditedSet

\* Whoever leaves the deque and the workers' publishes alone, and the counters with them.
LEMMA SameSets ==
  /\ credits' = credits => CreditedSet' = CreditedSet
  /\ (\A w \in Workers : worker'[w] \in {"publishing", "abandoned"}
                          <=> worker[w] \in {"publishing", "abandoned"}) => Out' = Out
  BY DEF CreditedSet, Credited, Out

\* The new span holds just the messages due since and kept.
LEMMA PaceAccounts == IInv /\ BooksBalance /\ Pace => BooksBalance'
<1> SUFFICES ASSUME IInv, BooksBalance, Pace PROVE BooksBalance'
  OBVIOUS
<1> DEFINE now  == TotalDue(clock)
           due  == now - issued - skipped
           kept == IF due > MaxDue THEN MaxDue ELSE due
           span == (now - kept) .. (now - 1)
<1>1. /\ now \in Nat /\ now <= Offered /\ total <= now /\ due = now - total
      /\ kept \in Nat /\ kept <= due /\ (kept = 0 <=> due = 0)
      /\ now - kept \in Nat /\ total <= now - kept
  BY PaceFacts
<1>2. /\ total' = now /\ skipped' = skipped + (due - kept)
      /\ sent' = sent /\ done' = done /\ failed' = failed
      /\ \/ kept > 0 /\ credits' = Extend(credits, now - kept, now) /\ OpenGate
         \/ kept <= 0 /\ UNCHANGED <<credits, worker>>
  BY DEF Pace, InWindow
<1>3. /\ total \in Nat /\ skipped \in Nat /\ sent \in Nat /\ Offered \in Nat
      /\ credits \in Seq(Span) /\ Sorted(credits) /\ UpTo(credits, total)
  BY OfferedType DEF IInv, TypeOK, Spans
<1> HIDE DEF now, due, kept
<1>4. Out' = Out
  <2>1. \A w \in Workers : worker'[w] \in {"publishing", "abandoned"}
                            <=> worker[w] \in {"publishing", "abandoned"}
    BY <1>2 DEF OpenGate
  <2>2. QED
    BY <2>1, SameSets
<1>5. CASE kept = 0
  <2>1. credits' = credits
    BY <1>1, <1>2, <1>5
  <2>2. UnspentCredits' = UnspentCredits
    BY <2>1 DEF UnspentCredits, Credited
  <2>3. Accounting'
    BY <1>1, <1>2, <1>3, <1>5, <2>2, UnspentCreditsType DEF BooksBalance, Accounting
  <2>4. QED
    BY <1>2, <1>4, <2>3 DEF BooksBalance, Outstanding, Out
<1>6. CASE kept > 0
  <2>1. \A k \in 1 .. Len(credits) : credits[k] \in Span
    BY <1>3
  <2>2. UpTo(credits, now - kept)
    BY <1>1, <1>3, <2>1 DEF UpTo, Span
  <2>3. \A i \in Nat : InSpans(i, credits')
                        <=> InSpans(i, credits) \/ (now - kept <= i /\ i < now)
    BY <1>1, <1>2, <1>3, <1>6, <2>2, ExtendFacts
  <2>4. \A i \in Nat : InSpans(i, credits) => i < now - kept
    BY <1>1, <2>1, <2>2 DEF InSpans, Within, UpTo, Span
  <2>5. CreditedSet' = CreditedSet \cup span
    BY <1>1, <1>3, <2>3 DEF CreditedSet, Credited, Index
  <2>6. CreditedSet \cap span = {}
    BY <1>1, <1>3, <2>4 DEF CreditedSet, Credited, Index
  <2>7. IsFiniteSet(span) /\ Cardinality(span) = kept
    <3> DEFINE a == now - kept  z == now - 1
    <3>1. a \in Int /\ z \in Int /\ ~(a > z) /\ z - a + 1 = kept
      BY <1>1, <1>6
    <3> HIDE DEF a, z
    <3>2. IsFiniteSet(a .. z) /\ Cardinality(a .. z) = kept
      BY <3>1, FS_Interval
    <3>3. QED
      BY <3>2 DEF a, z
  <2>8. Cardinality(CreditedSet') = Cardinality(CreditedSet) + kept
    <3> HIDE DEF span
    <3>1. Cardinality(CreditedSet \cup span)
            = Cardinality(CreditedSet) + Cardinality(span) - Cardinality(CreditedSet \cap span)
      BY <2>7, SetsAreFinite, FS_Union
    <3>2. Cardinality(CreditedSet \cap span) = 0
      BY <2>6, FS_EmptySet
    <3>3. QED
      BY <1>1, <2>5, <2>7, <3>1, <3>2, SetsAreFinite
  <2>9. UnspentCredits' = Cardinality(CreditedSet') /\ UnspentCredits = Cardinality(CreditedSet)
    BY DEF UnspentCredits, CreditedSet
  <2>10. Accounting'
    BY <1>1, <1>2, <1>3, <2>8, <2>9, SetsAreFinite DEF BooksBalance, Accounting
  <2>11. Outstanding'
    BY <1>2, <1>4 DEF BooksBalance, Outstanding, Out
  <2>12. QED
    BY <2>10, <2>11 DEF BooksBalance
<1>7. QED
  BY <1>1, <1>5, <1>6

LEMMA FinishAccounts == IInv /\ BooksBalance /\ Finish => BooksBalance'
<1> SUFFICES ASSUME IInv, BooksBalance, Finish PROVE BooksBalance'
  OBVIOUS
<1>1. /\ credits' = << >> /\ skipped' = skipped + UnspentCredits /\ OpenGate
      /\ UNCHANGED <<total, sent, done, failed>>
  BY DEF Finish, InWindow
<1>2. UnspentCredits' = 0
  <2>1. {i \in Index : Credited(i)}' = {}
    BY <1>1 DEF Credited, InSpans
  <2>2. QED
    BY <2>1, FS_EmptySet DEF UnspentCredits
<1>3. Accounting'
  BY <1>1, <1>2, UnspentCreditsType DEF BooksBalance, Accounting, IInv, TypeOK
<1>4. Out' = Out
  BY <1>1, SameSets DEF OpenGate
<1>5. QED
  BY <1>1, <1>3, <1>4 DEF BooksBalance, Outstanding, Out

LEMMA TakeAccounts ==
  ASSUME NEW w \in Workers
  PROVE  IInv /\ BooksBalance /\ Take(w) => BooksBalance'
<1> SUFFICES ASSUME IInv, BooksBalance, Take(w) PROVE BooksBalance'
  OBVIOUS
<1> DEFINE i == Head(credits).next
<1>1. /\ credits # << >> /\ credits' = SpendFirst(credits) /\ sent' = sent + 1
      /\ worker[w] = "ready" /\ worker' = [worker EXCEPT ![w] = "publishing"]
      /\ UNCHANGED <<total, done, failed, skipped>>
  BY DEF Take, pacerVars
<1>2. i \in Index /\ Index \subseteq Nat
  BY <1>1, HeadFacts, OfferedType DEF Index
<1>3. /\ credits \in Seq(Span) /\ Sorted(credits) /\ worker \in [Workers -> WorkerStates]
      /\ sent \in Nat /\ done \in Nat /\ failed \in Nat /\ skipped \in Nat /\ total \in Nat
  BY OfferedType DEF IInv, TypeOK, Spans
<1>4. Credited(i) /\ \A j \in Nat : Credited(j)' <=> Credited(j) /\ j # i
  BY <1>1, <1>3, SpendFacts DEF Credited
<1> HIDE DEF i
<1>5. i \in CreditedSet /\ CreditedSet' = CreditedSet \ {i}
  BY <1>2, <1>4 DEF CreditedSet
<1>6. Cardinality(CreditedSet') = Cardinality(CreditedSet) - 1
  BY <1>5, SetsAreFinite, FS_RemoveElement
<1>7. Accounting'
  <2>1. UnspentCredits' = Cardinality(CreditedSet') /\ UnspentCredits = Cardinality(CreditedSet)
    BY DEF UnspentCredits, CreditedSet
  <2>2. QED
    BY <1>1, <1>3, <1>6, <2>1, SetsAreFinite DEF BooksBalance, Accounting
<1>8. w \notin Out /\ Out' = Out \cup {w}
  BY <1>1, <1>3 DEF Out
<1>9. Cardinality(Out') = Cardinality(Out) + 1
  BY <1>8, SetsAreFinite, FS_AddElement
<1>10. sent - done - failed = Cardinality(Out)
  BY DEF BooksBalance, Outstanding, Out
<1>11. sent' - done' - failed' = Cardinality(Out')
  BY <1>1, <1>3, <1>9, <1>10, SetsAreFinite
<1>12. QED
  BY <1>7, <1>11 DEF BooksBalance, Outstanding, Out

LEMMA SettleAccounts ==
  ASSUME NEW w \in Workers
  PROVE  IInv /\ BooksBalance /\ Settle(w) => BooksBalance'
<1> SUFFICES ASSUME IInv, BooksBalance, Settle(w) PROVE BooksBalance'
  OBVIOUS
<1>1. /\ worker[w] = "publishing" /\ worker' = [worker EXCEPT ![w] = "ready"]
      /\ \/ done' = done + 1 /\ UNCHANGED failed
         \/ failed' = failed + 1 /\ UNCHANGED done
      /\ UNCHANGED <<credits, total, sent, skipped>>
  BY DEF Settle, pacerVars
<1>2. /\ worker \in [Workers -> WorkerStates]
      /\ sent \in Nat /\ done \in Nat /\ failed \in Nat
  BY DEF IInv, TypeOK
<1>3. Accounting'
  BY <1>1 DEF BooksBalance, Accounting, UnspentCredits, Credited
<1>4. w \in Out /\ Out' = Out \ {w}
  BY <1>1, <1>2 DEF Out
<1>5. Cardinality(Out') = Cardinality(Out) - 1
  BY <1>4, SetsAreFinite, FS_RemoveElement
<1>6. sent - done - failed = Cardinality(Out)
  BY DEF BooksBalance, Outstanding, Out
<1>7. sent' - done' - failed' = Cardinality(Out')
  BY <1>1, <1>2, <1>5, <1>6, SetsAreFinite
<1>8. QED
  BY <1>3, <1>7 DEF BooksBalance, Outstanding, Out

\* The steps that spend nothing and complete nothing.
LEMMA IdleAccounts ==
  ASSUME IInv, BooksBalance,
         Elapse \/ Cancel \/ Stopped \/ UNCHANGED vars \/ \E w \in Workers : Park(w) \/ Return(w)
  PROVE  BooksBalance'
<1>1. UNCHANGED <<credits, total, sent, done, failed, skipped>>
  BY DEF Elapse, Cancel, Stopped, Park, Return, vars, pacerVars, counters
<1>2. Out' = Out
  <2>1. worker \in [Workers -> WorkerStates]
    BY DEF IInv, TypeOK
  <2>2. \A v \in Workers : worker'[v] \in {"publishing", "abandoned"}
                            <=> worker[v] \in {"publishing", "abandoned"}
    BY <2>1 DEF Elapse, Cancel, Stopped, Park, Return, vars, WorkerStates
  <2>3. QED
    BY <2>2, SameSets
<1>3. Accounting'
  BY <1>1 DEF BooksBalance, Accounting, UnspentCredits, Credited
<1>4. QED
  BY <1>1, <1>2, <1>3 DEF BooksBalance, Outstanding, Out

\* What was offered is published, skipped or still a credit, and what was sent is done,
\* failed or with the library: at every moment, for every schedule and pool.
THEOREM BooksAlwaysBalance == Spec => []BooksBalance
<1>1. Init => BooksBalance
  <2> SUFFICES ASSUME Init PROVE BooksBalance
    OBVIOUS
  <2>1. CreditedSet = {} /\ Out = {}
    BY DEF Init, CreditedSet, Credited, InSpans, Out
  <2>2. Cardinality(CreditedSet) = 0 /\ Cardinality(Out) = 0
    BY <2>1, FS_EmptySet
  <2>3. QED
    BY <2>2 DEF Init, BooksBalance, Accounting, Outstanding, UnspentCredits, CreditedSet, Out
<1>2. IInv /\ BooksBalance /\ [Next]_vars => BooksBalance'
  BY PaceAccounts, FinishAccounts, TakeAccounts, SettleAccounts, IdleAccounts DEF Next, Work
<1>3. QED
  BY <1>1, <1>2, Inductive, PTL DEF Spec

-----------------------------------------------------------------------------
(* Every step of the drive is a step of the abstract offer, or changes nothing in it. *)

LEMMA CreditedType == \A i \in Index : Credited(i) \in BOOLEAN
  BY DEF Credited, InSpans

\* A credit is a message already counted.
LEMMA CreditedIsCounted ==
  ASSUME IInv, NEW i \in Index, Credited(i)
  PROVE  i < total
<1>1. /\ credits \in Seq(Span) /\ UpTo(credits, total)
      /\ total \in Nat /\ i \in Nat
  BY OfferedType DEF IInv, TypeOK, Spans, Index
<1>2. PICK k \in 1 .. Len(credits) : Within(i, credits[k])
  BY DEF Credited, InSpans
<1>3. credits[k] \in Span /\ credits[k].end <= total
  BY <1>1 DEF UpTo
<1>4. QED
  BY <1>1, <1>2, <1>3 DEF Within, Span

LEMMA InitRefines == Init => AbstractOffer!Init
<1> SUFFICES ASSUME Init PROVE AbstractOffer!Init
  OBVIOUS
<1>1. \A i \in Index : ~Credited(i) /\ sends[i] = UNSENT /\ ~(i < total)
  BY OfferedType DEF Init, Credited, InSpans, Index
<1>2. fate = [i \in Index |-> "future"]
  BY <1>1 DEF fate
<1>3. QED
  BY <1>2 DEF Init, AbstractOffer!Init, AbstractOffer!Index, Index

LEMMA PaceRefines ==
  ASSUME IInv, Pace
  PROVE  AbstractOffer!Next \/ UNCHANGED AbstractOffer!vars
<1> DEFINE now  == TotalDue(clock)
           due  == now - issued - skipped
           kept == IF due > MaxDue THEN MaxDue ELSE due
<1>1. /\ now \in Nat /\ now <= Offered /\ total <= now
      /\ due = now - total
      /\ kept \in Nat /\ kept <= due /\ (kept = 0 <=> due = 0)
      /\ now - kept \in Nat /\ total <= now - kept
  BY PaceFacts
<1>2. pacer = "pacing" /\ pacer' = pacer /\ total' = now /\ sends' = sends
  BY DEF Pace, InWindow
<1>3. \/ kept > 0 /\ credits' = Extend(credits, now - kept, now)
      \/ kept <= 0 /\ credits' = credits
  BY DEF Pace, InWindow
<1>4. /\ credits \in Seq(Span) /\ Sorted(credits) /\ UpTo(credits, total)
      /\ total \in Nat /\ Offered \in Nat
  BY OfferedType DEF IInv, TypeOK, Spans
<1> HIDE DEF now, due, kept
<1>5. CASE kept > 0
  <2>1. credits' = Extend(credits, now - kept, now) /\ now - kept < now
    BY <1>1, <1>3, <1>5
  <2>2. UpTo(credits, now - kept)
    <3>1. \A k \in 1 .. Len(credits) : credits[k] \in Span
      BY <1>4
    <3>2. \A k \in 1 .. Len(credits) : credits[k].end \in Nat
      BY <3>1 DEF Span
    <3>3. QED
      BY <1>1, <1>4, <3>2 DEF UpTo
  <2>3. \A i \in Index : Credited(i)' <=> Credited(i) \/ (now - kept <= i /\ i < now)
    BY <1>1, <1>4, <2>1, <2>2, ExtendFacts DEF Credited, Index
  <2>4. ASSUME NEW i \in Index
        PROVE  fate'[i] = IF i < total \/ i >= now THEN fate[i]
                          ELSE IF i < now - kept THEN "skipped" ELSE "owed"
    <3>1. i \in Nat
      BY <1>4 DEF Index
    <3>2. Credited(i) => i < total
      BY CreditedIsCounted
    <3>3. sends[i] # UNSENT => i < total
      BY <1>4, <3>1 DEF IInv, Unspent
    <3>4. fate[i] = IF sends[i] # UNSENT THEN "published"
                    ELSE IF Credited(i) THEN "owed"
                    ELSE IF i < total THEN "skipped" ELSE "future"
      BY DEF fate
    <3>5. fate'[i] = IF sends[i] # UNSENT THEN "published"
                     ELSE IF Credited(i)' THEN "owed"
                     ELSE IF i < now THEN "skipped" ELSE "future"
      BY <1>2 DEF fate
    <3>6. QED
      BY <1>1, <1>4, <2>3, <3>1, <3>2, <3>3, <3>4, <3>5
  <2>5. fate' = [i \in Index |-> IF i < total \/ i >= now THEN fate[i]
                                 ELSE IF i < now - kept THEN "skipped" ELSE "owed"]
    BY <2>4 DEF fate
  <2>6. AbstractOffer!Grant(now, kept)
    BY <1>1, <1>2, <1>4, <1>5, <2>5 DEF AbstractOffer!Grant, AbstractOffer!Index, Index
  <2>7. now \in 1 .. Offered /\ kept \in 1 .. now
    BY <1>1, <1>4, <1>5
  <2>8. QED
    BY <2>6, <2>7 DEF AbstractOffer!Next
<1>6. CASE ~(kept > 0)
  <2>1. credits' = credits /\ now = total
    BY <1>1, <1>3, <1>4, <1>6
  <2>2. fate' = fate
    BY <1>2, <2>1 DEF fate, Credited
  <2>3. QED
    BY <1>2, <2>1, <2>2 DEF AbstractOffer!vars
<1>7. QED
  BY <1>5, <1>6

LEMMA FinishRefines ==
  ASSUME IInv, Finish
  PROVE  AbstractOffer!Close
<1>1. /\ pacer = "pacing" /\ pacer' = "done" /\ credits' = << >>
      /\ total' = total /\ sends' = sends
  BY DEF Finish, InWindow
<1>2. \A i \in Index : ~Credited(i)'
  BY <1>1 DEF Credited, InSpans
<1>3. ASSUME NEW i \in Index
      PROVE  fate'[i] = IF fate[i] = "owed" THEN "skipped" ELSE fate[i]
  <2>1. Credited(i) => i < total
    BY CreditedIsCounted
  <2>2. QED
    BY <1>1, <1>2, <2>1 DEF fate
<1>4. fate' = [i \in Index |-> IF fate[i] = "owed" THEN "skipped" ELSE fate[i]]
  BY <1>3 DEF fate
<1>5. QED
  BY <1>1, <1>4 DEF AbstractOffer!Close, AbstractOffer!Index, Index

LEMMA TakeRefines ==
  ASSUME IInv, NEW w \in Workers, Take(w)
  PROVE  AbstractOffer!Next
<1> DEFINE h == Head(credits).next
<1>1. /\ credits # << >> /\ credits' = SpendFirst(credits)
      /\ sends' = [sends EXCEPT ![h] = clock]
      /\ pacer' = pacer /\ total' = total
  BY DEF Take, pacerVars
<1>2. h \in Index /\ sends[h] = UNSENT
  BY <1>1, HeadFacts
<1>3. /\ credits \in Seq(Span) /\ Sorted(credits)
      /\ sends \in [Index -> Int] /\ clock \in Nat
  BY ScheduleAssumption DEF IInv, TypeOK, Spans, Time
<1>4. /\ Credited(h)
      /\ \A j \in Index : Credited(j) => h <= j
      /\ \A j \in Index : Credited(j)' <=> Credited(j) /\ j # h
  BY <1>1, <1>3, SpendFacts DEF Credited, Index
<1> HIDE DEF h
<1>5. fate[h] = "owed" /\ \A j \in Index : fate[j] = "owed" => h <= j
  BY <1>2, <1>4 DEF fate
<1>6. fate' = [fate EXCEPT ![h] = "published"]
  <2>1. ASSUME NEW j \in Index
        PROVE  fate'[j] = IF j = h THEN "published" ELSE fate[j]
    <3>1. CASE j = h
      BY <1>1, <1>2, <1>3, <3>1 DEF fate, UNSENT
    <3>2. CASE j # h
      BY <1>1, <1>3, <1>4, <3>2 DEF fate
    <3>3. QED
      BY <3>1, <3>2
  <2>2. QED
    BY <2>1 DEF fate
<1>7. AbstractOffer!Send(h, "published")
  BY <1>1, <1>2, <1>5, <1>6
     DEF AbstractOffer!Send, AbstractOffer!Owed, AbstractOffer!Index, Index
<1>8. QED
  BY <1>2, <1>7 DEF AbstractOffer!Next, AbstractOffer!Index, Index

LEMMA OtherRefines ==
  ASSUME UNCHANGED <<pacer, total, credits, sends>>
  PROVE  UNCHANGED AbstractOffer!vars
<1>1. fate' = fate
  BY DEF fate, Credited
<1>2. QED
  BY <1>1 DEF AbstractOffer!vars

LEMMA NextRefines == IInv /\ [Next]_vars => [AbstractOffer!Next]_(AbstractOffer!vars)
<1> SUFFICES ASSUME IInv, [Next]_vars
             PROVE  AbstractOffer!Next \/ UNCHANGED AbstractOffer!vars
  OBVIOUS
<1>1. CASE Pace
  BY <1>1, PaceRefines
<1>2. CASE Finish
  BY <1>2, FinishRefines DEF AbstractOffer!Next
<1>3. ASSUME NEW w \in Workers, Take(w)
      PROVE  AbstractOffer!Next
  BY <1>3, TakeRefines
<1>4. ASSUME NEW w \in Workers, Park(w) \/ Return(w) \/ Settle(w)
      PROVE  UNCHANGED AbstractOffer!vars
  BY <1>4, OtherRefines DEF Park, Return, Settle, pacerVars
<1>5. CASE Elapse \/ Cancel \/ Stopped \/ UNCHANGED vars
  BY <1>5, OtherRefines DEF Elapse, Cancel, Stopped, vars, pacerVars
<1>6. QED
  BY <1>1, <1>2, <1>3, <1>4, <1>5 DEF Next, Work

\* The pacer, the deque, the gate and the pool together implement the fixed offer:
\* messages leave oldest first, each meets one fate, and what the drive is too late
\* for is skipped for good.
THEOREM DriveImplementsOffer == Spec => ImplementsOffer
  BY InitRefines, NextRefines, Inductive, PTL DEF Spec, ImplementsOffer, AbstractOffer!Spec
=============================================================================
