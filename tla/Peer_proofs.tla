----------------------------- MODULE Peer_proofs -----------------------------
(***************************************************************************)
(* The C peer, for any schedule, batch, socket and number of identifiers:  *)
(* its two threads never mix packets on the socket, and its counters are   *)
(* what crossed it.  The broker has ahead of it one well-framed stream --  *)
(* the packet it is in, the socket, and what the holder of the lock has    *)
(* yet to write -- and every counter is balanced by the packets between    *)
(* the two ends.                                                           *)
(***************************************************************************)
EXTENDS Peer, TLAPS, SequenceTheorems, FiniteSetTheorems

-----------------------------------------------------------------------------
(* The schedule's integer arithmetic, for every rate. *)

\* Integer division brackets the quotient: `//` of the code rounds down.
LEMMA DivBracket ==
  ASSUME NEW a \in Nat, NEW b \in Nat \ {0}
  PROVE  /\ a \div b \in Nat
         /\ (a \div b) * b <= a
         /\ a < (a \div b + 1) * b
  BY Z3

LEMMA TotalDueType == \A t \in Nat : TotalDue(t) \in Nat
<1> TAKE t \in Nat
<1>1. Rate * t \in Nat /\ NS \in Nat \ {0}
  BY ScheduleAssumption
<1>2. QED
  BY <1>1, DivBracket DEF TotalDue

LEMMA MaxDueType == MaxDue \in Nat \ {0}
<1>1. Rate * TickNs * MaxCatchupTicks \in Nat /\ NS \in Nat \ {0}
  BY ScheduleAssumption
<1>2. QED
  BY <1>1, DivBracket DEF MaxDue

-----------------------------------------------------------------------------
(* The inductive invariant. *)

\* Heads and bodies in turn, each body after its own head; and whole packets only.
InOrder(s) ==
  /\ \A j \in Nat : 2 * j + 1 <= Len(s) => s[2 * j + 1][2] = 1
  /\ \A j \in Nat : 2 * j + 2 <= Len(s) => s[2 * j + 2] = <<s[2 * j + 1][1], 2>>
Whole(s) == InOrder(s) /\ \E n \in Nat : Len(s) = 2 * n

\* What the broker is to read: the packet it is in, the socket, the lock holder's rest.
Opened == IF half = NoPacket THEN <<>> ELSE <<<<half, 1>>>>
InWriting == IF lock = "free" THEN <<>> ELSE pending[lock]
Wire == (Opened \o toBroker) \o InWriting
\* What the peer is to handle.
Inbound == rb \o toPeer

Scalars ==
  /\ mode \in {"source", "sink", "echo"} /\ qos \in 0 .. 2 /\ paced \in BOOLEAN
  /\ clock \in Time /\ up \in BOOLEAN /\ lock \in Threads \cup {"free"}
  /\ nextTick \in Nat /\ due \in 0 .. DueMax /\ skipped \in Nat /\ batch \in 0 .. BatchMax
  /\ stamped \in BOOLEAN /\ pid \in 0 .. MaxPid
  /\ sent \in Nat /\ sentWindow \in Nat /\ acked \in Nat /\ received \in Nat /\ echoed \in Nat
  /\ error \in {"", "send", "recv"}
  /\ half \in Packets \cup {NoPacket} /\ delivered \in 0 .. Deliveries
  /\ published \in Nat /\ completed \in Nat /\ garbled \in BOOLEAN
  /\ pc["reader"] # "handling" => Len(rb) <= 1
  /\ Len(toBroker) <= SocketRoom

Places == {"asleep", "filling", "joining", "printed", "reading", "handling", "locking", "writing", "ended"}

Roles ==
  /\ pc \in [Threads -> Places]
  /\ pc["main"] \in {"asleep", "filling", "locking", "writing", "joining", "printed"}
  /\ pc["reader"] \in {"reading", "handling", "locking", "writing", "ended"}
  /\ \A t \in Threads : lock = t <=> pc[t] = "writing"
  /\ pc["main"] \notin {"locking", "writing"} => pending["main"] = <<>>
  /\ pc["reader"] \notin {"handling", "locking", "writing"} => pending["reader"] = <<>>
  /\ mode # "source" => pc["main"] \in {"joining", "printed"}

\* An identifier a PUBLISH needs is never 0, wherever the PUBLISH is.
Numbered(s) == \A i \in 1 .. Len(s) : s[i][1].type = "PUBLISH" /\ qos > 0 => s[i][1].pid # 0

Lines ==
  /\ toBroker \in Seq(PieceSet) /\ toPeer \in Seq(PieceSet) /\ rb \in Seq(PieceSet)
  /\ pending \in [Threads -> Seq(PieceSet)]
  /\ \A t \in Threads : Numbered(pending[t])
  /\ Numbered(toBroker)

Framing ==
  /\ up => Whole(Wire)
  /\ InOrder(Inbound) /\ (up => Whole(Inbound))
  /\ \A t \in Threads : lock # t => Whole(pending[t])
  /\ ~garbled

Batch ==
  /\ pc["main"] \in {"locking", "writing"} => batch <= due
  /\ pc["main"] \in {"asleep", "filling"} => batch = 0
  /\ mode = "source" /\ pc["main"] \in {"joining", "printed"} /\ error = "" => batch = 0

\* Between the two ends.
Ahead(types) == WholeIn(toBroker, types) + WholeIn(pending["main"], types) + WholeIn(pending["reader"], types)
Back(types) == WholeIn(Inbound, types)

Made == IF mode = "source" THEN sent + batch ELSE echoed

Balances ==
  /\ sentWindow <= sent
  /\ published + Ahead({"PUBLISH"}) <= Made /\ (up => published + Ahead({"PUBLISH"}) = Made)
  /\ mode = "source" => /\ WholeIn(pending["main"], {"PUBLISH"}) <= batch
                        /\ WholeIn(pending["reader"], {"PUBLISH"}) = 0
  /\ acked + Back({"PUBACK", "PUBCOMP"}) <= completed
  /\ received + Back({"PUBLISH"}) <= delivered
  /\ mode = "source" => completed + Ahead({"PUBREL"}) + Back({"PUBREC"}) <= published

IInv == Scalars /\ Roles /\ Lines /\ Framing /\ Batch /\ Balances

-----------------------------------------------------------------------------
(* Counting the packets of a stream by their bodies. *)

Bodies(s, types) == {i \in DOMAIN s : s[i][2] = 2 /\ s[i][1].type \in types}
Weight(piece, types) == IF piece[2] = 2 /\ piece[1].type \in types THEN 1 ELSE 0

LEMMA ImageCount ==
  ASSUME NEW A, NEW B, IsFiniteSet(A), NEW f \in [A -> B],
         \A x, y \in A : f[x] = f[y] => x = y, \A z \in B : \E x \in A : f[x] = z
  PROVE  IsFiniteSet(B) /\ Cardinality(B) = Cardinality(A)
<1>1. f \in Surjection(A, B) /\ f \in Injection(A, B)
  BY DEF Surjection, Injection, IsInjective
<1>2. f \in Bijection(A, B)
  BY <1>1 DEF Bijection
<1>3. ExistsBijection(A, B)
  BY <1>2 DEF ExistsBijection
<1>4. QED
  BY <1>3, FS_Bijection

LEMMA BodiesFinite ==
  ASSUME NEW s \in Seq(PieceSet), NEW types
  PROVE  IsFiniteSet(Bodies(s, types)) /\ WholeIn(s, types) = Cardinality(Bodies(s, types))
         /\ WholeIn(s, types) \in Nat
<1>1. Len(s) \in Nat /\ DOMAIN s = 1 .. Len(s)
  OBVIOUS
<1>2. IsFiniteSet(1 .. Len(s))
  BY <1>1, FS_Interval
<1>3. IsFiniteSet(Bodies(s, types))
  BY <1>1, <1>2, FS_Subset DEF Bodies
<1>4. QED
  BY <1>3, FS_CardinalityType DEF WholeIn, Bodies

LEMMA CountConcat ==
  ASSUME NEW s \in Seq(PieceSet), NEW t \in Seq(PieceSet), NEW types
  PROVE  WholeIn(s \o t, types) = WholeIn(s, types) + WholeIn(t, types)
<1> DEFINE n == Len(s)
           u == s \o t
           A == Bodies(s, types)
           B == Bodies(t, types)
           C == {i \in Bodies(u, types) : i > n}
<1>1. /\ n \in Nat /\ Len(t) \in Nat /\ u \in Seq(PieceSet) /\ Len(u) = n + Len(t)
      /\ DOMAIN s = 1 .. n /\ DOMAIN t = 1 .. Len(t) /\ DOMAIN u = 1 .. n + Len(t)
      /\ \A i \in 1 .. n : u[i] = s[i]
      /\ \A i \in 1 .. Len(t) : u[n + i] = t[i]
  BY ConcatProperties
<1>2. /\ IsFiniteSet(A) /\ WholeIn(s, types) = Cardinality(A) /\ IsFiniteSet(B)
      /\ WholeIn(t, types) = Cardinality(B) /\ WholeIn(u, types) = Cardinality(Bodies(u, types))
      /\ IsFiniteSet(Bodies(u, types))
  BY <1>1, BodiesFinite
<1> HIDE DEF u, n
<1>3. Bodies(u, types) = A \cup C /\ A \cap C = {}
  <2>1. \A i \in DOMAIN u : i \in A <=> i \in Bodies(u, types) /\ ~(i > n)
    BY <1>1 DEF Bodies
  <2>2. A \subseteq DOMAIN u
    BY <1>1 DEF Bodies
  <2>3. QED
    BY <2>1, <2>2 DEF Bodies
<1>4. Cardinality(C) = Cardinality(B) /\ IsFiniteSet(C)
  <2> DEFINE f == [i \in B |-> n + i]
  <2>1. B \subseteq 1 .. Len(t) /\ C \subseteq n + 1 .. n + Len(t)
    BY <1>1 DEF Bodies
  <2>2. \A i \in B : n + i \in C
    BY <1>1, <2>1 DEF Bodies
  <2>3. \A i \in C : i - n \in B /\ n + (i - n) = i
    <3> TAKE i \in C
    <3>1. i - n \in 1 .. Len(t) /\ n + (i - n) = i
      BY <1>1, <2>1
    <3>2. u[i] = t[i - n]
      BY <1>1, <3>1
    <3>3. QED
      BY <1>1, <3>1, <3>2 DEF Bodies
  <2>4. f \in [B -> C]
    BY <2>2
  <2>5. \A x, y \in B : f[x] = f[y] => x = y
    BY <1>1, <2>1
  <2>6. \A z \in C : \E x \in B : f[x] = z
    BY <2>3
  <2> HIDE DEF f, B, C
  <2>7. QED
    BY <1>2, <2>4, <2>5, <2>6, ImageCount
<1>5. Cardinality(A \cup C) = Cardinality(A) + Cardinality(C) - Cardinality({})
  BY <1>2, <1>3, <1>4, FS_Union
<1>6. Cardinality(A) \in Nat /\ Cardinality(B) \in Nat /\ Cardinality({}) = 0
  BY <1>2, FS_CardinalityType, FS_EmptySet
<1> HIDE DEF A, B, C
<1>7. WholeIn(u, types) = WholeIn(s, types) + WholeIn(t, types)
  BY <1>2, <1>3, <1>4, <1>5, <1>6
<1>8. QED
  BY <1>7 DEF u

LEMMA CountOne ==
  ASSUME NEW piece \in PieceSet, NEW types
  PROVE  WholeIn(<<piece>>, types) = Weight(piece, types)
<1>1. DOMAIN <<piece>> = {1} /\ <<piece>>[1] = piece
  OBVIOUS
<1>2. WholeIn(<<piece>>, types) = Cardinality({i \in {1} : piece[2] = 2 /\ piece[1].type \in types})
  BY <1>1 DEF WholeIn
<1>3. CASE piece[2] = 2 /\ piece[1].type \in types
  <2>1. {i \in {1} : piece[2] = 2 /\ piece[1].type \in types} = {1}
    BY <1>3
  <2>2. QED
    BY <1>2, <1>3, <2>1, FS_Singleton DEF Weight
<1>4. CASE ~(piece[2] = 2 /\ piece[1].type \in types)
  <2>1. {i \in {1} : piece[2] = 2 /\ piece[1].type \in types} = {}
    BY <1>4
  <2>2. QED
    BY <1>2, <1>4, <2>1, FS_EmptySet DEF Weight
<1>5. QED
  BY <1>3, <1>4

LEMMA CountEmpty == ASSUME NEW types PROVE WholeIn(<<>>, types) = 0
<1>1. {i \in DOMAIN <<>> : <<>>[i][2] = 2 /\ <<>>[i][1].type \in types} = {}
  OBVIOUS
<1>2. QED
  BY <1>1, FS_EmptySet DEF WholeIn

LEMMA CountAppend ==
  ASSUME NEW s \in Seq(PieceSet), NEW piece \in PieceSet, NEW types
  PROVE  WholeIn(Append(s, piece), types) = WholeIn(s, types) + Weight(piece, types)
<1>1. Append(s, piece) = s \o <<piece>> /\ <<piece>> \in Seq(PieceSet)
  BY AppendIsConcat
<1>2. WholeIn(s \o <<piece>>, types) = WholeIn(s, types) + WholeIn(<<piece>>, types)
  BY <1>1, CountConcat
<1>3. QED
  BY <1>1, <1>2, CountOne

LEMMA HeadFirst == ASSUME NEW S, NEW s \in Seq(S), s # <<>> PROVE s = <<Head(s)>> \o Tail(s)
<1>1. /\ Head(s) \in S /\ Head(s) = s[1] /\ Tail(s) \in Seq(S) /\ <<Head(s)>> \in Seq(S)
      /\ Len(Tail(s)) = Len(s) - 1 /\ Len(s) \in Nat /\ Len(<<Head(s)>>) = 1
      /\ \A i \in 1 .. Len(Tail(s)) : Tail(s)[i] = s[i + 1]
  BY HeadTailProperties
<1> DEFINE h == <<Head(s)>>  t == Tail(s)  u == h \o t
<1>2. /\ u \in Seq(S) /\ Len(u) = Len(s)
      /\ \A i \in 1 .. Len(s) : u[i] = IF i <= 1 THEN h[i] ELSE t[i - 1]
  BY <1>1, ConcatProperties
<1>3. h[1] = s[1]
  BY <1>1
<1> HIDE DEF h, t, u
<1>4. \A i \in 1 .. Len(s) : u[i] = s[i]
  <2> TAKE i \in 1 .. Len(s)
  <2>1. CASE i = 1
    BY <1>1, <1>2, <1>3, <2>1
  <2>2. CASE i # 1
    <3>1. i - 1 \in 1 .. Len(t) /\ (i - 1) + 1 = i /\ ~(i <= 1)
      BY <1>1, <2>2 DEF t
    <3>2. t[i - 1] = s[i]
      BY <1>1, <3>1 DEF t
    <3>3. QED
      BY <1>2, <3>1, <3>2
  <2>3. QED
    BY <2>1, <2>2
<1>5. u = s
  BY <1>2, <1>4, SeqEqual
<1>6. QED
  BY <1>5 DEF u, h, t

LEMMA CountTail ==
  ASSUME NEW s \in Seq(PieceSet), s # <<>>, NEW types
  PROVE  /\ WholeIn(s, types) = Weight(Head(s), types) + WholeIn(Tail(s), types)
         /\ Head(s) \in PieceSet /\ Tail(s) \in Seq(PieceSet)
<1>1. Head(s) \in PieceSet /\ Tail(s) \in Seq(PieceSet) /\ <<Head(s)>> \in Seq(PieceSet)
  BY HeadTailProperties
<1>2. s = <<Head(s)>> \o Tail(s)
  BY HeadFirst
<1>3. WholeIn(<<Head(s)>> \o Tail(s), types) = WholeIn(<<Head(s)>>, types) + WholeIn(Tail(s), types)
  BY <1>1, CountConcat
<1>4. QED
  BY <1>1, <1>2, <1>3, CountOne

-----------------------------------------------------------------------------
(* Framing. *)

LEMMA Regroup == \A s, t, u \in Seq(PieceSet) : (s \o t) \o u = s \o (t \o u)
  BY ConcatAssociative, SMT

LEMMA ConcatInOrder ==
  ASSUME NEW s \in Seq(PieceSet), NEW t \in Seq(PieceSet), Whole(s), InOrder(t)
  PROVE  InOrder(s \o t)
<1> DEFINE u == s \o t
<1>1. PICK n \in Nat : Len(s) = 2 * n
  BY DEF Whole
<1>2. /\ Len(t) \in Nat /\ Len(u) = 2 * n + Len(t)
      /\ \A i \in 1 .. 2 * n : u[i] = s[i]
      /\ \A i \in 1 .. Len(t) : u[2 * n + i] = t[i]
  <2>1. /\ Len(s) \in Nat /\ Len(t) \in Nat /\ Len(u) = Len(s) + Len(t)
        /\ \A i \in 1 .. Len(s) : u[i] = s[i]
        /\ \A i \in 1 .. Len(t) : u[Len(s) + i] = t[i]
    BY ConcatProperties
  <2> HIDE DEF u
  <2>2. QED
    BY <1>1, <2>1
<1> HIDE DEF u
<1>3. ASSUME NEW j \in Nat, 2 * j + 2 <= 2 * n
      PROVE  u[2 * j + 1] = s[2 * j + 1] /\ u[2 * j + 2] = s[2 * j + 2]
  BY <1>2, <1>3
<1>4. ASSUME NEW j \in Nat, j >= n, 2 * j + 1 <= Len(u)
      PROVE  \E k \in Nat : /\ k = j - n /\ 2 * k + 1 <= Len(t) /\ u[2 * j + 1] = t[2 * k + 1]
                            /\ 2 * j + 2 <= Len(u) => 2 * k + 2 <= Len(t) /\ u[2 * j + 2] = t[2 * k + 2]
  <2> DEFINE k == j - n
  <2>1. k \in Nat /\ 2 * j + 1 = 2 * n + (2 * k + 1) /\ 2 * j + 2 = 2 * n + (2 * k + 2)
    BY <1>4
  <2> HIDE DEF k
  <2>2. 2 * k + 1 \in 1 .. Len(t)
    BY <1>2, <1>4, <2>1
  <2>3. 2 * j + 2 <= Len(u) => 2 * k + 2 \in 1 .. Len(t)
    BY <1>2, <2>1
  <2>4. ASSUME NEW i \in 1 .. Len(t), NEW l, l = 2 * n + i PROVE u[l] = t[i]
    BY <1>2, <2>4
  <2>5. u[2 * j + 1] = t[2 * k + 1]
    BY <2>1, <2>2, <2>4
  <2>6. 2 * j + 2 <= Len(u) => u[2 * j + 2] = t[2 * k + 2]
    BY <2>1, <2>3, <2>4
  <2>7. QED
    BY <2>1, <2>2, <2>3, <2>5, <2>6 DEF k
<1>5. ASSUME NEW j \in Nat, 2 * j + 1 <= Len(u) PROVE u[2 * j + 1][2] = 1
  <2>1. CASE j < n
    <3>1. 2 * j + 2 <= 2 * n /\ 2 * j + 1 <= Len(s)
      BY <1>1, <2>1
    <3>2. u[2 * j + 1] = s[2 * j + 1]
      BY <1>3, <3>1
    <3>3. s[2 * j + 1][2] = 1
      BY <3>1 DEF Whole, InOrder
    <3>4. QED
      BY <3>2, <3>3
  <2>2. CASE j >= n
    <3>1. PICK k \in Nat : 2 * k + 1 <= Len(t) /\ u[2 * j + 1] = t[2 * k + 1]
      BY <1>4, <1>5, <2>2
    <3>2. t[2 * k + 1][2] = 1
      BY <3>1 DEF InOrder
    <3>3. QED
      BY <3>1, <3>2
  <2>3. QED
    BY <2>1, <2>2
<1>6. ASSUME NEW j \in Nat, 2 * j + 2 <= Len(u) PROVE u[2 * j + 2] = <<u[2 * j + 1][1], 2>>
  <2>1. CASE j < n
    <3>1. 2 * j + 2 <= 2 * n /\ 2 * j + 2 <= Len(s)
      BY <1>1, <2>1
    <3>2. QED
      BY <1>3, <3>1 DEF Whole, InOrder
  <2>2. CASE j >= n
    <3>1. 2 * j + 1 <= Len(u)
      BY <1>2, <1>6
    <3>2. PICK k \in Nat : /\ u[2 * j + 1] = t[2 * k + 1]
                          /\ 2 * k + 2 <= Len(t) /\ u[2 * j + 2] = t[2 * k + 2]
      BY <1>4, <1>6, <2>2, <3>1
    <3>3. t[2 * k + 2] = <<t[2 * k + 1][1], 2>>
      BY <3>2 DEF InOrder
    <3>4. QED
      BY <3>2, <3>3
  <2>3. QED
    BY <2>1, <2>2
<1>7. InOrder(u)
  BY <1>5, <1>6 DEF InOrder
<1>8. QED
  BY <1>7 DEF u

LEMMA ConcatWhole ==
  ASSUME NEW s \in Seq(PieceSet), NEW t \in Seq(PieceSet), Whole(s), Whole(t)
  PROVE  Whole(s \o t)
<1>1. PICK n \in Nat : Len(s) = 2 * n
  BY DEF Whole
<1>2. PICK m \in Nat : Len(t) = 2 * m
  BY DEF Whole
<1>3. Len(s \o t) = 2 * (n + m) /\ n + m \in Nat
  <2>1. Len(s \o t) = Len(s) + Len(t)
    BY ConcatProperties
  <2>2. QED
    BY <1>1, <1>2, <2>1
<1>4. InOrder(s \o t)
  BY ConcatInOrder DEF Whole
<1>5. QED
  BY <1>3, <1>4 DEF Whole

LEMMA PrefixInOrder ==
  ASSUME NEW s \in Seq(PieceSet), NEW t \in Seq(PieceSet), InOrder(s \o t)
  PROVE  InOrder(s)
<1> DEFINE u == s \o t
<1>1. /\ Len(s) \in Nat /\ Len(t) \in Nat /\ Len(u) = Len(s) + Len(t)
      /\ \A i \in 1 .. Len(s) : u[i] = s[i]
  BY ConcatProperties
<1> HIDE DEF u
<1>2. InOrder(u)
  BY DEF u
<1>3. ASSUME NEW j \in Nat, 2 * j + 1 <= Len(s) PROVE s[2 * j + 1][2] = 1
  <2>1. 2 * j + 1 \in 1 .. Len(s) /\ 2 * j + 1 <= Len(u)
    BY <1>1, <1>3
  <2>2. QED
    BY <1>1, <1>2, <2>1 DEF InOrder
<1>4. ASSUME NEW j \in Nat, 2 * j + 2 <= Len(s) PROVE s[2 * j + 2] = <<s[2 * j + 1][1], 2>>
  <2>1. 2 * j + 1 \in 1 .. Len(s) /\ 2 * j + 2 \in 1 .. Len(s) /\ 2 * j + 2 <= Len(u)
    BY <1>1, <1>4
  <2>2. QED
    BY <1>1, <1>2, <2>1 DEF InOrder
<1>5. QED
  BY <1>3, <1>4 DEF InOrder

LEMMA EmptyWhole == Whole(<<>>)
<1>1. Len(<<>>) = 0 /\ 2 * 0 = 0
  BY EmptySeq
<1>2. InOrder(<<>>)
  <2>1. \A j \in Nat : ~(2 * j + 1 <= 0) /\ ~(2 * j + 2 <= 0)
    OBVIOUS
  <2>2. QED
    BY <1>1, <2>1 DEF InOrder
<1>3. QED
  BY <1>1, <1>2 DEF Whole

\* Taking the first packet off a stream.
LEMMA FirstPacket ==
  ASSUME NEW s \in Seq(PieceSet), InOrder(s), Len(s) >= 2
  PROVE  /\ Tail(Tail(s)) \in Seq(PieceSet) /\ InOrder(Tail(Tail(s)))
         /\ Whole(s) => Whole(Tail(Tail(s)))
         /\ s[1][2] = 1 /\ s[2] = <<s[1][1], 2>>
         /\ \A types : WholeIn(s, types) = WholeIn(Tail(Tail(s)), types)
                                           + (IF s[2][1].type \in types THEN 1 ELSE 0)
<1> DEFINE r == Tail(s)  t == Tail(r)
<1>1. /\ Len(s) \in Nat /\ s # <<>> /\ r \in Seq(PieceSet) /\ Len(r) = Len(s) - 1
      /\ \A i \in 1 .. Len(r) : r[i] = s[i + 1]
  BY HeadTailProperties, EmptySeq
<1>11. t = Tail(r)
  OBVIOUS
<1> HIDE DEF r, t
<1>2. /\ r # <<>> /\ t \in Seq(PieceSet) /\ Len(t) = Len(s) - 2
      /\ \A i \in 1 .. Len(t) : t[i] = r[i + 1]
  <2>1. r # <<>>
    BY <1>1, EmptySeq
  <2>2. QED
    BY <1>1, <1>11, <2>1, HeadTailProperties
<1>3. \A i \in 1 .. Len(t) : t[i] = s[i + 2]
  <2> TAKE i \in 1 .. Len(t)
  <2>1. i + 1 \in 1 .. Len(r) /\ (i + 1) + 1 = i + 2
    BY <1>1, <1>2
  <2>2. t[i] = r[i + 1] /\ r[i + 1] = s[(i + 1) + 1]
    BY <1>1, <1>2, <2>1
  <2>3. QED
    BY <2>1, <2>2
<1>4. ASSUME NEW j \in Nat, 2 * j + 1 <= Len(t) PROVE t[2 * j + 1][2] = 1
  <2> DEFINE m == j + 1
  <2>1. /\ m \in Nat /\ 2 * j + 1 \in 1 .. Len(t)
        /\ (2 * j + 1) + 2 = 2 * m + 1 /\ 2 * m + 1 <= Len(s)
    <3>1. Len(s) \in Nat /\ Len(t) = Len(s) - 2
      BY <1>1, <1>2
    <3>2. QED
      BY <1>4, <3>1
  <2> HIDE DEF m
  <2>2. s[2 * m + 1][2] = 1
    BY <2>1 DEF InOrder
  <2>3. QED
    BY <1>3, <2>1, <2>2
<1>5. ASSUME NEW j \in Nat, 2 * j + 2 <= Len(t) PROVE t[2 * j + 2] = <<t[2 * j + 1][1], 2>>
  <2> DEFINE m == j + 1
  <2>1. /\ m \in Nat /\ 2 * j + 1 \in 1 .. Len(t) /\ (2 * j + 1) + 2 = 2 * m + 1
        /\ 2 * j + 2 \in 1 .. Len(t) /\ (2 * j + 2) + 2 = 2 * m + 2 /\ 2 * m + 2 <= Len(s)
    <3>1. Len(s) \in Nat /\ Len(t) = Len(s) - 2
      BY <1>1, <1>2
    <3>2. m \in Nat /\ m = j + 1
      OBVIOUS
    <3> HIDE DEF m
    <3>3. 2 * j + 1 \in 1 .. Len(t) /\ 2 * j + 2 \in 1 .. Len(t) /\ (2 * j + 2) + 2 <= Len(s)
      BY <1>5, <3>1
    <3>4. (2 * j + 1) + 2 = 2 * m + 1 /\ (2 * j + 2) + 2 = 2 * m + 2
      BY <3>2
    <3>5. QED
      BY <3>2, <3>3, <3>4
  <2> HIDE DEF m
  <2>2. s[2 * m + 2] = <<s[2 * m + 1][1], 2>>
    BY <2>1 DEF InOrder
  <2>3. QED
    BY <1>3, <2>1, <2>2
<1>6. InOrder(t)
  BY <1>4, <1>5 DEF InOrder
<1>7. Whole(s) => Whole(t)
  <2>1. ASSUME NEW n \in Nat, Len(s) = 2 * n PROVE n - 1 \in Nat /\ Len(t) = 2 * (n - 1)
    BY <1>2, <2>1
  <2>2. QED
    BY <1>6, <2>1 DEF Whole
<1>8. s[1][2] = 1 /\ s[2] = <<s[1][1], 2>>
  <2> DEFINE z == 0
  <2>1. z \in Nat /\ 2 * z + 1 = 1 /\ 2 * z + 2 = 2 /\ 2 * z + 1 <= Len(s) /\ 2 * z + 2 <= Len(s)
    BY <1>1
  <2> HIDE DEF z
  <2>2. s[2 * z + 1][2] = 1 /\ s[2 * z + 2] = <<s[2 * z + 1][1], 2>>
    BY <2>1 DEF InOrder
  <2>3. QED
    BY <2>1, <2>2
<1>9. ASSUME NEW types
      PROVE WholeIn(s, types) = WholeIn(t, types) + (IF s[2][1].type \in types THEN 1 ELSE 0)
  <2>1. Head(s) = s[1] /\ Head(r) = s[2]
    BY <1>1, <1>2
  <2>2. Weight(s[1], types) = 0 /\ Weight(s[2], types) = IF s[2][1].type \in types THEN 1 ELSE 0
    BY <1>8 DEF Weight
  <2>3. WholeIn(s, types) = Weight(Head(s), types) + WholeIn(r, types)
    BY <1>1, CountTail DEF r
  <2>4. WholeIn(r, types) = Weight(Head(r), types) + WholeIn(t, types)
    BY <1>1, <1>2, <1>11, CountTail
  <2>5. WholeIn(t, types) \in Nat
    BY <1>2, BodiesFinite
  <2>6. QED
    BY <2>1, <2>2, <2>3, <2>4, <2>5
<1>10. QED
  BY <1>2, <1>6, <1>7, <1>8, <1>9 DEF r, t

LEMMA FirstWhole ==
  \A s \in Seq(PieceSet) : Whole(s) /\ Len(s) >= 2 => Whole(Tail(Tail(s))) /\ s[2] = <<s[1][1], 2>>
<1> SUFFICES ASSUME NEW s \in Seq(PieceSet), Whole(s), Len(s) >= 2
             PROVE  Whole(Tail(Tail(s))) /\ s[2] = <<s[1][1], 2>>
  OBVIOUS
<1>1. InOrder(s)
  BY DEF Whole
<1>2. QED
  BY <1>1, FirstPacket

-----------------------------------------------------------------------------
(* Packets laid out as pieces. *)

LEMMA HalfIndex ==
  /\ \A n \in Nat : \A i \in 1 .. 2 * n : (i + 1) \div 2 \in 1 .. n
  /\ \A j \in Nat : /\ (2 * j + 1) % 2 = 1 /\ ((2 * j + 1) + 1) \div 2 = j + 1
                    /\ (2 * j + 2) % 2 = 0 /\ ((2 * j + 2) + 1) \div 2 = j + 1
  /\ \A i \in Nat : i % 2 \in {0, 1} /\ (i % 2 = 0 => \E j \in Nat : i = 2 * j) 
<1>1. \A n \in Nat : \A i \in 1 .. 2 * n : (i + 1) \div 2 \in 1 .. n
  BY Z3
<1>2. \A j \in Nat : /\ (2 * j + 1) % 2 = 1 /\ ((2 * j + 1) + 1) \div 2 = j + 1
                     /\ (2 * j + 2) % 2 = 0 /\ ((2 * j + 2) + 1) \div 2 = j + 1
  BY Z3
<1>3. \A i \in Nat : i % 2 \in {0, 1} /\ (i % 2 = 0 => i = 2 * (i \div 2) /\ i \div 2 \in Nat)
  BY Z3
<1>4. QED
  BY <1>1, <1>2, <1>3

LEMMA PiecesWhole ==
  ASSUME NEW s \in Seq(Packets)
  PROVE  /\ Pieces(s) \in Seq(PieceSet) /\ Whole(Pieces(s)) /\ Len(Pieces(s)) = 2 * Len(s)
         /\ \A i \in 1 .. 2 * Len(s) : \E j \in 1 .. Len(s) : Pieces(s)[i][1] = s[j]
         /\ \A j \in 1 .. Len(s) : Pieces(s)[2 * j] = <<s[j], 2>>
<1> DEFINE n == Len(s)  p == Pieces(s)
<1>1. n \in Nat /\ \A j \in 1 .. n : s[j] \in Packets
  OBVIOUS
<1>2. p = [i \in 1 .. 2 * n |-> <<s[(i + 1) \div 2], IF i % 2 = 1 THEN 1 ELSE 2>>]
  BY DEF Pieces
<1> HIDE DEF p, n
<1>3. 2 * n \in Nat /\ \A i \in 1 .. 2 * n : (i + 1) \div 2 \in 1 .. n
  BY <1>1, HalfIndex
<1>4. \A i \in 1 .. 2 * n : p[i] = <<s[(i + 1) \div 2], IF i % 2 = 1 THEN 1 ELSE 2>>
  BY <1>2
<1>5. \A i \in 1 .. 2 * n : p[i] \in PieceSet
  <2> TAKE i \in 1 .. 2 * n
  <2> DEFINE c == s[(i + 1) \div 2]  part == IF i % 2 = 1 THEN 1 ELSE 2
  <2>1. c \in Packets /\ part \in {1, 2}
    BY <1>1, <1>3
  <2>2. p[i] = <<c, part>>
    BY <1>4
  <2> HIDE DEF c, part
  <2>3. QED
    BY <2>1, <2>2 DEF PieceSet
<1>6. p \in Seq(PieceSet) /\ Len(p) = 2 * n
  <2>1. p \in [1 .. 2 * n -> PieceSet]
    BY <1>2, <1>5
  <2>2. QED
    BY <1>3, <2>1
<1>7. ASSUME NEW j \in Nat, 2 * j + 1 <= 2 * n PROVE p[2 * j + 1] = <<s[j + 1], 1>>
  <2>1. 2 * j + 1 \in 1 .. 2 * n
    BY <1>1, <1>7
  <2>2. (2 * j + 1) % 2 = 1 /\ ((2 * j + 1) + 1) \div 2 = j + 1
    BY HalfIndex
  <2> DEFINE i == 2 * j + 1
  <2> HIDE DEF i
  <2>3. p[i] = <<s[(i + 1) \div 2], IF i % 2 = 1 THEN 1 ELSE 2>>
    BY <1>4, <2>1 DEF i
  <2>4. QED
    BY <2>2, <2>3 DEF i
<1>8. ASSUME NEW j \in Nat, 2 * j + 2 <= 2 * n PROVE p[2 * j + 2] = <<s[j + 1], 2>>
  <2>1. 2 * j + 2 \in 1 .. 2 * n
    BY <1>1, <1>8
  <2>2. (2 * j + 2) % 2 = 0 /\ ((2 * j + 2) + 1) \div 2 = j + 1
    BY HalfIndex
  <2> DEFINE i == 2 * j + 2
  <2> HIDE DEF i
  <2>3. p[i] = <<s[(i + 1) \div 2], IF i % 2 = 1 THEN 1 ELSE 2>>
    BY <1>4, <2>1 DEF i
  <2>4. QED
    BY <2>2, <2>3 DEF i
<1>9. InOrder(p)
  <2>1. ASSUME NEW j \in Nat, 2 * j + 1 <= Len(p) PROVE p[2 * j + 1][2] = 1
    BY <1>6, <1>7, <2>1
  <2>2. ASSUME NEW j \in Nat, 2 * j + 2 <= Len(p) PROVE p[2 * j + 2] = <<p[2 * j + 1][1], 2>>
    <3>1. 2 * j + 1 <= 2 * n /\ 2 * j + 2 <= 2 * n
      BY <1>1, <1>6, <2>2
    <3>2. p[2 * j + 1] = <<s[j + 1], 1>> /\ p[2 * j + 2] = <<s[j + 1], 2>>
      BY <1>7, <1>8, <3>1
    <3>3. QED
      BY <3>2
  <2>3. QED
    BY <2>1, <2>2 DEF InOrder
<1>10. \A j \in 1 .. n : p[2 * j] = <<s[j], 2>>
  <2> TAKE j \in 1 .. n
  <2>1. j - 1 \in Nat /\ 2 * (j - 1) + 2 = 2 * j /\ 2 * j <= 2 * n /\ (j - 1) + 1 = j
    BY <1>1
  <2> DEFINE k == j - 1
  <2> HIDE DEF k
  <2>2. k \in Nat /\ 2 * k + 2 = 2 * j /\ k + 1 = j
    BY <2>1 DEF k
  <2>3. p[2 * k + 2] = <<s[k + 1], 2>>
    BY <1>8, <2>1, <2>2
  <2>4. QED
    BY <2>2, <2>3
<1>11. \A i \in 1 .. 2 * n : \E j \in 1 .. n : p[i][1] = s[j]
  BY <1>3, <1>4
<1>12. QED
  BY <1>1, <1>6, <1>9, <1>10, <1>11 DEF Whole, p, n

LEMMA PiecesCount ==
  ASSUME NEW s \in Seq(Packets), NEW types
  PROVE  /\ (\A j \in 1 .. Len(s) : s[j].type \in types) => WholeIn(Pieces(s), types) = Len(s)
         /\ (\A j \in 1 .. Len(s) : s[j].type \notin types) => WholeIn(Pieces(s), types) = 0
<1> DEFINE n == Len(s)  p == Pieces(s)  B == Bodies(p, types)
<1>1. /\ n \in Nat /\ p \in Seq(PieceSet) /\ InOrder(p) /\ Len(p) = 2 * n
      /\ \A j \in 1 .. n : p[2 * j] = <<s[j], 2>>
  BY PiecesWhole DEF Whole
<1>2. WholeIn(p, types) = Cardinality(B)
  BY <1>1, BodiesFinite
<1>3. DOMAIN p = 1 .. 2 * n
  BY <1>1
<1> HIDE DEF p, n
<1>4. ASSUME NEW i \in B PROVE \E j \in 1 .. n : i = 2 * j /\ s[j].type \in types
  <2>1. i \in 1 .. 2 * n /\ p[i][2] = 2 /\ p[i][1].type \in types
    BY <1>3 DEF Bodies
  <2>2. i % 2 = 0
    <3>1. i % 2 = 1 => \E j \in Nat : i = 2 * j + 1
      BY <1>1, <2>1, Z3
    <3>2. ASSUME NEW j \in Nat, i = 2 * j + 1 PROVE FALSE
      <4>1. 2 * j + 1 <= Len(p)
        BY <1>1, <2>1, <3>2
      <4>2. p[2 * j + 1][2] = 1
        BY <1>1, <4>1 DEF InOrder
      <4>3. QED
        BY <2>1, <3>2, <4>2
    <3>3. i \in Nat
      BY <1>1, <2>1
    <3>4. QED
      BY <3>1, <3>2, <3>3, HalfIndex
  <2>3. PICK j \in Nat : i = 2 * j
    BY <1>1, <2>1, <2>2, HalfIndex
  <2>4. j \in 1 .. n
    BY <1>1, <2>1, <2>3
  <2>5. p[i] = <<s[j], 2>>
    BY <1>1, <2>3, <2>4
  <2>6. QED
    BY <2>1, <2>3, <2>4, <2>5
<1>5. ASSUME \A j \in 1 .. n : s[j].type \in types PROVE Cardinality(B) = n
  <2> DEFINE f == [j \in 1 .. n |-> 2 * j]
  <2>1. \A j \in 1 .. n : 2 * j \in B
    <3> TAKE j \in 1 .. n
    <3>1. 2 * j \in 1 .. 2 * n
      BY <1>1
    <3>2. p[2 * j] = <<s[j], 2>> /\ s[j].type \in types
      BY <1>1, <1>5
    <3>3. QED
      BY <1>3, <3>1, <3>2 DEF Bodies
  <2>2. f \in [1 .. n -> B]
    BY <2>1
  <2>3. \A x, y \in 1 .. n : f[x] = f[y] => x = y
    BY <1>1
  <2>4. \A z \in B : \E x \in 1 .. n : f[x] = z
    BY <1>4
  <2>5. IsFiniteSet(1 .. n) /\ Cardinality(1 .. n) = n
    <3>1. \A k \in Nat : IsFiniteSet(1 .. k) /\ Cardinality(1 .. k) = k
      BY FS_Interval
    <3>2. QED
      BY <1>1, <3>1
  <2> HIDE DEF f, B
  <2>6. QED
    BY <2>2, <2>3, <2>4, <2>5, ImageCount
<1>6. ASSUME \A j \in 1 .. n : s[j].type \notin types PROVE Cardinality(B) = 0
  <2>1. B = {}
    BY <1>4, <1>6
  <2>2. QED
    BY <2>1, FS_EmptySet
<1> HIDE DEF B
<1>7. QED
  BY <1>2, <1>5, <1>6 DEF p, n

\* What one answer adds to a stream.
LEMMA PiecesOne ==
  ASSUME NEW x \in Packets
  PROVE  /\ Pieces(<<x>>) \in Seq(PieceSet) /\ Whole(Pieces(<<x>>))
         /\ Len(Pieces(<<x>>)) = 2 /\ Pieces(<<x>>)[1][1] = x /\ Pieces(<<x>>)[2][1] = x
         /\ \A types : WholeIn(Pieces(<<x>>), types) = IF x.type \in types THEN 1 ELSE 0
<1> DEFINE s == <<x>>
<1>1. s \in Seq(Packets) /\ Len(s) = 1 /\ s[1] = x
  OBVIOUS
<1> HIDE DEF s
<1>2. /\ Pieces(s) \in Seq(PieceSet) /\ Whole(Pieces(s)) /\ Len(Pieces(s)) = 2
      /\ \A i \in 1 .. 2 : Pieces(s)[i][1] = x
  <2>1. /\ Pieces(s) \in Seq(PieceSet) /\ Whole(Pieces(s)) /\ Len(Pieces(s)) = 2 * Len(s)
        /\ \A i \in 1 .. 2 * Len(s) : \E j \in 1 .. Len(s) : Pieces(s)[i][1] = s[j]
    BY <1>1, PiecesWhole
  <2>2. QED
    BY <1>1, <2>1
<1>3. ASSUME NEW types PROVE WholeIn(Pieces(s), types) = IF x.type \in types THEN 1 ELSE 0
  <2>1. /\ (\A j \in 1 .. Len(s) : s[j].type \in types) => WholeIn(Pieces(s), types) = Len(s)
        /\ (\A j \in 1 .. Len(s) : s[j].type \notin types) => WholeIn(Pieces(s), types) = 0
    BY <1>1, PiecesCount
  <2>2. \A j \in 1 .. Len(s) : s[j] = x
    BY <1>1
  <2>3. QED
    BY <1>1, <2>1, <2>2
<1>4. QED
  BY <1>2, <1>3 DEF s

LEMMA PiecesNone == Pieces(<<>>) = <<>>
<1>1. <<>> \in Seq(Packets) /\ Len(<<>>) = 0
  OBVIOUS
<1>2. Pieces(<<>>) \in Seq(PieceSet) /\ Len(Pieces(<<>>)) = 0
  <2>1. Pieces(<<>>) \in Seq(PieceSet) /\ Len(Pieces(<<>>)) = 2 * Len(<<>>)
    BY <1>1, PiecesWhole
  <2>2. QED
    BY <1>1, <2>1
<1>3. QED
  BY <1>2, EmptySeq

-----------------------------------------------------------------------------
(* One action at a time: who is where, and the numbers. *)

LEMMA NthPidType == ASSUME pid \in 0 .. MaxPid, NEW n \in Nat \ {0} PROVE NthPid(n) \in 1 .. MaxPid
<1> DEFINE a == pid + n - 1
<1>1. a \in Nat /\ MaxPid \in Nat \ {0}
  BY PeerAssumption
<1> HIDE DEF a
<1>2. a % MaxPid \in 0 .. MaxPid - 1
  BY <1>1, Z3
<1>3. NthPid(n) = (a % MaxPid) + 1
  BY DEF NthPid, a
<1>4. QED
  BY <1>1, <1>2, <1>3

LEMMA ClockType == ASSUME Scalars PROVE clock \in Nat /\ clock \in Time
<1>1. clock \in Time
  BY DEF Scalars
<1>2. QED
  BY <1>1, ScheduleAssumption DEF Time

LEMMA DueMaxType == DueMax \in Nat \ {0}
  BY MaxDueType, PeerAssumption DEF DueMax

\* The pacing arithmetic of one wake-up.
LEMMA OwedBounds ==
  ASSUME Scalars, NEW owed, owed = TotalDue(clock) - sent - skipped,
         NEW over, over = IF owed > MaxDue THEN owed - MaxDue ELSE 0
  PROVE  (IF owed > 0 THEN owed - over ELSE 0) \in 0 .. MaxDue /\ skipped + over \in Nat
<1>1. /\ TotalDue(clock) \in Nat /\ MaxDue \in Nat \ {0} /\ sent \in Nat /\ skipped \in Nat
  <2>1. clock \in Nat
    BY ClockType
  <2>2. QED
    BY <2>1, TotalDueType, MaxDueType DEF Scalars
<1>2. owed \in Int /\ over \in Nat
  BY <1>1
<1>3. QED
  BY <1>1, <1>2

LEMMA NextTickType == ASSUME nextTick \in Nat, clock \in Nat PROVE NextTick(nextTick, clock) \in Nat
  BY ScheduleAssumption DEF NextTick

LEMMA InitScalars == Init => Scalars /\ Roles /\ Lines /\ Batch
<1> SUFFICES ASSUME Init PROVE Scalars /\ Roles /\ Lines /\ Batch
  OBVIOUS
<1>1. <<>> \in Seq(PieceSet) /\ Len(<<>>) = 0
  BY EmptySeq
<1>2. MaxDue \in Nat \ {0} /\ 0 \in Time
  BY MaxDueType, ScheduleAssumption DEF Time
<1>3. Scalars
  <2>1. /\ 0 \in 0 .. DueMax /\ 0 \in 0 .. BatchMax /\ 0 \in 0 .. MaxPid
        /\ 0 \in 0 .. Deliveries /\ 0 <= 1 /\ 0 <= SocketRoom
    BY <1>2, PeerAssumption, DueMaxType
  <2>2. /\ mode \in {"source", "sink", "echo"} /\ qos \in 0 .. 2 /\ clock = 0 /\ up = TRUE
        /\ paced \in BOOLEAN /\ lock = "free" /\ garbled = FALSE /\ stamped = FALSE /\ error = "" /\ half = NoPacket
        /\ rb = <<>> /\ toBroker = <<>>
    BY DEF Init
  <2>3. /\ nextTick = 0 /\ due = 0 /\ skipped = 0 /\ batch = 0 /\ pid = 0 /\ sent = 0 /\ sentWindow = 0
        /\ acked = 0 /\ received = 0 /\ echoed = 0 /\ delivered = 0 /\ published = 0 /\ completed = 0
    BY DEF Init
  <2>4. QED
    BY <1>1, <1>2, <2>1, <2>2, <2>3 DEF Scalars, Threads
<1>4. Roles
  BY DEF Init, Roles, Threads, Places
<1>5. Numbered(<<>>)
  BY <1>1 DEF Numbered
<1>6. Lines
  BY <1>1, <1>5 DEF Init, Lines, Threads
<1>7. Batch
  BY DEF Init, Batch, Threads
<1>8. QED
  BY <1>3, <1>4, <1>6, <1>7

LEMMA NextRoles == ASSUME Roles, Lines, Next PROVE Roles'
<1> USE DEF Roles, Threads, Places
<1>1. DOMAIN pending = {"main", "reader"}
  BY DEF Lines
<1>2. CASE Elapse \/ BrokerReads \/ BrokerDelivers \/ Drop \/ Printed
  BY <1>2 DEF Elapse, BrokerReads, BrokerDelivers, Drop, Printed, vars
<1>3. CASE Wake
  BY <1>3 DEF Wake
<1>4. CASE Fill
  BY <1>4 DEF Fill
<1>5. CASE Rest \/ PrintResult
  BY <1>5 DEF Rest, PrintResult
<1>6. CASE Read \/ Flush \/ ReadError \/ StopReading
  BY <1>6 DEF Read, Flush, ReadError, StopReading
<1>7. CASE Handle
  BY <1>1, <1>7 DEF Handle
<1>8. ASSUME NEW t \in Threads, Acquire(t) PROVE Roles'
  BY <1>8 DEF Acquire
<1>9. ASSUME NEW t \in Threads, Write(t) PROVE Roles'
  BY <1>1, <1>9 DEF Write
<1>10. ASSUME NEW t \in Threads, Written(t) PROVE Roles'
  BY <1>10 DEF Written
<1>11. ASSUME NEW t \in Threads, WriteError(t) PROVE Roles'
  BY <1>1, <1>11 DEF WriteError
<1>12. QED
  BY <1>2, <1>3, <1>4, <1>5, <1>6, <1>7, <1>8, <1>9, <1>10, <1>11
  DEF Next, MainStep, ReaderStep, WriteStep

LEMMA TickKept ==
  ASSUME Scalars, Wake
  PROVE  due' \in 0 .. DueMax /\ skipped' \in Nat /\ nextTick' \in Nat
<1>1. /\ due \in 0 .. DueMax /\ skipped \in Nat /\ nextTick \in Nat /\ clock \in Nat
  BY ClockType DEF Scalars
<1>2. CASE InWindow(clock) /\ paced
  <2> DEFINE owed == TotalDue(clock) - sent - skipped
             over == IF owed > MaxDue THEN owed - MaxDue ELSE 0
  <2>1. /\ due' = IF owed > 0 THEN owed - over ELSE 0
        /\ skipped' = skipped + over /\ nextTick' = NextTick(nextTick, clock)
    BY <1>2 DEF Wake
  <2> HIDE DEF owed, over
  <2>2. (IF owed > 0 THEN owed - over ELSE 0) \in 0 .. MaxDue /\ skipped + over \in Nat
    BY OwedBounds DEF owed, over
  <2>3. QED
    BY <1>1, <1>2, <2>1, <2>2, NextTickType DEF DueMax
<1>3. CASE InWindow(clock) /\ ~paced
  <2>1. due' = BatchMax /\ skipped' = skipped /\ nextTick' = nextTick
    BY <1>3 DEF Wake
  <2>2. QED
    BY <1>1, <1>3, <2>1, PeerAssumption DEF DueMax
<1>4. CASE ~InWindow(clock)
  BY <1>1, <1>4 DEF Wake
<1>5. QED
  BY <1>2, <1>3, <1>4

\* The numbers of a batch.
LEMMA FillNumbers ==
  ASSUME Scalars, Batch, Roles, Fill
  PROVE  /\ batch' \in 1 .. BatchMax /\ batch' <= due /\ batch = 0 /\ mode = "source"
         /\ pid' \in 0 .. MaxPid
         /\ \A i \in 1 .. batch' : /\ (IF qos > 0 THEN NthPid(i) ELSE 0) \in 0 .. MaxPid
                                   /\ qos > 0 => NthPid(i) # 0
<1>1. /\ pc["main"] = "filling" /\ due > 0 /\ batch' = IF due > BatchMax THEN BatchMax ELSE due
      /\ pid' = IF qos > 0 THEN NthPid(batch') ELSE 0
  BY DEF Fill
<1>2. due \in Nat /\ BatchMax \in Nat \ {0} /\ MaxPid \in Nat \ {0} /\ pid \in 0 .. MaxPid /\ qos \in 0 .. 2
  <2>1. due \in 0 .. DueMax /\ pid \in 0 .. MaxPid /\ qos \in 0 .. 2
    BY DEF Scalars
  <2>2. QED
    BY <2>1, PeerAssumption, DueMaxType
<1>3. batch' \in 1 .. BatchMax /\ batch' <= due
  BY <1>1, <1>2
<1>4. ASSUME NEW i \in 1 .. batch' PROVE NthPid(i) \in 1 .. MaxPid
  <2>1. i \in Nat \ {0}
    BY <1>2, <1>3
  <2>2. QED
    BY <1>2, <2>1, NthPidType
<1>5. \A i \in 1 .. batch' : /\ (IF qos > 0 THEN NthPid(i) ELSE 0) \in 0 .. MaxPid
                             /\ qos > 0 => NthPid(i) # 0
  BY <1>2, <1>4
<1>6. batch' \in 1 .. batch'
  BY <1>3
<1>7. batch = 0 /\ mode = "source"
  BY <1>1 DEF Batch, Roles
<1>8. QED
  BY <1>1, <1>3, <1>5, <1>6, <1>7

LEMMA NextBatch == ASSUME Scalars, Roles, Batch, Next PROVE Batch'
<1> USE DEF Batch, Threads
<1>1. CASE Elapse \/ ReaderStep \/ BrokerReads \/ BrokerDelivers \/ Drop \/ Printed
  <2>1. /\ pc'["main"] = pc["main"] /\ UNCHANGED <<batch, due, mode>>
        /\ error' = error \/ error' # "" 
    BY <1>1 DEF Elapse, ReaderStep, Read, Handle, Flush, ReadError, StopReading, BrokerReads,
       BrokerDelivers, Drop, Printed, vars, pacing, Failed, Roles
  <2>2. QED
    BY <2>1
<1>2. CASE Wake \/ Rest \/ PrintResult
  BY <1>2 DEF Wake, Rest, PrintResult, Roles, Places, pacing
<1>3. CASE Fill
  <2>1. batch' <= due /\ due' = due /\ pc'["main"] = "locking"
    BY <1>3, FillNumbers DEF Fill, Roles
  <2>2. QED
    BY <2>1
<1>4. ASSUME NEW t \in Threads, Acquire(t) PROVE Batch'
  BY <1>4 DEF Acquire, Roles, pacing
<1>5. ASSUME NEW t \in Threads, Write(t) PROVE Batch'
  BY <1>5 DEF Write, pacing
<1>6. ASSUME NEW t \in Threads, Written(t) PROVE Batch'
  <2>1. CASE t = "main"
    BY <1>6, <2>1 DEF Written, Roles
  <2>2. CASE t = "reader"
    BY <1>6, <2>2 DEF Written, Roles
  <2>3. QED
    BY <2>1, <2>2
<1>7. ASSUME NEW t \in Threads, WriteError(t) PROVE Batch'
  <2>1. CASE t = "main"
    <3>1. pc'["main"] = "joining" /\ mode = "source"
      BY <1>7, <2>1 DEF WriteError, Roles
    <3>2. error' # ""
      BY <1>7, <2>1 DEF WriteError, Failed
    <3>3. QED
      BY <3>1, <3>2
  <2>2. CASE t = "reader"
    <3>1. pc'["main"] = pc["main"] /\ UNCHANGED <<batch, due, mode>> /\ (error' = error \/ error' # "")
      BY <1>7, <2>2 DEF WriteError, Roles, pacing, Failed
    <3>2. QED
      BY <3>1
  <2>3. QED
    BY <2>1, <2>2
<1>8. QED
  BY <1>1, <1>2, <1>3, <1>4, <1>5, <1>6, <1>7 DEF Next, MainStep, WriteStep

LEMMA ReplyType ==
  ASSUME NEW p \in Packets, NEW reply \in Reply(p)
  PROVE  reply = <<>> \/ \E x \in Packets : /\ reply = <<x>> /\ x.pid = p.pid
                                            /\ x.type # "PUBLISH"
<1>1. p.pid \in 0 .. MaxPid
  BY DEF Packets
<1>2. /\ Packet("PUBACK", p.pid) \in Packets /\ Packet("PUBREC", p.pid) \in Packets
      /\ Packet("PUBREC refused", p.pid) \in Packets /\ Packet("PUBCOMP", p.pid) \in Packets
      /\ Packet("PUBREL", p.pid) \in Packets
      /\ \A type \in Types : Packet(type, p.pid).type = type /\ Packet(type, p.pid).pid = p.pid
  BY <1>1 DEF Packet, Packets, Types
<1> HIDE DEF Packet
<1>3. QED
  BY <1>2 DEF Reply, Types

\* What a peer may owe at once is fixed for the run.
LEMMA DueMaxKept == Next => DueMax' = DueMax
<1> SUFFICES ASSUME Next PROVE paced' = paced
  BY DEF DueMax
<1>1. CASE \E t \in Threads : WriteStep(t)
  BY <1>1 DEF WriteStep, Acquire, Write, Written, WriteError
<1>2. CASE MainStep \/ ReaderStep
  BY <1>2 DEF MainStep, ReaderStep, Wake, Fill, Rest, PrintResult, Read, Handle, Flush, ReadError,
     StopReading
<1>3. CASE Elapse \/ BrokerReads \/ BrokerDelivers \/ Drop \/ Printed
  BY <1>3 DEF Elapse, BrokerReads, BrokerDelivers, Drop, Printed, vars
<1>4. QED
  BY <1>1, <1>2, <1>3 DEF Next

LEMMA NextScalars == ASSUME Scalars, Roles, Lines, Batch, Next PROVE Scalars'
<1> USE DueMaxKept
<1>1. CASE Elapse
  <2>1. clock' \in Time
    BY <1>1, ClockType, ScheduleAssumption DEF Elapse, Time
  <2>2. QED
    BY <1>1, <2>1 DEF Elapse, Scalars, pacing, counters, broker
<1>2. CASE Wake
  <2>1. due' \in 0 .. DueMax /\ skipped' \in Nat /\ nextTick' \in Nat /\ pc'["reader"] = pc["reader"]
    BY <1>2, TickKept DEF Wake, Roles, Threads
  <2>2. QED
    BY <1>2, <2>1 DEF Wake, Scalars, counters, broker
<1>3. CASE Fill
  <2>1. batch' \in 0 .. BatchMax /\ pid' \in 0 .. MaxPid /\ pc'["reader"] = pc["reader"] /\ stamped' \in BOOLEAN
    BY <1>3, FillNumbers DEF Fill, Roles, Threads, InMeasured
  <2>2. QED
    BY <1>3, <2>1 DEF Fill, Scalars, counters, broker
<1>4. CASE Rest \/ PrintResult
  <2>1. pc'["reader"] = pc["reader"]
    BY <1>4 DEF Rest, PrintResult, Roles, Threads
  <2>2. QED
    BY <1>4, <2>1 DEF Rest, PrintResult, Scalars, pacing, counters, broker
<1>5. CASE Read
  <2>1. pc'["reader"] = "handling"
    BY <1>5 DEF Read, Roles, Threads
  <2>2. QED
    BY <1>5, <2>1 DEF Read, Scalars, pacing, counters, broker
<1>6. CASE Handle
  <2>1. pc'["reader"] = "handling"
    BY <1>6 DEF Handle
  <2>2. pid' \in 0 .. MaxPid
    <3>1. pid \in 0 .. MaxPid
      BY DEF Scalars
    <3>2. NthPid(1) \in 0 .. MaxPid
      BY <3>1, NthPidType
    <3>3. pid' = NthPid(1) \/ pid' = pid
      BY <1>6 DEF Handle
    <3>4. QED
      BY <3>1, <3>2, <3>3
  <2>3. acked' \in Nat /\ received' \in Nat /\ echoed' \in Nat
    <3>1. acked \in Nat /\ received \in Nat /\ echoed \in Nat
      BY DEF Scalars
    <3>2. /\ acked' = acked + 1 \/ acked' = acked
          /\ received' = received + 1 \/ received' = received
          /\ echoed' = echoed + 1 \/ echoed' = echoed
      BY <1>6 DEF Handle
    <3>3. QED
      BY <3>1, <3>2
  <2>4. UNCHANGED <<mode, qos, paced, clock, up, lock, pacing, sent, sentWindow, error, toBroker, broker>>
    BY <1>6 DEF Handle
  <2>5. QED
    BY <2>1, <2>2, <2>3, <2>4 DEF Scalars, pacing, broker
<1>7. CASE Flush
  <2>1. /\ UNCHANGED <<mode, qos, paced, clock, up, lock, pacing, pid, rb, counters, error, toBroker, broker>>
        /\ Len(rb) < 2
    BY <1>7 DEF Flush
  <2>2. Len(rb) <= 1
    <3>1. Len(rb) \in Nat
      BY DEF Lines
    <3>2. QED
      BY <2>1, <3>1
  <2>3. QED
    BY <2>1, <2>2 DEF Scalars, pacing, counters, broker
<1>8. CASE ReadError \/ StopReading
  <2>1. UNCHANGED <<mode, qos, paced, clock, up, lock, pacing, pid, rb, counters, toBroker, broker>>
    BY <1>8 DEF ReadError, StopReading
  <2>2. error' \in {"", "send", "recv"} /\ Len(rb) <= 1
    BY <1>8 DEF ReadError, StopReading, Failed, Scalars
  <2>3. QED
    BY <2>1, <2>2 DEF Scalars, pacing, counters, broker
<1>9. ASSUME NEW t \in Threads, Acquire(t) PROVE Scalars'
  <2>1. pc'["reader"] = pc["reader"] \/ (pc["reader"] = "locking" /\ pc'["reader"] # "handling")
    BY <1>9 DEF Acquire, Roles, Threads
  <2>2. UNCHANGED <<mode, qos, paced, clock, up, pacing, pid, rb, counters, error, toBroker, broker>> /\ lock' = t
    BY <1>9 DEF Acquire
  <2>3. QED
    BY <2>1, <2>2 DEF Scalars, pacing, counters, broker
<1>10. ASSUME NEW t \in Threads, Write(t) PROVE Scalars'
  <2>1. UNCHANGED <<mode, qos, paced, clock, up, pc, lock, pacing, pid, rb, counters, error, broker>>
    BY <1>10 DEF Write
  <2>2. Len(toBroker') <= SocketRoom
    <3>1. /\ pending[t] \in Seq(PieceSet) /\ pending[t] # <<>> /\ toBroker \in Seq(PieceSet)
          /\ toBroker' = Append(toBroker, Head(pending[t])) /\ Len(toBroker) < SocketRoom
      BY <1>10 DEF Write, Lines
    <3>2. Head(pending[t]) \in PieceSet
      BY <3>1, HeadTailProperties
    <3>3. Len(toBroker') = Len(toBroker) + 1 /\ Len(toBroker) \in Nat
      BY <3>1, <3>2, AppendProperties
    <3>4. QED
      BY <3>1, <3>3, PeerAssumption
  <2>3. QED
    BY <2>1, <2>2 DEF Scalars, pacing, counters, broker
<1>11. ASSUME NEW t \in Threads, Written(t) PROVE Scalars'
  <2>1. UNCHANGED <<mode, qos, paced, clock, up, nextTick, skipped, stamped, pid, rb, acked, received, echoed,
                    error, toBroker, broker>> /\ lock' = "free"
    BY <1>11 DEF Written
  <2>2. /\ due \in 0 .. DueMax /\ batch \in 0 .. BatchMax /\ sent \in Nat /\ sentWindow \in Nat
        /\ DueMax \in Nat /\ BatchMax \in Nat
    BY DueMaxType, PeerAssumption DEF Scalars
  <2>3. /\ due' \in 0 .. DueMax /\ batch' \in 0 .. BatchMax /\ sent' \in Nat /\ sentWindow' \in Nat
        /\ pc'["reader"] = pc["reader"] \/ pc["reader"] = "writing"
    <3>1. CASE t = "main"
      <4>1. batch <= due /\ pc'["reader"] = pc["reader"]
        BY <1>11, <3>1 DEF Written, Batch, Roles, Threads
      <4>2. /\ due' = due - batch /\ batch' = 0 /\ sent' = sent + batch
            /\ sentWindow' = sentWindow + batch \/ sentWindow' = sentWindow
        BY <1>11, <3>1 DEF Written
      <4>3. QED
        BY <2>2, <4>1, <4>2
    <3>2. CASE t = "reader"
      <4>1. UNCHANGED <<due, batch, sent, sentWindow>> /\ pc["reader"] = "writing"
        BY <1>11, <3>2 DEF Written, Threads
      <4>2. QED
        BY <2>2, <4>1
    <3>3. QED
      BY <3>1, <3>2 DEF Threads
  <2>4. QED
    BY <2>1, <2>3 DEF Scalars, broker
<1>12. ASSUME NEW t \in Threads, WriteError(t) PROVE Scalars'
  <2>1. /\ UNCHANGED <<mode, qos, paced, clock, up, pacing, pid, rb, counters, toBroker, broker>> /\ lock' = "free"
        /\ pc'["reader"] = pc["reader"] \/ pc["reader"] = "writing"
    BY <1>12 DEF WriteError, Roles, Threads
  <2>2. error' \in {"", "send", "recv"}
    BY <1>12 DEF WriteError, Failed, Scalars
  <2>3. QED
    BY <2>1, <2>2 DEF Scalars, pacing, counters, broker
<1>13. CASE BrokerReads
  <2>1. UNCHANGED <<mode, qos, paced, clock, up, pc, lock, pacing, pid, rb, counters, error, delivered>>
    BY <1>13 DEF BrokerReads
  <2>2. Len(toBroker') <= SocketRoom
    <3>1. toBroker \in Seq(PieceSet) /\ toBroker # <<>> /\ toBroker' = Tail(toBroker) /\ Len(toBroker) <= SocketRoom
      BY <1>13 DEF BrokerReads, Lines, Scalars
    <3>2. Len(toBroker') = Len(toBroker) - 1 /\ Len(toBroker) \in Nat
      BY <3>1, HeadTailProperties
    <3>3. QED
      BY <3>1, <3>2, PeerAssumption
  <2>3. Head(toBroker)[1] \in Packets
    <3>1. Head(toBroker) \in PieceSet
      BY <1>13, HeadTailProperties DEF BrokerReads, Lines
    <3>2. QED
      BY <3>1 DEF PieceSet
  <2>4. half' \in Packets \cup {NoPacket} /\ garbled' \in BOOLEAN
    BY <1>13, <2>3 DEF BrokerReads, Scalars
  <2>5. /\ published' = published \/ published' = published + 1
        /\ completed' = completed \/ completed' = completed + 1
    BY <1>13 DEF BrokerReads
  <2>6. published' \in Nat /\ completed' \in Nat
    <3>1. published \in Nat /\ completed \in Nat
      BY DEF Scalars
    <3>2. QED
      BY <2>5, <3>1
  <2>7. QED
    BY <2>1, <2>2, <2>4, <2>6 DEF Scalars, pacing, counters
<1>14. CASE BrokerDelivers
  <2>1. /\ UNCHANGED <<mode, qos, paced, clock, up, pc, lock, pacing, pid, rb, counters, error, toBroker, half,
                       published, completed, garbled>>
        /\ delivered' = delivered + 1 /\ delivered < Deliveries
    BY <1>14 DEF BrokerDelivers
  <2>2. delivered' \in 0 .. Deliveries
    <3>1. delivered \in 0 .. Deliveries
      BY DEF Scalars
    <3>2. QED
      BY <2>1, <3>1, PeerAssumption
  <2>3. QED
    BY <2>1, <2>2 DEF Scalars, pacing, counters
<1>15. CASE Drop
  <2>1. /\ UNCHANGED <<mode, qos, paced, clock, pc, lock, pacing, pid, rb, counters, error, broker>>
        /\ up' = FALSE /\ toBroker' = <<>>
    BY <1>15 DEF Drop
  <2>2. Len(toBroker') <= SocketRoom
    BY <2>1, PeerAssumption, EmptySeq
  <2>3. QED
    BY <2>1, <2>2 DEF Scalars, pacing, counters, broker
<1>16. CASE Printed
  BY <1>16 DEF Printed, vars, Scalars, pacing, counters, broker
<1>17. QED
  BY <1>1, <1>2, <1>3, <1>4, <1>5, <1>6, <1>7, <1>8, <1>9, <1>10, <1>11, <1>12, <1>13, <1>14, <1>15, <1>16
  DEF Next, MainStep, ReaderStep, WriteStep

-----------------------------------------------------------------------------
(* What is on the lines. *)

LEMMA NumberedEmpty == Numbered(<<>>)
<1>1. Len(<<>>) = 0
  BY EmptySeq
<1>2. QED
  BY <1>1 DEF Numbered

LEMMA NumberedConcat ==
  ASSUME NEW s \in Seq(PieceSet), NEW t \in Seq(PieceSet), Numbered(s), Numbered(t)
  PROVE  Numbered(s \o t)
<1>1. /\ Len(s) \in Nat /\ Len(t) \in Nat /\ Len(s \o t) = Len(s) + Len(t)
      /\ \A i \in 1 .. Len(s) + Len(t) : (s \o t)[i] = IF i <= Len(s) THEN s[i] ELSE t[i - Len(s)]
  BY ConcatProperties
<1> SUFFICES ASSUME NEW i \in 1 .. Len(s) + Len(t), (s \o t)[i][1].type = "PUBLISH", qos > 0
             PROVE  (s \o t)[i][1].pid # 0
  BY <1>1 DEF Numbered
<1>2. CASE i <= Len(s)
  <2>1. (s \o t)[i] = s[i] /\ i \in 1 .. Len(s)
    BY <1>1, <1>2
  <2>2. QED
    BY <2>1 DEF Numbered
<1>3. CASE ~(i <= Len(s))
  <2>1. (s \o t)[i] = t[i - Len(s)] /\ i - Len(s) \in 1 .. Len(t)
    BY <1>1, <1>3
  <2>2. QED
    BY <2>1 DEF Numbered
<1>4. QED
  BY <1>2, <1>3

LEMMA NumberedAppend ==
  ASSUME NEW s \in Seq(PieceSet), NEW t \in Seq(PieceSet), t # <<>>, Numbered(s), Numbered(t)
  PROVE  /\ Append(s, Head(t)) \in Seq(PieceSet) /\ Tail(t) \in Seq(PieceSet)
         /\ Numbered(Append(s, Head(t))) /\ Numbered(Tail(t))
<1>1. /\ Head(t) \in PieceSet /\ Tail(t) \in Seq(PieceSet) /\ Len(Tail(t)) = Len(t) - 1
      /\ Len(t) \in Nat \ {0} /\ Head(t) = t[1]
      /\ \A i \in 1 .. Len(Tail(t)) : Tail(t)[i] = t[i + 1]
  BY HeadTailProperties, EmptySeq
<1> DEFINE h == Head(t)  u == Append(s, h)  v == Tail(t)
<1> HIDE DEF h, v
<1>2. /\ u \in Seq(PieceSet) /\ Len(s) \in Nat /\ Len(u) = Len(s) + 1 /\ u[Len(s) + 1] = h
      /\ \A i \in 1 .. Len(s) : u[i] = s[i]
  BY <1>1, AppendProperties DEF h
<1> HIDE DEF u
<1>3. h[1].type = "PUBLISH" /\ qos > 0 => h[1].pid # 0
  <2>1. 1 \in 1 .. Len(t)
    BY <1>1
  <2>2. QED
    BY <1>1, <2>1 DEF Numbered, h
<1>4. Numbered(u)
  <2> SUFFICES ASSUME NEW i \in 1 .. Len(u), u[i][1].type = "PUBLISH", qos > 0 PROVE u[i][1].pid # 0
    BY DEF Numbered
  <2>1. CASE i = Len(s) + 1
    BY <1>2, <1>3, <2>1
  <2>2. CASE i # Len(s) + 1
    <3>1. i \in 1 .. Len(s) /\ u[i] = s[i]
      BY <1>2, <2>2
    <3>2. QED
      BY <3>1 DEF Numbered
  <2>3. QED
    BY <2>1, <2>2
<1>5. Numbered(v)
  <2> SUFFICES ASSUME NEW i \in 1 .. Len(v), v[i][1].type = "PUBLISH", qos > 0 PROVE v[i][1].pid # 0
    BY DEF Numbered
  <2>1. i + 1 \in 1 .. Len(t) /\ v[i] = t[i + 1]
    BY <1>1 DEF v
  <2>2. QED
    BY <2>1 DEF Numbered
<1>6. QED
  BY <1>1, <1>2, <1>4, <1>5 DEF u, v, h

\* What the reader answers a packet with.
LEMMA AckPieces ==
  ASSUME NEW p \in Packets
  PROVE  LET a == Pieces(Ack(p)) IN
         /\ a \in Seq(PieceSet) /\ Whole(a) /\ Numbered(a)
         /\ WholeIn(a, {"PUBLISH"}) = 0
         /\ WholeIn(a, {"PUBREL"}) = IF p.type = "PUBREC" THEN 1 ELSE 0
<1> DEFINE a == Pieces(Ack(p))
<1>1. p.pid \in 0 .. MaxPid
  BY DEF Packets
<1>2. \A type \in Types : /\ Packet(type, p.pid) \in Packets /\ Packet(type, p.pid).type = type
                          /\ Packet(type, p.pid).pid = p.pid
  BY <1>1 DEF Packet, Packets
<1>3. CASE Ack(p) = <<>>
  <2>1. a = <<>> /\ <<>> \in Seq(PieceSet) /\ WholeIn(<<>>, {"PUBLISH"}) = 0 /\ WholeIn(<<>>, {"PUBREL"}) = 0
    BY <1>3, PiecesNone, CountEmpty
  <2>2. p.type # "PUBREC"
    BY <1>3 DEF Ack
  <2>3. QED
    BY <2>1, <2>2, EmptyWhole, NumberedEmpty
<1>4. ASSUME NEW type \in {"PUBREL", "PUBCOMP", "PUBACK", "PUBREC"}, Ack(p) = <<Packet(type, p.pid)>>,
             type = "PUBREL" <=> p.type = "PUBREC"
      PROVE  /\ a \in Seq(PieceSet) /\ Whole(a) /\ Numbered(a)
             /\ WholeIn(a, {"PUBLISH"}) = 0
             /\ WholeIn(a, {"PUBREL"}) = IF p.type = "PUBREC" THEN 1 ELSE 0
  <2> DEFINE x == Packet(type, p.pid)
  <2>1. x \in Packets /\ x.type = type
    BY <1>2 DEF Types
  <2> HIDE DEF x
  <2>2. a = Pieces(<<x>>)
    BY <1>4 DEF x
  <2>3. /\ a \in Seq(PieceSet) /\ Whole(a) /\ Len(a) = 2 /\ a[1][1] = x /\ a[2][1] = x
        /\ \A types : WholeIn(a, types) = IF x.type \in types THEN 1 ELSE 0
    BY <2>1, <2>2, PiecesOne
  <2>4. Numbered(a)
    <3>1. x.type # "PUBLISH" /\ \A i \in 1 .. 2 : i = 1 \/ i = 2
      BY <2>1
    <3>2. QED
      BY <2>3, <3>1 DEF Numbered
  <2>5. WholeIn(a, {"PUBLISH"}) = 0 /\ WholeIn(a, {"PUBREL"}) = IF p.type = "PUBREC" THEN 1 ELSE 0
    BY <1>4, <2>1, <2>3
  <2>6. QED
    BY <2>3, <2>4, <2>5
<1>5. \/ Ack(p) = <<>>
      \/ \E type \in {"PUBREL", "PUBCOMP", "PUBACK", "PUBREC"} :
           Ack(p) = <<Packet(type, p.pid)>> /\ (type = "PUBREL" <=> p.type = "PUBREC")
  BY DEF Ack
<1>6. QED
  BY <1>3, <1>4, <1>5

LEMMA EchoPieces ==
  ASSUME Scalars, NEW p \in Packets
  PROVE  LET e == Pieces(Echo(p)) IN
         /\ e \in Seq(PieceSet) /\ Whole(e) /\ Numbered(e)
         /\ WholeIn(e, {"PUBLISH"}) = IF mode = "echo" /\ p.type = "PUBLISH" THEN 1 ELSE 0
         /\ WholeIn(e, {"PUBREL"}) = 0
<1> DEFINE e == Pieces(Echo(p))
<1>1. CASE ~(mode = "echo" /\ p.type = "PUBLISH")
  <2>1. e = <<>> /\ <<>> \in Seq(PieceSet) /\ WholeIn(<<>>, {"PUBLISH"}) = 0 /\ WholeIn(<<>>, {"PUBREL"}) = 0
    BY <1>1, PiecesNone, CountEmpty DEF Echo
  <2>2. QED
    BY <1>1, <2>1, EmptyWhole, NumberedEmpty
<1>2. CASE mode = "echo" /\ p.type = "PUBLISH"
  <2> DEFINE id == IF qos > 0 THEN NthPid(1) ELSE 0
             x == Packet("PUBLISH", id)
  <2>1. NthPid(1) \in 1 .. MaxPid
    <3>1. pid \in 0 .. MaxPid
      BY DEF Scalars
    <3>2. QED
      BY <3>1, NthPidType
  <2>2. MaxPid \in Nat
    BY PeerAssumption
  <2>3. id \in 0 .. MaxPid /\ (qos > 0 => id # 0)
    BY <2>1, <2>2
  <2>4. Echo(p) = <<x>>
    BY <1>2 DEF Echo
  <2> HIDE DEF id
  <2>5. x \in Packets /\ x.type = "PUBLISH" /\ x.pid = id
    BY <2>3 DEF Packet, Packets, Types
  <2>6. e = Pieces(<<x>>)
    BY <2>4
  <2> HIDE DEF x, e
  <2>7. /\ e \in Seq(PieceSet) /\ Whole(e) /\ Len(e) = 2 /\ e[1][1] = x /\ e[2][1] = x
        /\ \A types : WholeIn(e, types) = IF x.type \in types THEN 1 ELSE 0
    BY <2>5, <2>6, PiecesOne
  <2>8. Numbered(e)
    <3>1. \A i \in 1 .. 2 : i = 1 \/ i = 2
      OBVIOUS
    <3>2. QED
      BY <2>3, <2>5, <2>7, <3>1 DEF Numbered
  <2>9. WholeIn(e, {"PUBLISH"}) = 1 /\ WholeIn(e, {"PUBREL"}) = 0
    BY <2>5, <2>7
  <2>10. QED
    BY <1>2, <2>7, <2>8, <2>9 DEF e
<1>3. QED
  BY <1>1, <1>2

\* The pieces of a batch.
LEMMA FillPieces ==
  ASSUME Scalars, Batch, Roles, Lines, Fill
  PROVE  LET b == pending'["main"] IN
         /\ b \in Seq(PieceSet) /\ Whole(b) /\ Numbered(b)
         /\ WholeIn(b, {"PUBLISH"}) = batch' /\ WholeIn(b, {"PUBREL"}) = 0
         /\ pending["main"] = <<>>
<1> DEFINE n == batch'
           id(i) == IF qos > 0 THEN NthPid(i) ELSE 0
           s == [i \in 1 .. n |-> Packet("PUBLISH", id(i))]
           b == Pieces(s)
<1>1. /\ n \in Nat /\ \A i \in 1 .. n : id(i) \in 0 .. MaxPid /\ (qos > 0 => id(i) # 0)
  <2>1. BatchMax \in Nat
    BY PeerAssumption
  <2>2. QED
    BY <2>1, FillNumbers
<1>2. pending'["main"] = b /\ pending["main"] = <<>>
  BY DEF Fill, Roles, Lines, Threads
<1>3. \A i \in 1 .. n : /\ Packet("PUBLISH", id(i)) \in Packets /\ Packet("PUBLISH", id(i)).type = "PUBLISH"
                        /\ Packet("PUBLISH", id(i)).pid = id(i)
  BY <1>1 DEF Packet, Packets, Types
<1> HIDE DEF id
<1>4. s \in Seq(Packets) /\ Len(s) = n /\ \A i \in 1 .. n : s[i].type = "PUBLISH" /\ s[i].pid = id(i)
  <2>1. s \in [1 .. n -> Packets]
    BY <1>3
  <2>2. QED
    BY <1>1, <1>3, <2>1
<1> HIDE DEF s, n
<1>5. /\ b \in Seq(PieceSet) /\ Whole(b) /\ Len(b) = 2 * n
      /\ \A i \in 1 .. 2 * n : \E j \in 1 .. n : b[i][1] = s[j]
  <2>1. /\ b \in Seq(PieceSet) /\ Whole(b) /\ Len(b) = 2 * Len(s)
        /\ \A i \in 1 .. 2 * Len(s) : \E j \in 1 .. Len(s) : b[i][1] = s[j]
    BY <1>4, PiecesWhole
  <2>2. QED
    BY <1>4, <2>1
<1>6. WholeIn(b, {"PUBLISH"}) = n /\ WholeIn(b, {"PUBREL"}) = 0
  <2>1. \A j \in 1 .. Len(s) : s[j].type \in {"PUBLISH"} /\ s[j].type \notin {"PUBREL"}
    BY <1>4
  <2>2. QED
    BY <1>4, <2>1, PiecesCount
<1> HIDE DEF b
<1>7. Numbered(b)
  <2> SUFFICES ASSUME NEW i \in 1 .. 2 * n, qos > 0 PROVE b[i][1].pid # 0
    BY <1>5 DEF Numbered
  <2>1. PICK j \in 1 .. n : b[i][1] = s[j]
    BY <1>5
  <2>2. QED
    BY <1>1, <1>4, <2>1
<1>8. QED
  BY <1>2, <1>5, <1>6, <1>7 DEF n

LEMMA DeliveredPacket ==
  ASSUME Scalars
  PROVE  LET x == Packet("PUBLISH", IF qos > 0 THEN (delivered % MaxPid) + 1 ELSE 0)
         IN  x \in Packets /\ x.type = "PUBLISH"
<1>1. delivered \in Nat /\ MaxPid \in Nat \ {0}
  <2>1. delivered \in 0 .. Deliveries
    BY DEF Scalars
  <2>2. QED
    BY <2>1, PeerAssumption
<1>2. delivered % MaxPid \in 0 .. MaxPid - 1
  BY <1>1, Z3
<1>3. (IF qos > 0 THEN (delivered % MaxPid) + 1 ELSE 0) \in 0 .. MaxPid
  BY <1>1, <1>2
<1>4. QED
  BY <1>3 DEF Packet, Packets, Types

LEMMA NextLines == ASSUME Scalars, Roles, Lines, Batch, Next PROVE Lines'
<1>1. ASSUME UNCHANGED <<qos, toBroker, toPeer, rb, pending>> PROVE Lines'
  BY <1>1 DEF Lines, Numbered
<1>2. CASE Elapse \/ Wake \/ Rest \/ PrintResult \/ Flush \/ ReadError \/ StopReading \/ Printed
  BY <1>1, <1>2 DEF Elapse, Wake, Rest, PrintResult, Flush, ReadError, StopReading, Printed, vars
<1>3. ASSUME NEW t \in Threads, Acquire(t) \/ Written(t) PROVE Lines'
  BY <1>1, <1>3 DEF Acquire, Written
<1>4. ASSUME NEW t \in Threads, NEW s \in Seq(PieceSet), Numbered(s), UNCHANGED <<qos, toPeer, rb>>,
             pending' = [pending EXCEPT ![t] = s], toBroker' \in Seq(PieceSet), Numbered(toBroker')
      PROVE  Lines'
  <2>1. pending' \in [Threads -> Seq(PieceSet)] /\ \A u \in Threads : Numbered(pending'[u])
    BY <1>4 DEF Lines
  <2>2. QED
    BY <1>4, <2>1 DEF Lines, Numbered
<1>5. CASE Fill
  <2>1. pending'["main"] \in Seq(PieceSet) /\ Numbered(pending'["main"])
    BY <1>5, FillPieces
  <2>2. pending' = [pending EXCEPT !["main"] = pending'["main"]]
    BY <1>5 DEF Fill, Lines, Threads
  <2>3. UNCHANGED <<qos, toPeer, rb, toBroker>>
    BY <1>5 DEF Fill
  <2>4. "main" \in Threads /\ toBroker \in Seq(PieceSet) /\ Numbered(toBroker)
    BY DEF Threads, Lines
  <2>5. QED
    BY <1>4, <2>1, <2>2, <2>3, <2>4
<1>6. ASSUME NEW t \in Threads, Write(t) PROVE Lines'
  <2>1. /\ pending[t] # <<>> /\ toBroker' = Append(toBroker, Head(pending[t]))
        /\ pending' = [pending EXCEPT ![t] = Tail(pending[t])] /\ UNCHANGED <<qos, toPeer, rb>>
    BY <1>6 DEF Write
  <2>2. /\ pending[t] \in Seq(PieceSet) /\ Numbered(pending[t])
        /\ toBroker \in Seq(PieceSet) /\ Numbered(toBroker)
    BY DEF Lines
  <2>3. /\ toBroker' \in Seq(PieceSet) /\ Numbered(toBroker')
        /\ Tail(pending[t]) \in Seq(PieceSet) /\ Numbered(Tail(pending[t]))
    BY <2>1, <2>2, NumberedAppend
  <2>4. QED
    BY <1>4, <2>1, <2>3
<1>7. ASSUME NEW t \in Threads, WriteError(t) PROVE Lines'
  <2>1. pending' = [pending EXCEPT ![t] = <<>>] /\ UNCHANGED <<qos, toPeer, rb, toBroker>>
    BY <1>7 DEF WriteError
  <2>2. toBroker \in Seq(PieceSet) /\ Numbered(toBroker) /\ <<>> \in Seq(PieceSet)
    BY DEF Lines
  <2>3. QED
    BY <1>4, <2>1, <2>2, NumberedEmpty
<1>8. ASSUME UNCHANGED <<qos, pending>>, toBroker' \in Seq(PieceSet), Numbered(toBroker'),
             toPeer' \in Seq(PieceSet), rb' \in Seq(PieceSet)
      PROVE  Lines'
  BY <1>8 DEF Lines, Numbered
<1>9. CASE Read
  <2>1. PICK k \in 1 .. Len(toPeer) : /\ rb' = rb \o SubSeq(toPeer, 1, k)
                                      /\ toPeer' = SubSeq(toPeer, k + 1, Len(toPeer))
    BY <1>9 DEF Read
  <2>2. /\ toPeer \in Seq(PieceSet) /\ rb \in Seq(PieceSet) /\ toBroker \in Seq(PieceSet) /\ Numbered(toBroker)
        /\ UNCHANGED <<qos, pending, toBroker>>
    BY <1>9 DEF Lines, Read, broker
  <2>3. SubSeq(toPeer, 1, k) \in Seq(PieceSet) /\ toPeer' \in Seq(PieceSet)
    BY <2>1, <2>2
  <2>4. rb' \in Seq(PieceSet)
    BY <2>1, <2>2, <2>3, ConcatProperties
  <2>5. QED
    BY <1>8, <2>2, <2>3, <2>4
<1>10. CASE Handle
  <2> DEFINE p == rb[2][1]
             s == (pending["reader"] \o Pieces(Ack(p))) \o Pieces(Echo(p))
  <2>1. /\ UNCHANGED <<qos, toPeer, toBroker>> /\ rb' = SubSeq(rb, 3, Len(rb)) /\ Len(rb) >= 2
        /\ pending' = [pending EXCEPT !["reader"] = s]
    BY <1>10 DEF Handle
  <2>2. /\ rb \in Seq(PieceSet) /\ toPeer \in Seq(PieceSet) /\ toBroker \in Seq(PieceSet) /\ Numbered(toBroker)
        /\ pending["reader"] \in Seq(PieceSet) /\ Numbered(pending["reader"])
        /\ pending \in [Threads -> Seq(PieceSet)] /\ \A t \in Threads : Numbered(pending[t])
    BY DEF Lines, Threads
  <2>3. p \in Packets
    <3>1. rb[2] \in PieceSet
      BY <2>1, <2>2
    <3>2. QED
      BY <3>1 DEF PieceSet
  <2>4. rb' \in Seq(PieceSet)
    BY <2>1, <2>2
  <2> HIDE DEF p
  <2>5. /\ Pieces(Ack(p)) \in Seq(PieceSet) /\ Numbered(Pieces(Ack(p)))
        /\ Pieces(Echo(p)) \in Seq(PieceSet) /\ Numbered(Pieces(Echo(p)))
    BY <2>3, AckPieces, EchoPieces
  <2>6. pending["reader"] \o Pieces(Ack(p)) \in Seq(PieceSet) /\ Numbered(pending["reader"] \o Pieces(Ack(p)))
    BY <2>2, <2>5, ConcatProperties, NumberedConcat
  <2>7. s \in Seq(PieceSet) /\ Numbered(s)
    BY <2>5, <2>6, ConcatProperties, NumberedConcat
  <2> HIDE DEF s
  <2>8. pending' \in [Threads -> Seq(PieceSet)] /\ \A t \in Threads : Numbered(pending'[t])
    BY <2>1, <2>2, <2>7
  <2>9. QED
    BY <2>1, <2>2, <2>4, <2>8 DEF Lines, Numbered
<1>11. CASE BrokerReads
  <2>1. /\ toBroker # <<>> /\ toBroker' = Tail(toBroker) /\ UNCHANGED <<qos, pending, rb>>
        /\ \/ toPeer' = toPeer
           \/ \E reply \in Reply(Head(toBroker)[1]) : toPeer' = toPeer \o Pieces(reply)
    BY <1>11 DEF BrokerReads
  <2>2. toPeer \in Seq(PieceSet) /\ rb \in Seq(PieceSet) /\ toBroker \in Seq(PieceSet) /\ Numbered(toBroker)
    BY DEF Lines
  <2>3. Tail(toBroker) \in Seq(PieceSet) /\ Numbered(Tail(toBroker)) /\ Head(toBroker) \in PieceSet
    BY <2>1, <2>2, NumberedAppend, HeadTailProperties
  <2>4. toPeer' \in Seq(PieceSet)
    <3>1. Head(toBroker)[1] \in Packets
      BY <2>3 DEF PieceSet
    <3>2. ASSUME NEW reply \in Reply(Head(toBroker)[1]) PROVE Pieces(reply) \in Seq(PieceSet)
      <4>1. reply = <<>> \/ \E x \in Packets : reply = <<x>>
        BY <3>1, ReplyType
      <4>2. <<>> \in Seq(PieceSet)
        OBVIOUS
      <4>3. QED
        BY <4>1, <4>2, PiecesOne, PiecesNone
    <3>3. QED
      BY <2>1, <2>2, <3>2, ConcatProperties
  <2>5. QED
    BY <1>8, <2>1, <2>2, <2>3, <2>4
<1>12. CASE BrokerDelivers
  <2> DEFINE x == Packet("PUBLISH", IF qos > 0 THEN (delivered % MaxPid) + 1 ELSE 0)
  <2>1. toPeer' = toPeer \o Pieces(<<x>>) /\ UNCHANGED <<qos, pending, rb, toBroker>>
    BY <1>12 DEF BrokerDelivers
  <2>2. x \in Packets
    BY DeliveredPacket
  <2>3. toPeer \in Seq(PieceSet) /\ rb \in Seq(PieceSet) /\ toBroker \in Seq(PieceSet) /\ Numbered(toBroker)
    BY DEF Lines
  <2> HIDE DEF x
  <2>4. toPeer' \in Seq(PieceSet)
    BY <2>1, <2>2, <2>3, PiecesOne, ConcatProperties
  <2>5. QED
    BY <1>8, <2>1, <2>3, <2>4
<1>13. CASE Drop
  <2>1. toBroker' = <<>> /\ toPeer' = <<>> /\ UNCHANGED <<qos, pending, rb>>
    BY <1>13 DEF Drop
  <2>2. <<>> \in Seq(PieceSet) /\ rb \in Seq(PieceSet)
    BY DEF Lines
  <2>3. QED
    BY <1>8, <2>1, <2>2, NumberedEmpty
<1>14. QED
  BY <1>2, <1>3, <1>5, <1>6, <1>7, <1>9, <1>10, <1>11, <1>12, <1>13
  DEF Next, MainStep, ReaderStep, WriteStep

-----------------------------------------------------------------------------
(* No packet is written inside another. *)

LEMMA InitFraming == Init => Framing
<1> SUFFICES ASSUME Init PROVE Framing
  OBVIOUS
<1>1. /\ half = NoPacket /\ toBroker = <<>> /\ toPeer = <<>> /\ rb = <<>> /\ lock = "free"
      /\ garbled = FALSE /\ \A t \in Threads : pending[t] = <<>>
  BY DEF Init
<1>2. <<>> \o <<>> = <<>>
  BY EmptySeq, ConcatEmptySeq
<1>3. Wire = <<>> /\ Inbound = <<>>
  BY <1>1, <1>2 DEF Wire, Inbound, Opened, InWriting
<1>4. QED
  BY <1>1, <1>3, EmptyWhole DEF Framing, Whole

LEMMA LineTypes ==
  ASSUME Scalars, Lines
  PROVE  /\ Opened \in Seq(PieceSet) /\ Opened \o toBroker \in Seq(PieceSet)
         /\ InWriting \in Seq(PieceSet) /\ Inbound \in Seq(PieceSet)
         /\ toBroker \in Seq(PieceSet) /\ toPeer \in Seq(PieceSet) /\ rb \in Seq(PieceSet)
         /\ \A t \in Threads : pending[t] \in Seq(PieceSet)
<1>1. /\ toBroker \in Seq(PieceSet) /\ toPeer \in Seq(PieceSet) /\ rb \in Seq(PieceSet)
      /\ \A t \in Threads : pending[t] \in Seq(PieceSet)
  BY DEF Lines
<1>2. Opened \in Seq(PieceSet)
  <2>1. CASE half = NoPacket
    BY <2>1 DEF Opened
  <2>2. CASE half # NoPacket
    <3>1. half \in Packets
      BY <2>2 DEF Scalars
    <3>2. <<half, 1>> \in PieceSet
      BY <3>1 DEF PieceSet
    <3>3. QED
      BY <2>2, <3>2 DEF Opened
  <2>3. QED
    BY <2>1, <2>2
<1>3. InWriting \in Seq(PieceSet)
  <2>1. lock = "free" \/ lock \in Threads
    BY DEF Scalars
  <2>2. QED
    BY <1>1, <2>1 DEF InWriting
<1>4. Opened \o toBroker \in Seq(PieceSet) /\ Inbound \in Seq(PieceSet)
  BY <1>1, <1>2, ConcatProperties DEF Inbound
<1>5. QED
  BY <1>1, <1>2, <1>3, <1>4

\* A step that leaves every stream as it was.
LEMMA FramingKept ==
  ASSUME Framing, up' = up, garbled' => garbled, Wire' = Wire, Inbound' = Inbound,
         \A t \in Threads : lock' # t => Whole(pending'[t])
  PROVE  Framing'
  BY DEF Framing

LEMMA AcquireFraming == ASSUME Scalars, Roles, Lines, Framing, NEW t \in Threads, Acquire(t) PROVE Framing'
<1>1. /\ lock = "free" /\ lock' = t
      /\ UNCHANGED <<up, pending, rb, toBroker, toPeer, half, garbled>>
  BY DEF Acquire, broker
<1>2. /\ Opened \o toBroker \in Seq(PieceSet) /\ pending[t] \in Seq(PieceSet)
  BY LineTypes
<1>3. t # "free"
  BY DEF Threads
<1>4. Wire' = (Opened \o toBroker) \o pending[t] /\ Inbound' = Inbound
  BY <1>1, <1>3 DEF Wire, Opened, InWriting, Inbound
<1>5. Wire = Opened \o toBroker
  <2>1. Wire = (Opened \o toBroker) \o <<>>
    BY <1>1 DEF Wire, InWriting
  <2>2. QED
    BY <1>2, <2>1, ConcatEmptySeq
<1>6. Whole(pending[t])
  BY <1>1, <1>3 DEF Framing
<1>7. up => Whole(Wire')
  BY <1>2, <1>4, <1>5, <1>6, ConcatWhole DEF Framing
<1>8. \A u \in Threads : lock' # u => Whole(pending'[u])
  BY <1>1, <1>3 DEF Framing, Threads
<1>9. QED
  BY <1>1, <1>4, <1>7, <1>8 DEF Framing

LEMMA WriteFraming == ASSUME Scalars, Roles, Lines, Framing, NEW t \in Threads, Write(t) PROVE Framing'
<1> DEFINE h == Head(pending[t])  r == Tail(pending[t])
<1>1. /\ lock = t /\ lock' = lock /\ pending[t] # <<>> /\ toBroker' = Append(toBroker, h)
      /\ pending' = [pending EXCEPT ![t] = r] /\ UNCHANGED <<up, rb, toPeer, half, garbled>>
  BY DEF Write, broker
<1>2. /\ Opened \in Seq(PieceSet) /\ toBroker \in Seq(PieceSet) /\ pending[t] \in Seq(PieceSet)
      /\ DOMAIN pending = Threads /\ t # "free"
  BY LineTypes DEF Lines, Threads
<1>3. h \in PieceSet /\ r \in Seq(PieceSet) /\ <<h>> \in Seq(PieceSet) /\ pending[t] = <<h>> \o r
  BY <1>1, <1>2, HeadTailProperties, HeadFirst
<1>4. toBroker' = toBroker \o <<h>>
  BY <1>1, <1>2, <1>3, AppendIsConcat
<1>5. Opened' = Opened /\ InWriting = pending[t] /\ InWriting' = r
  BY <1>1, <1>2 DEF Opened, InWriting
<1> HIDE DEF h, r
<1>6. (Opened \o (toBroker \o <<h>>)) \o r = (Opened \o toBroker) \o (<<h>> \o r)
  <2>1. Opened \o (toBroker \o <<h>>) = (Opened \o toBroker) \o <<h>>
    BY <1>2, <1>3, Regroup
  <2>2. Opened \o toBroker \in Seq(PieceSet)
    BY <1>2, ConcatProperties
  <2>3. ((Opened \o toBroker) \o <<h>>) \o r = (Opened \o toBroker) \o (<<h>> \o r)
    BY <1>3, <2>2, Regroup
  <2>4. QED
    BY <2>1, <2>3
<1>7. Wire' = Wire
  BY <1>3, <1>4, <1>5, <1>6 DEF Wire
<1>8. Inbound' = Inbound
  BY <1>1 DEF Inbound
<1>9. \A u \in Threads : lock' # u => Whole(pending'[u])
  BY <1>1 DEF Framing
<1>10. QED
  BY <1>1, <1>7, <1>8, <1>9, FramingKept

LEMMA WrittenFraming == ASSUME Scalars, Roles, Lines, Framing, NEW t \in Threads, Written(t) PROVE Framing'
<1>1. /\ lock = t /\ lock' = "free" /\ pending[t] = <<>>
      /\ UNCHANGED <<up, pending, rb, toBroker, toPeer, half, garbled>> /\ t # "free"
  BY DEF Written, Roles, broker, Threads
<1>2. InWriting = <<>> /\ InWriting' = <<>> /\ Opened' = Opened
  BY <1>1 DEF InWriting, Opened
<1>3. Wire' = Wire /\ Inbound' = Inbound
  BY <1>1, <1>2 DEF Wire, Inbound
<1>4. \A u \in Threads : lock' # u => Whole(pending'[u])
  BY <1>1, EmptyWhole DEF Framing
<1>5. QED
  BY <1>1, <1>3, <1>4, FramingKept

LEMMA WriteErrorFraming == ASSUME Scalars, Roles, Lines, Framing, NEW t \in Threads, WriteError(t) PROVE Framing'
<1>1. /\ ~up /\ lock = t /\ pending' = [pending EXCEPT ![t] = <<>>]
      /\ UNCHANGED <<up, rb, toPeer, garbled>> /\ DOMAIN pending = Threads
  BY DEF WriteError, Roles, Lines, broker
<1>2. Inbound' = Inbound
  BY <1>1 DEF Inbound
<1>3. \A u \in Threads : Whole(pending'[u])
  BY <1>1, EmptyWhole DEF Framing
<1>4. QED
  BY <1>1, <1>2, <1>3 DEF Framing

LEMMA FillFraming == ASSUME Scalars, Roles, Lines, Batch, Framing, Fill PROVE Framing'
<1>1. /\ pc["main"] = "filling" /\ lock' = lock /\ DOMAIN pending = Threads
      /\ pending' = [pending EXCEPT !["main"] = pending'["main"]]
      /\ UNCHANGED <<up, rb, toBroker, toPeer, half, garbled>>
  BY DEF Fill, Lines, broker, Threads
<1>2. lock # "main"
  BY <1>1 DEF Roles, Threads
<1>3. Whole(pending'["main"])
  BY FillPieces
<1>4. InWriting' = InWriting
  <2>1. lock = "free" \/ (lock \in Threads /\ pending'[lock] = pending[lock])
    BY <1>1, <1>2 DEF Scalars
  <2>2. QED
    BY <1>1, <2>1 DEF InWriting
<1>5. Wire' = Wire /\ Inbound' = Inbound
  BY <1>1, <1>4 DEF Wire, Opened, Inbound
<1>6. \A u \in Threads : lock' # u => Whole(pending'[u])
  <2> SUFFICES ASSUME NEW u \in Threads, lock # u PROVE Whole(pending'[u])
    BY <1>1
  <2>1. CASE u = "main"
    BY <1>3, <2>1
  <2>2. CASE u # "main"
    BY <1>1, <2>2 DEF Framing
  <2>3. QED
    BY <2>1, <2>2
<1>7. QED
  BY <1>1, <1>5, <1>6, FramingKept

LEMMA ReadInbound == ASSUME Scalars, Lines, Read PROVE Inbound' = Inbound
<1>1. PICK k \in 1 .. Len(toPeer) : /\ rb' = rb \o SubSeq(toPeer, 1, k)
                                    /\ toPeer' = SubSeq(toPeer, k + 1, Len(toPeer))
  BY DEF Read
<1>2. toPeer \in Seq(PieceSet) /\ rb \in Seq(PieceSet) /\ Len(toPeer) \in Nat
  BY DEF Lines
<1> DEFINE a == SubSeq(toPeer, 1, k)  b == SubSeq(toPeer, k + 1, Len(toPeer))
<1>3. a \in Seq(PieceSet) /\ b \in Seq(PieceSet)
  BY <1>2
<1>4. a \o b = toPeer
  <2>1. a \o b = SubSeq(toPeer, 1, Len(toPeer))
    BY <1>2, ConcatAdjacentSubSeq
  <2>2. QED
    BY <1>2, <2>1, SubSeqFull
<1> HIDE DEF a, b
<1>5. (rb \o a) \o b = rb \o (a \o b)
  BY <1>2, <1>3, Regroup
<1>6. QED
  BY <1>1, <1>4, <1>5 DEF Inbound, a, b

LEMMA HandleInbound ==
  ASSUME Scalars, Lines, Handle
  PROVE  /\ Inbound' = Tail(Tail(Inbound)) /\ Len(Inbound) >= 2 /\ Inbound[2] = rb[2]
         /\ rb[2] \in PieceSet /\ rb[2][1] \in Packets
<1>1. /\ Len(rb) >= 2 /\ rb' = SubSeq(rb, 3, Len(rb)) /\ toPeer' = toPeer
  BY DEF Handle
<1>2. toPeer \in Seq(PieceSet) /\ rb \in Seq(PieceSet) /\ Inbound \in Seq(PieceSet)
  BY LineTypes
<1> DEFINE s == Inbound  r == Tail(s)  t == Tail(r)  v == rb' \o toPeer'
<1>3. /\ Len(rb) \in Nat /\ Len(toPeer) \in Nat /\ Len(s) = Len(rb) + Len(toPeer)
      /\ \A i \in 1 .. Len(s) : s[i] = IF i <= Len(rb) THEN rb[i] ELSE toPeer[i - Len(rb)]
  BY <1>2, ConcatProperties DEF Inbound
<1> HIDE DEF s
<1>4. r \in Seq(PieceSet) /\ Len(r) = Len(s) - 1 /\ r # <<>> /\ \A i \in 1 .. Len(r) : r[i] = s[i + 1]
  <2>1. s \in Seq(PieceSet) /\ s # <<>>
    BY <1>1, <1>2, <1>3, EmptySeq DEF s
  <2>2. r \in Seq(PieceSet) /\ Len(r) = Len(s) - 1 /\ \A i \in 1 .. Len(r) : r[i] = s[i + 1]
    BY <2>1, HeadTailProperties
  <2> HIDE DEF r
  <2>3. Len(r) # 0 /\ Len(<<>>) = 0
    BY <1>1, <1>3, <2>2, EmptySeq
  <2>4. QED
    BY <2>2, <2>3
<1> HIDE DEF r
<1>5. t \in Seq(PieceSet) /\ Len(t) = Len(s) - 2 /\ \A i \in 1 .. Len(t) : t[i] = r[i + 1]
  BY <1>4, HeadTailProperties
<1> HIDE DEF t
<1>6. \A i \in 1 .. Len(t) : t[i] = s[i + 2]
  <2> TAKE i \in 1 .. Len(t)
  <2>1. i + 1 \in 1 .. Len(r) /\ (i + 1) + 1 = i + 2
    BY <1>1, <1>3, <1>4, <1>5
  <2>2. QED
    BY <1>4, <1>5, <2>1
<1>7. rb' \in Seq(PieceSet) /\ Len(rb') = Len(rb) - 2 /\ \A i \in 1 .. Len(rb) - 2 : rb'[i] = rb[i + 2]
  <2>1. \A i \in 3 .. Len(rb) : rb[i] \in PieceSet
    BY <1>2
  <2>2. /\ rb' \in Seq(PieceSet) /\ Len(rb') = IF 3 <= Len(rb) THEN Len(rb) - 3 + 1 ELSE 0
        /\ \A i \in 1 .. Len(rb) - 3 + 1 : rb'[i] = rb[3 + i - 1]
    BY <1>1, <1>3, <2>1, SubSeqProperties
  <2>3. Len(rb') = Len(rb) - 2
    <3>1. Len(rb) \in Nat /\ Len(rb) >= 2
      BY <1>1, <1>3
    <3>2. Len(rb') = IF 3 <= Len(rb) THEN Len(rb) - 3 + 1 ELSE 0
      BY <2>2
    <3>3. \A n \in Nat : n >= 2 => (IF 3 <= n THEN n - 3 + 1 ELSE 0) = n - 2
      OBVIOUS
    <3>4. QED
      BY <3>1, <3>2, <3>3
  <2>4. \A i \in 1 .. Len(rb) - 2 : i \in 1 .. Len(rb) - 3 + 1 /\ 3 + i - 1 = i + 2
    BY <1>3
  <2>5. QED
    BY <2>2, <2>3, <2>4
<1>8. /\ v \in Seq(PieceSet) /\ Len(v) = Len(rb') + Len(toPeer)
      /\ \A i \in 1 .. Len(rb') + Len(toPeer) : v[i] = IF i <= Len(rb') THEN rb'[i] ELSE toPeer[i - Len(rb')]
  BY <1>1, <1>2, <1>7, ConcatProperties
<1> HIDE DEF v
<1>9. Len(v) = Len(t)
  BY <1>3, <1>5, <1>7, <1>8
<1>10. \A i \in 1 .. Len(v) : v[i] = t[i]
  <2> TAKE i \in 1 .. Len(v)
  <2>1. i + 2 \in 1 .. Len(s) /\ t[i] = s[i + 2]
    BY <1>1, <1>3, <1>5, <1>6, <1>9
  <2>2. CASE i <= Len(rb) - 2
    <3>1. v[i] = rb[i + 2]
      BY <1>7, <1>8, <2>2
    <3>2. s[i + 2] = rb[i + 2]
      BY <1>3, <2>1, <2>2
    <3>3. QED
      BY <2>1, <3>1, <3>2
  <2>3. CASE ~(i <= Len(rb) - 2)
    <3>1. v[i] = toPeer[i - (Len(rb) - 2)]
      BY <1>7, <1>8, <2>3
    <3>2. s[i + 2] = toPeer[(i + 2) - Len(rb)]
      BY <1>3, <2>1, <2>3
    <3>3. i - (Len(rb) - 2) = (i + 2) - Len(rb)
      BY <1>3
    <3>4. QED
      BY <2>1, <3>1, <3>2, <3>3
  <2>4. QED
    BY <2>2, <2>3
<1>11. v = t
  BY <1>5, <1>8, <1>9, <1>10, SeqEqual
<1>12. Len(s) >= 2 /\ s[2] = rb[2]
  BY <1>1, <1>3
<1>13. rb[2] \in PieceSet
  BY <1>1, <1>2
<1>14. QED
  BY <1>11, <1>12, <1>13 DEF v, t, r, s, Inbound, PieceSet

LEMMA HandleFraming == ASSUME Scalars, Roles, Lines, Framing, Handle PROVE Framing'
<1> DEFINE p == rb[2][1]
           s == (pending["reader"] \o Pieces(Ack(p))) \o Pieces(Echo(p))
<1>1. /\ UNCHANGED <<up, lock, toBroker, half, garbled>> /\ pc["reader"] = "handling"
      /\ pending' = [pending EXCEPT !["reader"] = s] /\ DOMAIN pending = Threads
  BY DEF Handle, Lines, broker
<1>2. p \in Packets /\ Inbound' = Tail(Tail(Inbound)) /\ Len(Inbound) >= 2
  BY HandleInbound
<1>3. /\ InOrder(Inbound') /\ (up => Whole(Inbound'))
  <2>1. Inbound \in Seq(PieceSet) /\ InOrder(Inbound) /\ (up => Whole(Inbound))
    BY LineTypes DEF Framing
  <2>2. QED
    BY <1>2, <2>1, FirstPacket
<1> HIDE DEF p
<1>4. lock # "reader" /\ "reader" \in Threads
  BY <1>1 DEF Roles, Threads
<1>5. Whole(s)
  <2>1. /\ Pieces(Ack(p)) \in Seq(PieceSet) /\ Whole(Pieces(Ack(p)))
        /\ Pieces(Echo(p)) \in Seq(PieceSet) /\ Whole(Pieces(Echo(p)))
    BY <1>2, AckPieces, EchoPieces
  <2>2. pending["reader"] \in Seq(PieceSet) /\ Whole(pending["reader"])
    BY <1>4, LineTypes DEF Framing
  <2>3. /\ pending["reader"] \o Pieces(Ack(p)) \in Seq(PieceSet)
        /\ Whole(pending["reader"] \o Pieces(Ack(p)))
    BY <2>1, <2>2, ConcatProperties, ConcatWhole
  <2>4. QED
    BY <2>1, <2>3, ConcatWhole
<1> HIDE DEF s
<1>6. InWriting' = InWriting
  <2>1. lock = "free" \/ (lock \in Threads /\ pending'[lock] = pending[lock])
    BY <1>1, <1>4 DEF Scalars
  <2>2. QED
    BY <1>1, <2>1 DEF InWriting
<1>7. Wire' = Wire
  BY <1>1, <1>6 DEF Wire, Opened
<1>8. \A u \in Threads : lock' # u => Whole(pending'[u])
  <2> SUFFICES ASSUME NEW u \in Threads, lock # u PROVE Whole(pending'[u])
    BY <1>1
  <2>1. CASE u = "reader"
    BY <1>1, <1>5, <2>1
  <2>2. CASE u # "reader"
    BY <1>1, <2>2 DEF Framing
  <2>3. QED
    BY <2>1, <2>2
<1>9. QED
  BY <1>1, <1>3, <1>7, <1>8 DEF Framing

\* What the broker sends it sends whole.
LEMMA InboundGrows ==
  ASSUME Scalars, Lines, Framing, NEW s \in Seq(PieceSet), Whole(s), up,
         rb' = rb, toPeer' = toPeer \o s
  PROVE  Inbound' = Inbound \o s /\ Whole(Inbound')
<1>1. rb \in Seq(PieceSet) /\ toPeer \in Seq(PieceSet) /\ Inbound \in Seq(PieceSet)
  BY LineTypes
<1>2. Inbound' = Inbound \o s
  BY <1>1, Regroup DEF Inbound
<1>3. QED
  BY <1>1, <1>2, ConcatWhole DEF Framing

LEMMA ReplyPieces ==
  ASSUME NEW p \in Packets, NEW reply \in Reply(p)
  PROVE  Pieces(reply) \in Seq(PieceSet) /\ Whole(Pieces(reply))
<1>1. reply = <<>> \/ \E x \in Packets : reply = <<x>>
  BY ReplyType
<1>2. <<>> \in Seq(PieceSet)
  OBVIOUS
<1>3. QED
  BY <1>1, <1>2, PiecesOne, PiecesNone, EmptyWhole

LEMMA TailOfOne ==
  ASSUME NEW e \in PieceSet, NEW s \in Seq(PieceSet)
  PROVE  /\ <<e>> \o s \in Seq(PieceSet) /\ Tail(<<e>> \o s) = s /\ (<<e>> \o s)[1] = e
         /\ Len(<<e>> \o s) = 1 + Len(s) /\ Len(s) \in Nat
         /\ Len(s) >= 1 => (<<e>> \o s)[2] = s[1]
<1> DEFINE u == <<e>> \o s
<1>1. <<e>> \in Seq(PieceSet) /\ Len(<<e>>) = 1 /\ <<e>>[1] = e /\ Len(s) \in Nat
  OBVIOUS
<1>2. /\ u \in Seq(PieceSet) /\ Len(u) = 1 + Len(s)
      /\ \A i \in 1 .. 1 + Len(s) : u[i] = IF i <= 1 THEN <<e>>[i] ELSE s[i - 1]
  BY <1>1, ConcatProperties
<1> HIDE DEF u
<1>3. u # <<>>
  BY <1>1, <1>2, EmptySeq
<1>4. Tail(u) \in Seq(PieceSet) /\ Len(Tail(u)) = Len(s) /\ \A i \in 1 .. Len(s) : Tail(u)[i] = u[i + 1]
  <2>1. Tail(u) \in Seq(PieceSet) /\ Len(Tail(u)) = Len(u) - 1 /\ \A i \in 1 .. Len(Tail(u)) : Tail(u)[i] = u[i + 1]
    BY <1>2, <1>3, HeadTailProperties
  <2>2. Len(Tail(u)) = Len(s)
    BY <1>1, <1>2, <2>1
  <2>3. QED
    BY <2>1, <2>2
<1>5. \A i \in 1 .. Len(s) : Tail(u)[i] = s[i]
  <2> TAKE i \in 1 .. Len(s)
  <2>1. i + 1 \in 1 .. 1 + Len(s) /\ ~(i + 1 <= 1) /\ (i + 1) - 1 = i
    BY <1>1
  <2>2. u[i + 1] = s[i]
    BY <1>2, <2>1
  <2>3. QED
    BY <1>4, <2>2
<1>6. Tail(u) = s
  BY <1>4, <1>5, SeqEqual
<1>7. u[1] = e
  BY <1>1, <1>2
<1>8. Len(s) >= 1 => u[2] = s[1]
  BY <1>1, <1>2
<1>9. QED
  BY <1>1, <1>2, <1>6, <1>7, <1>8 DEF u

\* The piece the broker reads next is the one that belongs there.
LEMMA NextPiece ==
  ASSUME Scalars, Lines, Framing, up, toBroker # <<>>
  PROVE  /\ Head(toBroker)[1] \in Packets /\ Head(toBroker)[1] # NoPacket
         /\ Head(toBroker)[2] = 1 /\ half = NoPacket
               => Wire = (<<Head(toBroker)>> \o Tail(toBroker)) \o InWriting
         /\ half = NoPacket => Head(toBroker)[2] = 1
         /\ half # NoPacket => /\ Head(toBroker) = <<half, 2>>
                               /\ Whole(Tail(toBroker) \o InWriting)
<1>1. /\ toBroker \in Seq(PieceSet) /\ Opened \in Seq(PieceSet) /\ InWriting \in Seq(PieceSet)
      /\ Opened \o toBroker \in Seq(PieceSet)
  BY LineTypes
<1> DEFINE h == Head(toBroker)  r == Tail(toBroker)
<1>2. /\ h \in PieceSet /\ r \in Seq(PieceSet) /\ <<h>> \in Seq(PieceSet) /\ toBroker = <<h>> \o r
      /\ r \o InWriting \in Seq(PieceSet)
  BY <1>1, HeadTailProperties, HeadFirst, ConcatProperties
<1> HIDE DEF h, r
<1>3. h[1] \in Packets /\ h[1] # NoPacket /\ h[2] \in {1, 2}
  BY <1>2 DEF PieceSet, Packets, NoPacket, Packet
<1>4. Whole(Wire)
  BY DEF Framing
<1> DEFINE rest == r \o InWriting
<1>5. (<<h>> \o r) \o InWriting = <<h>> \o rest
  BY <1>1, <1>2, Regroup
<1> HIDE DEF rest
<1>6. ASSUME half = NoPacket PROVE h[2] = 1 /\ Wire = (<<h>> \o r) \o InWriting
  <2>1. Wire = (<<h>> \o r) \o InWriting
    <3>1. Opened = <<>>
      BY <1>6 DEF Opened
    <3>2. QED
      BY <1>1, <1>2, <3>1, ConcatEmptySeq DEF Wire
  <2>2. Wire[1] = h /\ Len(Wire) >= 1
    <3>1. rest \in Seq(PieceSet)
      BY <1>2 DEF rest
    <3>2. /\ Len(<<h>>) = 1 /\ <<h>>[1] = h /\ Len(rest) \in Nat
          /\ Len(<<h>> \o rest) = Len(<<h>>) + Len(rest)
          /\ \A i \in 1 .. Len(<<h>>) + Len(rest) :
               (<<h>> \o rest)[i] = IF i <= Len(<<h>>) THEN <<h>>[i] ELSE rest[i - Len(<<h>>)]
      BY <1>2, <3>1, ConcatProperties
    <3>3. QED
      BY <1>5, <2>1, <3>2
  <2>3. Wire[2 * 0 + 1][2] = 1
    <3>1. 2 * 0 + 1 <= Len(Wire)
      BY <2>2
    <3>2. QED
      BY <1>4, <3>1 DEF Whole, InOrder
  <2>4. QED
    BY <2>1, <2>2, <2>3
<1>7. ASSUME half # NoPacket PROVE h = <<half, 2>> /\ Whole(rest)
  <2> DEFINE o == <<half, 1>>
  <2>1. Opened = <<o>> /\ o \in PieceSet
    BY <1>7 DEF Opened, Scalars, PieceSet
  <2> HIDE DEF o
  <2>2. rest \in Seq(PieceSet) /\ <<h>> \o rest \in Seq(PieceSet) /\ <<o>> \in Seq(PieceSet)
    BY <1>2, <2>1, ConcatProperties DEF rest
  <2>3. Wire = <<o>> \o (<<h>> \o rest)
    <3>1. Wire = (<<o>> \o toBroker) \o InWriting
      BY <2>1 DEF Wire
    <3>2. (<<o>> \o toBroker) \o InWriting = <<o>> \o (toBroker \o InWriting)
      BY <1>1, <2>2, Regroup
    <3>3. QED
      BY <1>2, <1>5, <3>1, <3>2
  <2>4. Len(Wire) >= 2 /\ Wire[1] = o /\ Wire[2] = h /\ Wire \in Seq(PieceSet) /\ Tail(Tail(Wire)) = rest
    <3>1. Tail(<<o>> \o (<<h>> \o rest)) = <<h>> \o rest /\ Tail(<<h>> \o rest) = rest
      BY <1>2, <2>1, <2>2, TailOfOne
    <3>2. /\ Len(rest) \in Nat /\ Len(<<h>> \o rest) = 1 + Len(rest) /\ (<<h>> \o rest)[1] = h
          /\ Len(Wire) = 1 + Len(<<h>> \o rest) /\ Wire[1] = o /\ Wire[2] = (<<h>> \o rest)[1]
          /\ Wire \in Seq(PieceSet)
      BY <1>2, <2>1, <2>2, <2>3, TailOfOne
    <3>3. Tail(Tail(Wire)) = rest
      BY <2>3, <3>1, Zenon
    <3>4. \A n, l, k \in Nat : l = 1 + n /\ k = 1 + l => k >= 2
      OBVIOUS
    <3>5. Len(Wire) \in Nat /\ Len(<<h>> \o rest) \in Nat
      BY <2>2, <3>2
    <3>6. Len(Wire) >= 2
      BY <3>2, <3>4, <3>5
    <3>7. Wire[1] = o /\ Wire[2] = h
      BY <3>2, Zenon
    <3>8. QED
      BY <3>2, <3>3, <3>6, <3>7
  <2>5. Wire[2] = <<Wire[1][1], 2>> /\ Whole(rest)
    <3>1. Whole(Wire) /\ InOrder(Wire) /\ Wire \in Seq(PieceSet) /\ Len(Wire) >= 2
      BY <1>4, <2>4 DEF Whole
    <3>2. Whole(Tail(Tail(Wire))) /\ Wire[2] = <<Wire[1][1], 2>>
      BY <3>1, FirstWhole
    <3>3. QED
      BY <2>4, <3>2
  <2>6. o[1] = half
    BY DEF o
  <2>7. QED
    BY <2>4, <2>5, <2>6
<1>8. QED
  BY <1>3, <1>6, <1>7 DEF rest, h, r

LEMMA BrokerReadsFraming == ASSUME Scalars, Roles, Lines, Framing, BrokerReads PROVE Framing'
<1> DEFINE p == Head(toBroker)[1]  part == Head(toBroker)[2]
<1>1. /\ up /\ toBroker # <<>> /\ toBroker' = Tail(toBroker) /\ UNCHANGED <<up, lock, pending, rb>>
  BY DEF BrokerReads
<1>2. /\ p \in Packets /\ p # NoPacket /\ (half = NoPacket => part = 1)
      /\ half # NoPacket => Head(toBroker) = <<half, 2>> /\ Whole(Tail(toBroker) \o InWriting)
      /\ (half = NoPacket /\ part = 1) => Wire = (<<Head(toBroker)>> \o Tail(toBroker)) \o InWriting
  BY <1>1, NextPiece
<1>3. InWriting' = InWriting /\ toBroker \in Seq(PieceSet) /\ Tail(toBroker) \in Seq(PieceSet)
  BY <1>1, LineTypes, HeadTailProperties DEF InWriting
<1>4. CASE half = NoPacket
  <2>1. part = 1 /\ half' = p /\ (garbled' => garbled) /\ toPeer' = toPeer
    <3>1. part = 1
      BY <1>2, <1>4
    <3>2. half' = p /\ toPeer' = toPeer /\ garbled' = (garbled \/ half # NoPacket)
      BY <3>1 DEF BrokerReads
    <3>3. QED
      BY <1>4, <3>1, <3>2, Zenon
  <2>2. Opened' = <<Head(toBroker)>>
    <3>1. Head(toBroker) = <<p, 1>>
      <4>1. Head(toBroker) \in PieceSet
        BY <1>1, <1>3, HeadTailProperties
      <4>2. QED
        BY <2>1, <4>1 DEF PieceSet
    <3>2. QED
      BY <1>2, <2>1, <3>1 DEF Opened
  <2>3. Wire' = Wire /\ Inbound' = Inbound
    BY <1>1, <1>2, <1>3, <1>4, <2>1, <2>2 DEF Wire, Inbound
  <2>4. \A u \in Threads : lock' # u => Whole(pending'[u])
    BY <1>1 DEF Framing
  <2>5. QED
    BY <1>1, <2>1, <2>3, <2>4, FramingKept
<1>5. CASE half # NoPacket
  <2>1. Head(toBroker) = <<half, 2>> /\ part = 2 /\ p = half
    BY <1>2, <1>5
  <2>2. half' = NoPacket /\ ~garbled'
    <3>1. half' = NoPacket /\ garbled' = (garbled \/ half # p)
      BY <2>1 DEF BrokerReads
    <3>2. ~garbled /\ half = p
      BY <2>1 DEF Framing
    <3>3. QED
      BY <3>1, <3>2, Zenon
  <2>3. PICK reply \in Reply(p) : toPeer' = toPeer \o Pieces(reply)
    BY <2>1 DEF BrokerReads
  <2>4. Whole(Inbound')
    <3>1. Pieces(reply) \in Seq(PieceSet) /\ Whole(Pieces(reply))
      BY <1>2, ReplyPieces
    <3>2. QED
      BY <1>1, <2>3, <3>1, InboundGrows
  <2>5. Wire' = Tail(toBroker) \o InWriting
    <3>1. Opened' = <<>>
      BY <2>2 DEF Opened
    <3>2. QED
      BY <1>1, <1>3, <3>1, ConcatEmptySeq DEF Wire
  <2>6. Whole(Wire')
    BY <1>2, <1>5, <2>5
  <2>7. QED
    BY <1>1, <2>2, <2>4, <2>6 DEF Framing, Whole
<1>6. QED
  BY <1>4, <1>5

LEMMA BrokerDeliversFraming == ASSUME Scalars, Lines, Framing, BrokerDelivers PROVE Framing'
<1> DEFINE x == Packet("PUBLISH", IF qos > 0 THEN (delivered % MaxPid) + 1 ELSE 0)
<1>1. /\ up /\ toPeer' = toPeer \o Pieces(<<x>>)
      /\ UNCHANGED <<up, lock, pending, rb, toBroker, half, garbled>>
  BY DEF BrokerDelivers
<1>2. x \in Packets
  BY DeliveredPacket
<1> HIDE DEF x
<1>3. Pieces(<<x>>) \in Seq(PieceSet) /\ Whole(Pieces(<<x>>))
  BY <1>2, PiecesOne
<1>4. Whole(Inbound')
  BY <1>1, <1>3, InboundGrows
<1>5. Wire' = Wire /\ \A u \in Threads : lock' # u => Whole(pending'[u])
  BY <1>1 DEF Wire, Opened, InWriting, Framing
<1>6. QED
  BY <1>1, <1>4, <1>5 DEF Framing, Whole

LEMMA DropFraming == ASSUME Scalars, Lines, Framing, Drop PROVE Framing'
<1>1. ~up' /\ toPeer' = <<>> /\ UNCHANGED <<lock, pending, rb, half, garbled>>
  BY DEF Drop, broker
<1>2. rb \in Seq(PieceSet) /\ toPeer \in Seq(PieceSet) /\ InOrder(Inbound)
  BY LineTypes DEF Framing
<1>3. Inbound' = rb
  BY <1>1, <1>2, ConcatEmptySeq DEF Inbound
<1>4. InOrder(Inbound')
  BY <1>2, <1>3, PrefixInOrder DEF Inbound
<1>5. QED
  BY <1>1, <1>4 DEF Framing

LEMMA NextFraming == ASSUME Scalars, Roles, Lines, Batch, Framing, Next PROVE Framing'
<1>1. CASE Elapse \/ Wake \/ Rest \/ PrintResult \/ Flush \/ ReadError \/ StopReading \/ Printed
  <2>1. UNCHANGED <<up, lock, pending, rb, toBroker, toPeer, half, garbled>>
    BY <1>1 DEF Elapse, Wake, Rest, PrintResult, Flush, ReadError, StopReading, Printed, vars, broker
  <2>2. Wire' = Wire /\ Inbound' = Inbound
    BY <2>1 DEF Wire, Opened, InWriting, Inbound
  <2>3. \A t \in Threads : lock' # t => Whole(pending'[t])
    BY <2>1 DEF Framing
  <2>4. QED
    BY <2>1, <2>2, <2>3, FramingKept
<1>2. CASE Read
  <2>1. UNCHANGED <<up, lock, pending, toBroker, half, garbled>> /\ Inbound' = Inbound
    BY <1>2, ReadInbound DEF Read, broker
  <2>2. Wire' = Wire
    BY <2>1 DEF Wire, Opened, InWriting
  <2>3. \A t \in Threads : lock' # t => Whole(pending'[t])
    BY <2>1 DEF Framing
  <2>4. QED
    BY <2>1, <2>2, <2>3, FramingKept
<1>3. QED
  BY <1>1, <1>2, AcquireFraming, WriteFraming, WrittenFraming, WriteErrorFraming, FillFraming, HandleFraming,
     BrokerReadsFraming, BrokerDeliversFraming, DropFraming
  DEF Next, MainStep, ReaderStep, WriteStep

-----------------------------------------------------------------------------
(* Every counter against the packets between the two ends. *)

LEMMA CountTypes ==
  ASSUME Scalars, Lines, NEW types
  PROVE  /\ WholeIn(toBroker, types) \in Nat /\ WholeIn(pending["main"], types) \in Nat
         /\ WholeIn(pending["reader"], types) \in Nat /\ Back(types) \in Nat
         /\ Ahead(types) \in Nat
<1>1. /\ toBroker \in Seq(PieceSet) /\ Inbound \in Seq(PieceSet)
      /\ pending["main"] \in Seq(PieceSet) /\ pending["reader"] \in Seq(PieceSet)
  BY LineTypes DEF Threads
<1>2. /\ WholeIn(toBroker, types) \in Nat /\ WholeIn(pending["main"], types) \in Nat
      /\ WholeIn(pending["reader"], types) \in Nat /\ WholeIn(Inbound, types) \in Nat
  BY <1>1, BodiesFinite
<1>3. QED
  BY <1>2 DEF Back, Ahead

LEMMA InitBalances == Init => Balances
<1> SUFFICES ASSUME Init PROVE Balances
  OBVIOUS
<1>1. /\ toBroker = <<>> /\ toPeer = <<>> /\ rb = <<>> /\ \A t \in Threads : pending[t] = <<>>
      /\ sent = 0 /\ sentWindow = 0 /\ batch = 0 /\ echoed = 0 /\ acked = 0 /\ received = 0
      /\ published = 0 /\ completed = 0 /\ delivered = 0
  BY DEF Init
<1>2. Inbound = <<>>
  BY <1>1, EmptySeq, ConcatEmptySeq DEF Inbound
<1>3. \A types : WholeIn(<<>>, types) = 0
  BY CountEmpty
<1>4. \A types : Ahead(types) = 0 /\ Back(types) = 0
  BY <1>1, <1>2, <1>3 DEF Ahead, Back, Threads
<1>5. WholeIn(pending["main"], {"PUBLISH"}) = 0 /\ WholeIn(pending["reader"], {"PUBLISH"}) = 0 /\ Made = 0
  BY <1>1, <1>3 DEF Threads, Made
<1>6. QED
  BY <1>1, <1>4, <1>5 DEF Balances

\* A step that moves no packet and counts nothing.
LEMMA BalancesKept ==
  ASSUME Balances, UNCHANGED <<mode, up, pending, toBroker, sent, sentWindow, batch, echoed, acked, received,
                               published, completed, delivered>>, Inbound' = Inbound
  PROVE  Balances'
<1>1. \A types : Ahead(types)' = Ahead(types) /\ Back(types)' = Back(types)
  BY DEF Ahead, Back
<1>2. QED
  BY <1>1 DEF Balances, Made

\* send(): a packet goes from what a thread has to write into the socket.
LEMMA WriteBalances == ASSUME Scalars, Roles, Lines, Balances, NEW t \in Threads, Write(t) PROVE Balances'
<1> DEFINE h == Head(pending[t])  r == Tail(pending[t])
<1>1. /\ pending[t] # <<>> /\ toBroker' = Append(toBroker, h) /\ pending' = [pending EXCEPT ![t] = r]
      /\ UNCHANGED <<mode, up, sent, sentWindow, batch, echoed, acked, received, published, completed,
                     delivered, rb, toPeer>>
  BY DEF Write, counters, pacing, broker
<1>2. /\ toBroker \in Seq(PieceSet) /\ pending[t] \in Seq(PieceSet) /\ DOMAIN pending = {"main", "reader"}
      /\ h \in PieceSet
  BY <1>1, LineTypes, HeadTailProperties DEF Lines, Threads
<1>3. ASSUME NEW types
      PROVE  /\ Ahead(types)' = Ahead(types) /\ Back(types)' = Back(types)
             /\ WholeIn(pending'["main"], types) <= WholeIn(pending["main"], types)
             /\ WholeIn(pending'["reader"], types) <= WholeIn(pending["reader"], types)
             /\ WholeIn(pending'["reader"], types) \in Nat
  <2> DEFINE w == Weight(h, types)  c == WholeIn(r, types)
  <2>1. WholeIn(toBroker', types) = WholeIn(toBroker, types) + w
    BY <1>1, <1>2, CountAppend
  <2>2. WholeIn(pending[t], types) = w + c
    BY <1>1, <1>2, CountTail
  <2>3. w \in Nat
    BY DEF Weight
  <2>4. c \in Nat
    BY <1>1, <1>2, CountTail, BodiesFinite
  <2>5. Back(types)' = Back(types)
    BY <1>1 DEF Back, Inbound
  <2>6. /\ WholeIn(toBroker, types) \in Nat /\ WholeIn(pending["main"], types) \in Nat
        /\ WholeIn(pending["reader"], types) \in Nat
    BY CountTypes
  <2>7. CASE t = "main"
    <3>1. WholeIn(pending'["main"], types) = c /\ pending'["reader"] = pending["reader"]
      BY <1>1, <1>2, <2>7
    <3> HIDE DEF w, c
    <3>2. WholeIn(pending["main"], types) = w + c
      BY <2>2, <2>7
    <3>3. WholeIn(pending'["reader"], types) = WholeIn(pending["reader"], types)
      BY <3>1
    <3>4. QED
      BY <2>1, <2>3, <2>4, <2>5, <2>6, <3>1, <3>2, <3>3 DEF Ahead
  <2>8. CASE t = "reader"
    <3>1. WholeIn(pending'["reader"], types) = c /\ pending'["main"] = pending["main"]
      BY <1>1, <1>2, <2>8
    <3> HIDE DEF w, c
    <3>2. WholeIn(pending["reader"], types) = w + c
      BY <2>2, <2>8
    <3>3. WholeIn(pending'["main"], types) = WholeIn(pending["main"], types)
      BY <3>1
    <3>4. QED
      BY <2>1, <2>3, <2>4, <2>5, <2>6, <3>1, <3>2, <3>3 DEF Ahead
  <2>9. QED
    BY <2>7, <2>8 DEF Threads
<1>4. /\ WholeIn(pending["main"], {"PUBLISH"}) \in Nat /\ WholeIn(pending'["main"], {"PUBLISH"}) \in Nat
      /\ WholeIn(pending["reader"], {"PUBLISH"}) \in Nat /\ batch \in Nat
  <2>1. pending'["main"] = pending["main"] \/ pending'["main"] = r
    BY <1>1, <1>2
  <2>2. r \in Seq(PieceSet)
    BY <1>1, <1>2, HeadTailProperties
  <2>3. WholeIn(pending["main"], {"PUBLISH"}) \in Nat /\ WholeIn(pending["reader"], {"PUBLISH"}) \in Nat
    BY CountTypes
  <2>4. batch \in Nat
    <3>1. batch \in 0 .. BatchMax
      BY DEF Scalars
    <3>2. QED
      BY <3>1, PeerAssumption
  <2>5. QED
    BY <2>1, <2>2, <2>3, <2>4, BodiesFinite
<1>5. Made' = Made
  BY <1>1 DEF Made
<1>6. mode = "source" => /\ WholeIn(pending'["main"], {"PUBLISH"}) <= batch
                         /\ WholeIn(pending'["reader"], {"PUBLISH"}) = 0
  <2>1. mode = "source" => /\ WholeIn(pending["main"], {"PUBLISH"}) <= batch
                           /\ WholeIn(pending["reader"], {"PUBLISH"}) = 0
    BY DEF Balances
  <2>2. /\ WholeIn(pending'["main"], {"PUBLISH"}) <= WholeIn(pending["main"], {"PUBLISH"})
        /\ WholeIn(pending'["reader"], {"PUBLISH"}) <= WholeIn(pending["reader"], {"PUBLISH"})
        /\ WholeIn(pending'["reader"], {"PUBLISH"}) \in Nat
    BY <1>3
  <2>3. QED
    BY <1>4, <2>1, <2>2
<1> HIDE DEF h, r
<1>7. QED
  BY <1>1, <1>3, <1>5, <1>6 DEF Balances

LEMMA WrittenBalances == ASSUME Scalars, Roles, Lines, Balances, NEW t \in Threads, Written(t) PROVE Balances'
<1>1. /\ pending[t] = <<>> /\ pc[t] = "writing"
      /\ UNCHANGED <<mode, up, pending, toBroker, echoed, acked, received, published, completed, delivered,
                     rb, toPeer>>
  BY DEF Written, broker
<1>2. CASE t = "reader"
  <2>1. UNCHANGED <<sent, sentWindow, batch>>
    BY <1>2 DEF Written
  <2>2. Inbound' = Inbound
    BY <1>1 DEF Inbound
  <2>3. QED
    BY <1>1, <2>1, <2>2, BalancesKept
<1>3. CASE t = "main"
  <2>1. /\ sent' = sent + batch /\ batch' = 0
        /\ sentWindow' = sentWindow + batch \/ sentWindow' = sentWindow
    BY <1>3 DEF Written
  <2>2. batch \in Nat /\ sent \in Nat /\ sentWindow \in Nat
    <3>1. batch \in 0 .. BatchMax /\ sent \in Nat /\ sentWindow \in Nat
      BY DEF Scalars
    <3>2. QED
      BY <3>1, PeerAssumption
  <2>3. sentWindow' <= sent'
    BY <2>1, <2>2 DEF Balances
  <2>4. mode = "source"
    BY <1>1, <1>3 DEF Roles
  <2>5. Made' = Made
    BY <1>1, <2>1, <2>2, <2>4 DEF Made
  <2>6. \A types : Ahead(types)' = Ahead(types) /\ Back(types)' = Back(types)
    BY <1>1 DEF Ahead, Back, Inbound
  <2>7. WholeIn(pending'["main"], {"PUBLISH"}) = 0 /\ pending' = pending
    BY <1>1, <1>3, CountEmpty
  <2>8. QED
    BY <1>1, <2>1, <2>3, <2>5, <2>6, <2>7 DEF Balances
<1>4. QED
  BY <1>2, <1>3 DEF Threads

\* Packets are lost, none is made: what a failed write or a drop leaves.
LEMMA LessBalances ==
  ASSUME Scalars, Lines, Balances, ~up',
         UNCHANGED <<mode, sent, sentWindow, batch, echoed, acked, received, published, completed, delivered>>,
         \A types : /\ Ahead(types)' \in Nat /\ Ahead(types)' <= Ahead(types)
                    /\ Back(types)' \in Nat /\ Back(types)' <= Back(types)
                    /\ WholeIn(pending["main"], types)' \in Nat
                    /\ WholeIn(pending["main"], types)' <= WholeIn(pending["main"], types)
                    /\ WholeIn(pending["reader"], types)' \in Nat
                    /\ WholeIn(pending["reader"], types)' <= WholeIn(pending["reader"], types)
  PROVE  Balances'
<1>1. /\ \A types : /\ Ahead(types) \in Nat /\ Back(types) \in Nat /\ WholeIn(pending["main"], types) \in Nat
                    /\ WholeIn(pending["reader"], types) \in Nat
      /\ published \in Nat /\ acked \in Nat /\ completed \in Nat /\ received \in Nat /\ echoed \in Nat
      /\ sent \in Nat
  BY CountTypes DEF Scalars
<1>2. batch \in Nat /\ delivered \in Nat
  <2>1. batch \in 0 .. BatchMax /\ delivered \in 0 .. Deliveries
    BY DEF Scalars
  <2>2. QED
    BY <2>1, PeerAssumption
<1>3. Made' = Made /\ Made \in Nat
  BY <1>1, <1>2 DEF Made
<1>4. sentWindow' <= sent'
  BY DEF Balances
<1>5. published' + Ahead({"PUBLISH"})' <= Made'
  <2>1. published + Ahead({"PUBLISH"}) <= Made
    BY DEF Balances
  <2>2. Ahead({"PUBLISH"})' \in Nat /\ Ahead({"PUBLISH"})' <= Ahead({"PUBLISH"}) /\ Ahead({"PUBLISH"}) \in Nat
    BY <1>1
  <2>3. QED
    BY <1>1, <1>3, <2>1, <2>2
<1>6. mode' = "source" => /\ WholeIn(pending["main"], {"PUBLISH"})' <= batch'
                          /\ WholeIn(pending["reader"], {"PUBLISH"})' = 0
  <2>1. mode = "source" => /\ WholeIn(pending["main"], {"PUBLISH"}) <= batch
                           /\ WholeIn(pending["reader"], {"PUBLISH"}) = 0
    BY DEF Balances
  <2>2. /\ WholeIn(pending["main"], {"PUBLISH"})' \in Nat
        /\ WholeIn(pending["main"], {"PUBLISH"})' <= WholeIn(pending["main"], {"PUBLISH"})
        /\ WholeIn(pending["reader"], {"PUBLISH"})' \in Nat
        /\ WholeIn(pending["reader"], {"PUBLISH"})' <= WholeIn(pending["reader"], {"PUBLISH"})
        /\ WholeIn(pending["main"], {"PUBLISH"}) \in Nat
    BY <1>1
  <2>3. QED
    BY <1>2, <2>1, <2>2
<1>7. acked' + Back({"PUBACK", "PUBCOMP"})' <= completed'
  <2>1. acked + Back({"PUBACK", "PUBCOMP"}) <= completed
    BY DEF Balances
  <2>2. /\ Back({"PUBACK", "PUBCOMP"})' \in Nat /\ Back({"PUBACK", "PUBCOMP"}) \in Nat
        /\ Back({"PUBACK", "PUBCOMP"})' <= Back({"PUBACK", "PUBCOMP"})
    BY <1>1
  <2>3. QED
    BY <1>1, <2>1, <2>2
<1>8. received' + Back({"PUBLISH"})' <= delivered'
  <2>1. received + Back({"PUBLISH"}) <= delivered
    BY DEF Balances
  <2>2. /\ Back({"PUBLISH"})' \in Nat /\ Back({"PUBLISH"}) \in Nat /\ Back({"PUBLISH"})' <= Back({"PUBLISH"})
    BY <1>1
  <2>3. QED
    BY <1>1, <1>2, <2>1, <2>2
<1>9. mode' = "source" => completed' + Ahead({"PUBREL"})' + Back({"PUBREC"})' <= published'
  <2>1. mode = "source" => completed + Ahead({"PUBREL"}) + Back({"PUBREC"}) <= published
    BY DEF Balances
  <2>2. /\ Back({"PUBREC"})' \in Nat /\ Back({"PUBREC"}) \in Nat /\ Back({"PUBREC"})' <= Back({"PUBREC"})
        /\ Ahead({"PUBREL"})' \in Nat /\ Ahead({"PUBREL"}) \in Nat /\ Ahead({"PUBREL"})' <= Ahead({"PUBREL"})
    BY <1>1
  <2>3. QED
    BY <1>1, <2>1, <2>2
<1>10. QED
  BY <1>4, <1>5, <1>6, <1>7, <1>8, <1>9 DEF Balances

\* A failed write: what the thread had to write is dropped.
LEMMA WriteErrorBalances ==
  ASSUME Scalars, Roles, Lines, Balances, NEW t \in Threads, WriteError(t) PROVE Balances'
<1>1. /\ ~up' /\ pending' = [pending EXCEPT ![t] = <<>>] /\ UNCHANGED <<toBroker, rb, toPeer>>
      /\ UNCHANGED <<mode, sent, sentWindow, batch, echoed, acked, received, published, completed, delivered>>
  BY DEF WriteError, counters, pacing, broker
<1>2. DOMAIN pending = {"main", "reader"}
  BY DEF Lines, Threads
<1>3. ASSUME NEW types
      PROVE  /\ Ahead(types)' \in Nat /\ Ahead(types)' <= Ahead(types)
             /\ Back(types)' \in Nat /\ Back(types)' <= Back(types)
             /\ WholeIn(pending["main"], types)' \in Nat
             /\ WholeIn(pending["main"], types)' <= WholeIn(pending["main"], types)
             /\ WholeIn(pending["reader"], types)' \in Nat
             /\ WholeIn(pending["reader"], types)' <= WholeIn(pending["reader"], types)
  <2>1. /\ WholeIn(toBroker, types) \in Nat /\ WholeIn(pending["main"], types) \in Nat
        /\ WholeIn(pending["reader"], types) \in Nat /\ Back(types) \in Nat
    BY CountTypes
  <2>2. /\ pending'["main"] = pending["main"] \/ pending'["main"] = <<>>
        /\ pending'["reader"] = pending["reader"] \/ pending'["reader"] = <<>>
    BY <1>1, <1>2
  <2>3. WholeIn(<<>>, types) = 0
    BY CountEmpty
  <2>4. Back(types)' = Back(types)
    BY <1>1 DEF Back, Inbound
  <2>5. /\ WholeIn(pending'["main"], types) \in Nat
        /\ WholeIn(pending'["main"], types) <= WholeIn(pending["main"], types)
        /\ WholeIn(pending'["reader"], types) \in Nat
        /\ WholeIn(pending'["reader"], types) <= WholeIn(pending["reader"], types)
    BY <2>1, <2>2, <2>3
  <2>6. Ahead(types)' \in Nat /\ Ahead(types)' <= Ahead(types)
    BY <1>1, <2>1, <2>5 DEF Ahead
  <2>7. QED
    BY <2>1, <2>4, <2>5, <2>6
<1>4. QED
  BY <1>1, <1>3, LessBalances

\* The connection drops: what was in the socket is lost, and what was read is not.
LEMMA DropBalances == ASSUME Scalars, Roles, Lines, Balances, Drop PROVE Balances'
<1>1. /\ ~up' /\ toBroker' = <<>> /\ toPeer' = <<>> /\ UNCHANGED <<pending, rb>>
      /\ UNCHANGED <<mode, sent, sentWindow, batch, echoed, acked, received, published, completed, delivered>>
  BY DEF Drop, counters, pacing, broker
<1>2. rb \in Seq(PieceSet) /\ toPeer \in Seq(PieceSet)
  BY LineTypes
<1>3. Inbound' = rb
  BY <1>1, <1>2, ConcatEmptySeq DEF Inbound
<1>4. ASSUME NEW types
      PROVE  /\ Ahead(types)' \in Nat /\ Ahead(types)' <= Ahead(types)
             /\ Back(types)' \in Nat /\ Back(types)' <= Back(types)
             /\ WholeIn(pending["main"], types)' \in Nat
             /\ WholeIn(pending["main"], types)' <= WholeIn(pending["main"], types)
             /\ WholeIn(pending["reader"], types)' \in Nat
             /\ WholeIn(pending["reader"], types)' <= WholeIn(pending["reader"], types)
  <2>1. /\ WholeIn(toBroker, types) \in Nat /\ WholeIn(pending["main"], types) \in Nat
        /\ WholeIn(pending["reader"], types) \in Nat
    BY CountTypes
  <2>2. WholeIn(toBroker', types) = 0
    BY <1>1, CountEmpty
  <2>3. Ahead(types)' \in Nat /\ Ahead(types)' <= Ahead(types)
    BY <1>1, <2>1, <2>2 DEF Ahead
  <2>4. /\ WholeIn(rb \o toPeer, types) = WholeIn(rb, types) + WholeIn(toPeer, types)
        /\ WholeIn(rb, types) \in Nat /\ WholeIn(toPeer, types) \in Nat
    BY <1>2, CountConcat, BodiesFinite
  <2>5. Back(types)' = WholeIn(rb, types) /\ Back(types) = WholeIn(rb \o toPeer, types)
    BY <1>3 DEF Back, Inbound
  <2>6. Back(types)' \in Nat /\ Back(types)' <= Back(types)
    BY <2>4, <2>5
  <2>7. QED
    BY <1>1, <2>1, <2>3, <2>6
<1>5. QED
  BY <1>1, <1>4, LessBalances

\* A batch is filled: as many PUBLISHes to write as are now being made.
LEMMA FillBalances == ASSUME Scalars, Roles, Lines, Batch, Balances, Fill PROVE Balances'
<1>1. /\ pending'["reader"] = pending["reader"] /\ UNCHANGED <<up, toBroker, rb, toPeer>>
      /\ UNCHANGED <<mode, sent, sentWindow, echoed, acked, received, published, completed, delivered>>
  BY DEF Fill, Lines, Threads, counters, broker
<1>2. /\ WholeIn(pending'["main"], {"PUBLISH"}) = batch' /\ WholeIn(pending'["main"], {"PUBREL"}) = 0
      /\ WholeIn(pending["main"], {"PUBLISH"}) = 0 /\ WholeIn(pending["main"], {"PUBREL"}) = 0
  BY FillPieces, CountEmpty
<1>3. batch' \in Nat /\ batch = 0 /\ mode = "source"
  <2>1. batch' \in 1 .. BatchMax /\ batch = 0 /\ mode = "source"
    BY FillNumbers
  <2>2. QED
    BY <2>1, PeerAssumption
<1>4. /\ WholeIn(toBroker, {"PUBLISH"}) \in Nat /\ WholeIn(pending["reader"], {"PUBLISH"}) \in Nat
      /\ WholeIn(toBroker, {"PUBREL"}) \in Nat /\ WholeIn(pending["reader"], {"PUBREL"}) \in Nat
  BY CountTypes
<1>5. Ahead({"PUBLISH"})' = Ahead({"PUBLISH"}) + batch' /\ Ahead({"PUBREL"})' = Ahead({"PUBREL"})
      /\ Ahead({"PUBLISH"}) \in Nat
  BY <1>1, <1>2, <1>3, <1>4 DEF Ahead
<1>6. \A types : Back(types)' = Back(types)
  BY <1>1 DEF Back, Inbound
<1>7. Made' = Made + batch' /\ Made \in Nat /\ published \in Nat
  <2>1. sent \in Nat /\ published \in Nat
    BY DEF Scalars
  <2>2. Made = sent /\ Made' = sent + batch'
    BY <1>1, <1>3, <2>1 DEF Made
  <2>3. QED
    BY <1>3, <2>1, <2>2
<1>8. /\ published' + Ahead({"PUBLISH"})' <= Made'
      /\ up' => published' + Ahead({"PUBLISH"})' = Made'
  <2>1. /\ published + Ahead({"PUBLISH"}) <= Made
        /\ up => published + Ahead({"PUBLISH"}) = Made
    BY DEF Balances
  <2>2. QED
    BY <1>1, <1>3, <1>5, <1>7, <2>1
<1>9. WholeIn(pending["main"], {"PUBLISH"})' <= batch' /\ WholeIn(pending["reader"], {"PUBLISH"})' = 0
  BY <1>1, <1>2, <1>3 DEF Balances
<1>10. QED
  BY <1>1, <1>5, <1>6, <1>8, <1>9 DEF Balances

LEMMA ReadBalances == ASSUME Scalars, Lines, Balances, Read PROVE Balances'
<1>1. UNCHANGED <<mode, up, pending, toBroker, sent, sentWindow, batch, echoed, acked, received, published,
                  completed, delivered>>
  BY DEF Read, counters, pacing, broker
<1>2. QED
  BY <1>1, ReadInbound, BalancesKept

\* A packet is handled: what acknowledges, confirms or echoes it takes its place.
LEMMA HandleBalances == ASSUME Scalars, Roles, Lines, Framing, Balances, Handle PROVE Balances'
<1> DEFINE p == rb[2][1]
           a == Pieces(Ack(p))  e == Pieces(Echo(p))
           x == IF p.type \in {"PUBACK", "PUBCOMP"} THEN 1 ELSE 0
           y == IF p.type = "PUBLISH" THEN 1 ELSE 0
           z == IF p.type = "PUBREC" THEN 1 ELSE 0
           w == IF mode = "echo" /\ p.type = "PUBLISH" THEN 1 ELSE 0
<1>1. /\ pending'["main"] = pending["main"] /\ pending'["reader"] = (pending["reader"] \o a) \o e
      /\ UNCHANGED <<mode, up, toBroker, sent, sentWindow, batch, published, completed, delivered>>
  BY DEF Handle, Lines, Threads, pacing, broker
<1>2. /\ acked' = acked + x /\ echoed' = echoed + w
      /\ received' = received + y \/ received' = received
  <2>1. acked \in Nat /\ echoed \in Nat /\ received \in Nat
    BY DEF Scalars
  <2>2. /\ acked' = IF p.type \in {"PUBACK", "PUBCOMP"} THEN acked + 1 ELSE acked
        /\ received' = IF p.type = "PUBLISH" /\ mode # "source" THEN received + 1 ELSE received
        /\ echoed' = IF (p.type = "PUBLISH" /\ mode # "source") /\ mode = "echo" THEN echoed + 1 ELSE echoed
    BY DEF Handle
  <2> HIDE DEF p
  <2>3. QED
    BY <2>1, <2>2
<1>3. /\ p \in Packets /\ Inbound' = Tail(Tail(Inbound)) /\ Len(Inbound) >= 2 /\ Inbound[2][1] = p
  BY HandleInbound
<1>4. \A types : Back(types) = Back(types)' + (IF p.type \in types THEN 1 ELSE 0)
  <2>1. Inbound \in Seq(PieceSet) /\ InOrder(Inbound)
    BY LineTypes DEF Framing
  <2> HIDE DEF p
  <2>2. \A types : WholeIn(Inbound, types) = WholeIn(Tail(Tail(Inbound)), types)
                                             + (IF Inbound[2][1].type \in types THEN 1 ELSE 0)
    BY <1>3, <2>1, FirstPacket
  <2>3. \A types : WholeIn(Inbound, types) = WholeIn(Inbound', types) + (IF p.type \in types THEN 1 ELSE 0)
    BY <1>3, <2>2
  <2>4. QED
    BY <2>3 DEF Back
<1> HIDE DEF p
<1>5. /\ a \in Seq(PieceSet) /\ e \in Seq(PieceSet)
      /\ WholeIn(a, {"PUBLISH"}) = 0 /\ WholeIn(a, {"PUBREL"}) = z
      /\ WholeIn(e, {"PUBLISH"}) = w /\ WholeIn(e, {"PUBREL"}) = 0
  BY <1>3, AckPieces, EchoPieces
<1> HIDE DEF a, e
<1>6. pending["reader"] \in Seq(PieceSet)
  BY LineTypes DEF Threads
<1>7. ASSUME NEW types
      PROVE  WholeIn(pending'["reader"], types)
             = (WholeIn(pending["reader"], types) + WholeIn(a, types)) + WholeIn(e, types)
  <2> DEFINE u == pending["reader"] \o a
  <2>1. u \in Seq(PieceSet)
    BY <1>5, <1>6, ConcatProperties
  <2>2. WholeIn(u, types) = WholeIn(pending["reader"], types) + WholeIn(a, types)
    BY <1>5, <1>6, CountConcat
  <2> HIDE DEF u
  <2>3. WholeIn(u \o e, types) = WholeIn(u, types) + WholeIn(e, types)
    BY <1>5, <2>1, CountConcat
  <2>4. pending'["reader"] = u \o e
    BY <1>1 DEF u
  <2>5. QED
    BY <2>2, <2>3, <2>4
<1>8. /\ \A types : /\ WholeIn(pending["reader"], types) \in Nat /\ WholeIn(toBroker, types) \in Nat
                    /\ WholeIn(pending["main"], types) \in Nat /\ Back(types) \in Nat
                    /\ Ahead(types) \in Nat
      /\ x \in {0, 1} /\ y \in {0, 1} /\ z \in {0, 1} /\ w \in {0, 1}
  BY CountTypes
<1> DEFINE W == WholeIn(pending["reader"], {"PUBLISH"})  R == WholeIn(pending["reader"], {"PUBREL"})
<1>9. WholeIn(pending'["reader"], {"PUBLISH"}) = W + w /\ WholeIn(pending'["reader"], {"PUBREL"}) = R + z
  <2>1. W \in Nat /\ R \in Nat /\ w \in Nat /\ z \in Nat
    BY <1>8
  <2> HIDE DEF w, z
  <2>2. /\ WholeIn(pending'["reader"], {"PUBLISH"}) = (W + 0) + w
        /\ WholeIn(pending'["reader"], {"PUBREL"}) = (R + z) + 0
    BY <1>5, <1>7
  <2> HIDE DEF W, R
  <2>3. QED
    BY <2>1, <2>2
<1>10. Ahead({"PUBLISH"})' = Ahead({"PUBLISH"}) + w /\ Ahead({"PUBREL"})' = Ahead({"PUBREL"}) + z
  <2> DEFINE B == WholeIn(toBroker, {"PUBLISH"})  M == WholeIn(pending["main"], {"PUBLISH"})
             C == WholeIn(toBroker, {"PUBREL"})  N == WholeIn(pending["main"], {"PUBREL"})
  <2>1. B \in Nat /\ M \in Nat /\ W \in Nat /\ C \in Nat /\ N \in Nat /\ R \in Nat /\ w \in Nat /\ z \in Nat
    BY <1>8
  <2>2. Ahead({"PUBLISH"}) = (B + M) + W /\ Ahead({"PUBREL"}) = (C + N) + R
    BY DEF Ahead
  <2> HIDE DEF w, z
  <2>3. Ahead({"PUBLISH"})' = (B + M) + (W + w) /\ Ahead({"PUBREL"})' = (C + N) + (R + z)
    BY <1>1, <1>9 DEF Ahead
  <2> HIDE DEF B, M, W, C, N, R
  <2>4. QED
    BY <2>1, <2>2, <2>3
<1>11. Made' = Made + w /\ Made \in Nat /\ (mode = "source" => w = 0)
  <2>1. sent \in Nat /\ echoed \in Nat /\ batch \in Nat
    <3>1. sent \in Nat /\ echoed \in Nat /\ batch \in 0 .. BatchMax
      BY DEF Scalars
    <3>2. QED
      BY <3>1, PeerAssumption
  <2>2. CASE mode = "source"
    <3>1. w = 0
      BY <2>2
    <3>2. Made' = sent + batch /\ Made = sent + batch
      BY <1>1, <2>2 DEF Made
    <3>3. QED
      BY <2>1, <3>1, <3>2
  <2>3. CASE mode # "source"
    <3>1. Made' = echoed' /\ Made = echoed
      BY <1>1, <2>3 DEF Made
    <3>2. QED
      BY <1>2, <2>1, <2>3, <3>1
  <2>4. QED
    BY <2>2, <2>3
<1>12. /\ Back({"PUBACK", "PUBCOMP"}) = Back({"PUBACK", "PUBCOMP"})' + x
       /\ Back({"PUBLISH"}) = Back({"PUBLISH"})' + y
       /\ Back({"PUBREC"}) = Back({"PUBREC"})' + z
  BY <1>4
<1>13. \A types : Back(types)' \in Nat
  <2>1. Inbound' \in Seq(PieceSet)
    <3>1. Inbound \in Seq(PieceSet) /\ InOrder(Inbound)
      BY LineTypes DEF Framing
    <3>2. QED
      BY <1>3, <3>1, FirstPacket
  <2>2. QED
    BY <2>1, BodiesFinite DEF Back
<1>14. acked \in Nat /\ completed \in Nat /\ received \in Nat /\ delivered \in Nat /\ published \in Nat
  <2>1. acked \in Nat /\ completed \in Nat /\ received \in Nat /\ delivered \in 0 .. Deliveries /\ published \in Nat
    BY DEF Scalars
  <2>2. QED
    BY <2>1, PeerAssumption
<1> HIDE DEF x, y, z, w
<1>15. published' + Ahead({"PUBLISH"})' <= Made' /\ (up' => published' + Ahead({"PUBLISH"})' = Made')
  <2>1. published + Ahead({"PUBLISH"}) <= Made /\ (up => published + Ahead({"PUBLISH"}) = Made)
    BY DEF Balances
  <2>2. Ahead({"PUBLISH"}) \in Nat /\ w \in {0, 1} /\ published' = published /\ up' = up
    BY <1>1, <1>8
  <2>3. published' + Ahead({"PUBLISH"})' = (published + Ahead({"PUBLISH"})) + w
    BY <1>10, <1>14, <2>2
  <2>4. published + Ahead({"PUBLISH"}) \in Nat
    BY <1>14, <2>2
  <2>5. QED
    BY <1>11, <2>1, <2>2, <2>3, <2>4
<1>16. mode' = "source" => /\ WholeIn(pending["main"], {"PUBLISH"})' <= batch'
                           /\ WholeIn(pending["reader"], {"PUBLISH"})' = 0
  <2>1. mode = "source" => WholeIn(pending["main"], {"PUBLISH"}) <= batch /\ W = 0
    BY DEF Balances
  <2> HIDE DEF W
  <2>2. QED
    BY <1>1, <1>9, <1>11, <2>1
<1>17. acked' + Back({"PUBACK", "PUBCOMP"})' <= completed'
  <2>1. acked + Back({"PUBACK", "PUBCOMP"}) <= completed
    BY DEF Balances
  <2>2. x \in {0, 1} /\ Back({"PUBACK", "PUBCOMP"})' \in Nat /\ acked' = acked + x /\ completed' = completed
    BY <1>1, <1>2, <1>8, <1>13
  <2>3. QED
    BY <1>12, <1>14, <2>1, <2>2
<1>18. received' + Back({"PUBLISH"})' <= delivered'
  <2>1. received + Back({"PUBLISH"}) <= delivered
    BY DEF Balances
  <2>2. /\ y \in {0, 1} /\ Back({"PUBLISH"})' \in Nat /\ delivered' = delivered
        /\ received' = received + y \/ received' = received
    BY <1>1, <1>2, <1>8, <1>13
  <2>3. QED
    BY <1>12, <1>14, <2>1, <2>2
<1>19. mode' = "source" => completed' + Ahead({"PUBREL"})' + Back({"PUBREC"})' <= published'
  <2>1. mode = "source" => completed + Ahead({"PUBREL"}) + Back({"PUBREC"}) <= published
    BY DEF Balances
  <2>2. /\ z \in {0, 1} /\ Back({"PUBREC"})' \in Nat /\ Ahead({"PUBREL"}) \in Nat
        /\ completed' = completed /\ published' = published /\ mode' = mode
    BY <1>1, <1>8, <1>13
  <2>3. QED
    BY <1>10, <1>12, <1>14, <2>1, <2>2
<1>20. sentWindow' <= sent'
  BY <1>1 DEF Balances
<1>21. QED
  BY <1>15, <1>16, <1>17, <1>18, <1>19, <1>20 DEF Balances

\* What the broker answers a packet with is no more than the packet calls for.
LEMMA ReplyCounts ==
  ASSUME NEW p \in Packets, NEW reply \in Reply(p)
  PROVE  LET s == Pieces(reply)
             k == WholeIn(s, {"PUBACK", "PUBCOMP"})
             m == WholeIn(s, {"PUBREC"})
         IN /\ s \in Seq(PieceSet) /\ k \in Nat /\ m \in Nat /\ WholeIn(s, {"PUBLISH"}) = 0
            /\ k + m <= (IF p.type = "PUBLISH" THEN 1 ELSE 0) + (IF p.type = "PUBREL" THEN 1 ELSE 0)
            /\ k = IF reply # <<>> /\ reply[1].type \in {"PUBACK", "PUBCOMP"} THEN 1 ELSE 0
<1> DEFINE s == Pieces(reply)
           k == WholeIn(s, {"PUBACK", "PUBCOMP"})
           m == WholeIn(s, {"PUBREC"})
           c == (IF p.type = "PUBLISH" THEN 1 ELSE 0) + (IF p.type = "PUBREL" THEN 1 ELSE 0)
<1>1. CASE reply = <<>>
  <2>1. s = <<>> /\ <<>> \in Seq(PieceSet) /\ \A types : WholeIn(<<>>, types) = 0
    BY <1>1, PiecesNone, CountEmpty
  <2>2. c >= 0
    OBVIOUS
  <2> HIDE DEF s, c
  <2>3. k = 0 /\ m = 0 /\ WholeIn(s, {"PUBLISH"}) = 0 /\ s \in Seq(PieceSet)
    BY <2>1
  <2> HIDE DEF k, m
  <2>4. k \in Nat /\ m \in Nat /\ k + m <= c
    BY <2>2, <2>3 DEF c
  <2>5. QED
    BY <1>1, <2>3, <2>4 DEF k, m, s, c
<1>2. CASE reply # <<>>
  <2>1. PICK kind \in Types :
               /\ reply = <<Packet(kind, p.pid)>> /\ kind # "PUBLISH"
               /\ kind \in {"PUBACK", "PUBREC"} => p.type = "PUBLISH"
               /\ kind = "PUBCOMP" => p.type = "PUBREL"
    BY <1>2, Zenon DEF Reply, Types
  <2> DEFINE x == Packet(kind, p.pid)
  <2>2. p.pid \in 0 .. MaxPid
    BY DEF Packets
  <2>3. x \in Packets /\ x.type = kind
    BY <2>2 DEF Packet, Packets, Types
  <2>4. reply = <<x>> /\ reply[1].type = kind
    BY <2>1, <2>3
  <2> HIDE DEF x
  <2>5. s = Pieces(<<x>>)
    BY <2>4
  <2> HIDE DEF s
  <2>10. s \in Seq(PieceSet) /\ \A types : WholeIn(s, types) = IF x.type \in types THEN 1 ELSE 0
    BY <2>3, <2>5, PiecesOne
  <2>6. /\ k = IF kind \in {"PUBACK", "PUBCOMP"} THEN 1 ELSE 0
        /\ m = IF kind \in {"PUBREC"} THEN 1 ELSE 0
        /\ WholeIn(s, {"PUBLISH"}) = IF kind \in {"PUBLISH"} THEN 1 ELSE 0
    BY <2>3, <2>10
  <2> HIDE DEF k, m
  <2>8. k \in {0, 1} /\ m \in {0, 1} /\ c \in Nat
    BY <2>6
  <2>7. /\ k = 1 => m = 0 /\ p.type \in {"PUBLISH", "PUBREL"}
        /\ m = 1 => k = 0 /\ p.type \in {"PUBLISH", "PUBREL"}
    BY <2>1, <2>6
  <2>9. p.type \in {"PUBLISH", "PUBREL"} => c >= 1
    <3>1. CASE p.type = "PUBLISH"
      BY <3>1
    <3>2. CASE p.type = "PUBREL"
      BY <3>2
    <3>3. QED
      BY <3>1, <3>2
  <2> HIDE DEF c
  <2>11. k + m <= c
    BY <2>7, <2>8, <2>9
  <2>12. WholeIn(s, {"PUBLISH"}) = 0
    BY <2>1, <2>6
  <2>14. k \in Nat /\ m \in Nat
    BY <2>8
  <2>13. QED
    BY <1>2, <2>4, <2>6, <2>10, <2>11, <2>12, <2>14 DEF k, m, s, c
<1>3. QED
  BY <1>1, <1>2

\* The broker reads a piece: only a body moves the balances, by one packet on each side.
LEMMA BrokerReadsBalances ==
  ASSUME Scalars, Roles, Lines, Framing, Balances, BrokerReads PROVE Balances'
<1> DEFINE h == Head(toBroker)  p == h[1]
<1>1. /\ up /\ toBroker # <<>> /\ toBroker' = Tail(toBroker)
      /\ UNCHANGED <<mode, up, pending, rb, sent, sentWindow, batch, echoed, acked, received, delivered>>
  BY DEF BrokerReads, counters, pacing
<1>2. p \in Packets /\ h \in PieceSet
  BY <1>1, NextPiece, LineTypes, HeadTailProperties
<1>3. \A types : Ahead(types) = Ahead(types)' + Weight(h, types) /\ Weight(h, types) \in {0, 1}
                 /\ Ahead(types)' \in Nat
  <2> SUFFICES ASSUME NEW types
               PROVE  Ahead(types) = Ahead(types)' + Weight(h, types) /\ Weight(h, types) \in {0, 1}
                      /\ Ahead(types)' \in Nat
    OBVIOUS
  <2>1. toBroker \in Seq(PieceSet) /\ Tail(toBroker) \in Seq(PieceSet)
    BY <1>1, LineTypes, HeadTailProperties
  <2>2. WholeIn(toBroker, types) = Weight(h, types) + WholeIn(toBroker', types)
        /\ WholeIn(toBroker', types) \in Nat
    BY <1>1, <2>1, CountTail, BodiesFinite
  <2>3. WholeIn(pending["main"], types) \in Nat /\ WholeIn(pending["reader"], types) \in Nat
    BY CountTypes
  <2>4. Weight(h, types) \in {0, 1}
    BY DEF Weight
  <2> HIDE DEF h
  <2>5. QED
    BY <1>1, <2>2, <2>3, <2>4 DEF Ahead
<1>4. Made' = Made /\ Made \in Nat
  <2>1. sent \in Nat /\ echoed \in Nat /\ batch \in Nat
    <3>1. sent \in Nat /\ echoed \in Nat /\ batch \in 0 .. BatchMax
      BY DEF Scalars
    <3>2. QED
      BY <3>1, PeerAssumption
  <2>2. QED
    BY <1>1, <2>1 DEF Made
<1>5. /\ acked \in Nat /\ completed \in Nat /\ received \in Nat /\ delivered \in Nat /\ published \in Nat
      /\ Back({"PUBACK", "PUBCOMP"}) \in Nat /\ Back({"PUBLISH"}) \in Nat /\ Back({"PUBREC"}) \in Nat
  <2>1. acked \in Nat /\ completed \in Nat /\ received \in Nat /\ delivered \in 0 .. Deliveries /\ published \in Nat
    BY DEF Scalars
  <2>2. QED
    BY <2>1, CountTypes, PeerAssumption
<1> DEFINE q == Weight(h, {"PUBLISH"})  w == Weight(h, {"PUBREL"})
<1>6. \E k, m \in Nat :
         /\ k + m <= q + w /\ published' = published + q /\ completed' = completed + k
         /\ Back({"PUBACK", "PUBCOMP"})' = Back({"PUBACK", "PUBCOMP"}) + k
         /\ Back({"PUBREC"})' = Back({"PUBREC"}) + m
         /\ Back({"PUBLISH"})' = Back({"PUBLISH"})
  <2>1. CASE h[2] = 1
    <3>1. UNCHANGED <<published, completed, toPeer>>
      BY <2>1 DEF BrokerReads
    <3>2. \A types : Back(types)' = Back(types)
      BY <1>1, <3>1 DEF Back, Inbound
    <3>3. q = 0 /\ w = 0
      BY <2>1 DEF Weight
    <3> HIDE DEF q, w
    <3>4. /\ 0 \in Nat /\ 0 + 0 <= q + w /\ published' = published + q /\ completed' = completed + 0
          /\ Back({"PUBACK", "PUBCOMP"})' = Back({"PUBACK", "PUBCOMP"}) + 0
          /\ Back({"PUBREC"})' = Back({"PUBREC"}) + 0
          /\ Back({"PUBLISH"})' = Back({"PUBLISH"})
      BY <1>5, <3>1, <3>2, <3>3
    <3>5. QED
      BY <3>4
  <2>2. CASE h[2] # 1
    <3>1. h[2] = 2
      BY <1>2, <2>2 DEF PieceSet
    <3>2. PICK reply \in Reply(p) :
                  /\ toPeer' = toPeer \o Pieces(reply)
                  /\ completed' = IF reply # <<>> /\ reply[1].type \in {"PUBACK", "PUBCOMP"}
                                  THEN completed + 1 ELSE completed
      BY <2>2 DEF BrokerReads
    <3>3. published' = IF p.type = "PUBLISH" THEN published + 1 ELSE published
      BY <2>2 DEF BrokerReads
    <3>4. q = (IF p.type = "PUBLISH" THEN 1 ELSE 0) /\ w = (IF p.type = "PUBREL" THEN 1 ELSE 0)
      BY <3>1 DEF Weight
    <3> DEFINE s == Pieces(reply)
               k == WholeIn(s, {"PUBACK", "PUBCOMP"})
               m == WholeIn(s, {"PUBREC"})
    <3>5. /\ s \in Seq(PieceSet) /\ k \in Nat /\ m \in Nat /\ WholeIn(s, {"PUBLISH"}) = 0
          /\ k + m <= (IF p.type = "PUBLISH" THEN 1 ELSE 0) + (IF p.type = "PUBREL" THEN 1 ELSE 0)
          /\ k = IF reply # <<>> /\ reply[1].type \in {"PUBACK", "PUBCOMP"} THEN 1 ELSE 0
      <4> HIDE DEF h
      <4>1. QED
        BY <1>2, ReplyCounts
    <3> HIDE DEF s, h
    <3>6. Inbound' = Inbound \o s /\ Inbound \in Seq(PieceSet)
      <4>1. rb \in Seq(PieceSet) /\ toPeer \in Seq(PieceSet) /\ Inbound \in Seq(PieceSet)
        BY LineTypes
      <4>2. (rb \o toPeer) \o s = rb \o (toPeer \o s)
        BY <3>5, <4>1, Regroup
      <4>3. QED
        BY <1>1, <3>2, <4>1, <4>2 DEF Inbound, s
    <3>7. \A types : Back(types)' = Back(types) + WholeIn(s, types)
      <4>1. \A types : WholeIn(Inbound \o s, types) = WholeIn(Inbound, types) + WholeIn(s, types)
        BY <3>5, <3>6, CountConcat
      <4>2. QED
        BY <3>6, <4>1 DEF Back
    <3>8. k + m <= q + w
      BY <3>4, <3>5
    <3>9. published' = published + q /\ completed' = completed + k
      <4> HIDE DEF k, q
      <4>1. QED
        BY <1>5, <3>2, <3>3, <3>4, <3>5
    <3>10. /\ Back({"PUBACK", "PUBCOMP"})' = Back({"PUBACK", "PUBCOMP"}) + k
           /\ Back({"PUBREC"})' = Back({"PUBREC"}) + m
           /\ Back({"PUBLISH"})' = Back({"PUBLISH"})
      BY <1>5, <3>5, <3>7
    <3> HIDE DEF k, m, q, w
    <3>11. QED
      BY <3>5, <3>8, <3>9, <3>10
  <2>3. QED
    BY <2>1, <2>2
<1>7. PICK k, m \in Nat :
         /\ k + m <= q + w /\ published' = published + q /\ completed' = completed + k
         /\ Back({"PUBACK", "PUBCOMP"})' = Back({"PUBACK", "PUBCOMP"}) + k
         /\ Back({"PUBREC"})' = Back({"PUBREC"}) + m
         /\ Back({"PUBLISH"})' = Back({"PUBLISH"})
  BY <1>6
<1>8. /\ q \in {0, 1} /\ w \in {0, 1} /\ Ahead({"PUBLISH"})' \in Nat /\ Ahead({"PUBREL"})' \in Nat
      /\ Ahead({"PUBLISH"}) = Ahead({"PUBLISH"})' + q /\ Ahead({"PUBREL"}) = Ahead({"PUBREL"})' + w
  BY <1>3
<1> HIDE DEF q, w
<1>9. published' + Ahead({"PUBLISH"})' <= Made' /\ (up' => published' + Ahead({"PUBLISH"})' = Made')
  <2>1. published + Ahead({"PUBLISH"}) <= Made /\ (up => published + Ahead({"PUBLISH"}) = Made)
    BY DEF Balances
  <2>2. published + Ahead({"PUBLISH"}) = Made
    BY <1>1, <2>1
  <2>3. published' + Ahead({"PUBLISH"})' = published + Ahead({"PUBLISH"})
    BY <1>5, <1>7, <1>8
  <2>4. QED
    BY <1>4, <2>2, <2>3
<1>10. acked' + Back({"PUBACK", "PUBCOMP"})' <= completed'
  <2>1. acked + Back({"PUBACK", "PUBCOMP"}) <= completed
    BY DEF Balances
  <2>2. QED
    BY <1>1, <1>5, <1>7, <2>1
<1>11. received' + Back({"PUBLISH"})' <= delivered'
  <2>1. received + Back({"PUBLISH"}) <= delivered
    BY DEF Balances
  <2>2. QED
    BY <1>1, <1>5, <1>7, <2>1
<1>12. mode' = "source" => completed' + Ahead({"PUBREL"})' + Back({"PUBREC"})' <= published'
  <2>1. mode = "source" => completed + Ahead({"PUBREL"}) + Back({"PUBREC"}) <= published
    BY DEF Balances
  <2> DEFINE A == Ahead({"PUBREL"})'  B == Back({"PUBREC"})
  <2>2. A \in Nat /\ B \in Nat /\ Ahead({"PUBREL"}) = A + w /\ Back({"PUBREC"})' = B + m /\ mode' = mode
    BY <1>1, <1>5, <1>7, <1>8
  <2>3. ASSUME mode = "source" PROVE completed' + A + (B + m) <= published'
    <3>1. completed + (A + w) + B <= published
      BY <2>1, <2>2, <2>3
    <3> HIDE DEF A, B
    <3>2. QED
      BY <1>5, <1>7, <1>8, <2>2, <3>1
  <2>4. QED
    BY <2>2, <2>3
<1>13. /\ sentWindow' <= sent'
       /\ mode' = "source" => /\ WholeIn(pending["main"], {"PUBLISH"})' <= batch'
                              /\ WholeIn(pending["reader"], {"PUBLISH"})' = 0
  BY <1>1 DEF Balances
<1>14. QED
  BY <1>9, <1>10, <1>11, <1>12, <1>13 DEF Balances

\* The broker delivers: one message more on its way.
LEMMA BrokerDeliversBalances ==
  ASSUME Scalars, Lines, Framing, Balances, BrokerDelivers PROVE Balances'
<1> DEFINE x == Packet("PUBLISH", IF qos > 0 THEN (delivered % MaxPid) + 1 ELSE 0)
           s == Pieces(<<x>>)
<1>1. /\ up /\ toPeer' = toPeer \o s /\ delivered' = delivered + 1
      /\ UNCHANGED <<mode, up, pending, toBroker, rb, sent, sentWindow, batch, echoed, acked, received,
                     published, completed>>
  BY DEF BrokerDelivers, counters, pacing
<1>2. x \in Packets /\ x.type = "PUBLISH"
  BY DeliveredPacket
<1> HIDE DEF x
<1>3. /\ s \in Seq(PieceSet) /\ Whole(s)
      /\ \A types : WholeIn(s, types) = IF "PUBLISH" \in types THEN 1 ELSE 0
  BY <1>2, PiecesOne
<1> HIDE DEF s
<1>4. Inbound' = Inbound \o s /\ Inbound \in Seq(PieceSet)
  BY <1>1, <1>3, InboundGrows, LineTypes
<1>5. \A types : Back(types)' = Back(types) + WholeIn(s, types)
  <2>1. \A types : WholeIn(Inbound \o s, types) = WholeIn(Inbound, types) + WholeIn(s, types)
    BY <1>3, <1>4, CountConcat
  <2>2. QED
    BY <1>4, <2>1 DEF Back
<1>6. /\ WholeIn(s, {"PUBACK", "PUBCOMP"}) = 0 /\ WholeIn(s, {"PUBLISH"}) = 1 /\ WholeIn(s, {"PUBREC"}) = 0
  BY <1>3
<1>7. /\ Back({"PUBACK", "PUBCOMP"}) \in Nat /\ Back({"PUBLISH"}) \in Nat /\ Back({"PUBREC"}) \in Nat
      /\ received \in Nat /\ delivered \in Nat
  <2>1. received \in Nat /\ delivered \in 0 .. Deliveries
    BY DEF Scalars
  <2>2. QED
    BY <2>1, CountTypes, PeerAssumption
<1>8. /\ Back({"PUBACK", "PUBCOMP"})' = Back({"PUBACK", "PUBCOMP"})
      /\ Back({"PUBREC"})' = Back({"PUBREC"}) /\ Back({"PUBLISH"})' = Back({"PUBLISH"}) + 1
  BY <1>5, <1>6, <1>7
<1>9. \A types : Ahead(types)' = Ahead(types)
  BY <1>1 DEF Ahead
<1>10. Made' = Made
  BY <1>1 DEF Made
<1>11. received' + Back({"PUBLISH"})' <= delivered'
  <2>1. received + Back({"PUBLISH"}) <= delivered
    BY DEF Balances
  <2>2. QED
    BY <1>1, <1>7, <1>8, <2>1
<1>12. QED
  BY <1>1, <1>8, <1>9, <1>10, <1>11 DEF Balances

LEMMA NextBalances ==
  ASSUME Scalars, Roles, Lines, Batch, Framing, Balances, Next PROVE Balances'
<1>1. CASE Elapse \/ Wake \/ Rest \/ PrintResult \/ Flush \/ ReadError \/ StopReading \/ Printed
           \/ \E t \in Threads : Acquire(t)
  <2>1. /\ UNCHANGED <<mode, up, pending, toBroker, sent, sentWindow, batch, echoed, acked, received,
                       published, completed, delivered>>
        /\ UNCHANGED <<rb, toPeer>>
    BY <1>1 DEF Elapse, Wake, Rest, PrintResult, Flush, ReadError, StopReading, Printed, Acquire, vars,
       pacing, counters, broker
  <2>2. Inbound' = Inbound
    BY <2>1 DEF Inbound
  <2>3. QED
    BY <2>1, <2>2, BalancesKept
<1>2. QED
  BY <1>1, WriteBalances, WrittenBalances, WriteErrorBalances, FillBalances, ReadBalances, HandleBalances,
     BrokerReadsBalances, BrokerDeliversBalances, DropBalances
  DEF Next, MainStep, ReaderStep, WriteStep

-----------------------------------------------------------------------------
(* The theorems. *)

LEMMA InductiveStep == ASSUME IInv, [Next]_vars PROVE IInv'
<1>1. CASE UNCHANGED vars
  <2>1. /\ UNCHANGED <<mode, qos, paced, clock, up, pc, lock, pending, nextTick, due, skipped, batch, stamped>>
        /\ UNCHANGED <<pid, rb, sent, sentWindow, acked, received, echoed, error, toBroker, toPeer, half,
                       delivered, published, completed, garbled>>
    BY <1>1 DEF vars, pacing, counters, broker
  <2>2. Scalars' /\ Roles' /\ Batch' /\ Lines'
    <3>1. Scalars'
      BY <2>1 DEF IInv, Scalars, DueMax
    <3>2. Roles'
      BY <2>1 DEF IInv, Roles
    <3>3. Batch' /\ Lines'
      BY <2>1 DEF IInv, Batch, Lines, Numbered
    <3>4. QED
      BY <3>1, <3>2, <3>3
  <2>3. Wire' = Wire /\ Inbound' = Inbound
    BY <2>1 DEF Wire, Opened, InWriting, Inbound
  <2>4. Framing'
    BY <2>1, <2>3 DEF IInv, Framing
  <2>5. Balances'
    BY <2>1, <2>3, BalancesKept DEF IInv
  <2>6. QED
    BY <2>2, <2>4, <2>5 DEF IInv
<1>2. CASE Next
  BY <1>2, NextScalars, NextRoles, NextLines, NextBatch, NextFraming, NextBalances DEF IInv
<1>3. QED
  BY <1>1, <1>2

LEMMA Invariant == Spec => []IInv
<1>1. Init => IInv
  BY InitScalars, InitFraming, InitBalances DEF IInv
<1>2. IInv /\ [Next]_vars => IInv'
  BY InductiveStep
<1>3. QED
  BY <1>1, <1>2, PTL DEF Spec

LEMMA InvariantTypes == ASSUME IInv PROVE TypeOK
<1>1. \A s \in Seq(PieceSet) : Range(s) \subseteq PieceSet
  BY DEF Range
<1>2. /\ \A t \in Threads : Range(pending[t]) \subseteq PieceSet
      /\ Range(rb) \subseteq PieceSet /\ Range(toBroker) \cup Range(toPeer) \subseteq PieceSet
  BY <1>1 DEF IInv, Lines
<1>3. \A piece \in Range(toBroker) : piece[1].type = "PUBLISH" /\ qos > 0 => piece[1].pid # 0
  <2>1. toBroker \in Seq(PieceSet) /\ Numbered(toBroker)
    BY DEF IInv, Lines
  <2>2. DOMAIN toBroker = 1 .. Len(toBroker)
    BY <2>1
  <2>3. QED
    BY <2>1, <2>2 DEF Range, Numbered
<1>4. QED
  BY <1>2, <1>3 DEF TypeOK, IInv, Scalars, Roles

\* Everything is what it is declared to be; in particular an identifier a PUBLISH needs
\* is never 0 on the wire, the socket never holds more than it has room for, and the
\* reader never sleeps on a whole packet (write_publish_batch, rbuf_fill).
THEOREM PeerTypeCorrect == Spec => []TypeOK
<1>1. IInv => TypeOK
  BY InvariantTypes
<1>2. QED
  BY <1>1, Invariant, PTL

\* Whatever the two threads write, in as many send() calls as it takes, the broker never
\* finds a packet of one inside a packet of the other (write_all under g_write_lock).
THEOREM FramesStayWhole == Spec => []FramesWhole
<1>1. IInv => FramesWhole
  BY DEF IInv, Framing, FramesWhole
<1>2. QED
  BY <1>1, Invariant, PTL

LEMMA InvariantCounts == ASSUME IInv PROVE CountsHonest
<1> DEFINE W == WholeIn(toBroker, {"PUBLISH"})  P == WholeIn(pending["main"], {"PUBLISH"})
           R == WholeIn(pending["reader"], {"PUBLISH"})
<1>1. /\ W \in Nat /\ P \in Nat /\ R \in Nat
      /\ Back({"PUBACK", "PUBCOMP"}) \in Nat /\ Back({"PUBLISH"}) \in Nat /\ Back({"PUBREC"}) \in Nat
      /\ Ahead({"PUBREL"}) \in Nat /\ Ahead({"PUBLISH"}) = W + P + R
  BY CountTypes DEF IInv, Ahead
<1> HIDE DEF W, P, R
<1>2. /\ sent \in Nat /\ acked \in Nat /\ completed \in Nat /\ received \in Nat /\ delivered \in Nat
      /\ published \in Nat /\ batch \in Nat /\ echoed \in Nat
  <2>1. /\ sent \in Nat /\ acked \in Nat /\ completed \in Nat /\ received \in Nat /\ delivered \in 0 .. Deliveries
        /\ published \in Nat /\ batch \in 0 .. BatchMax /\ echoed \in Nat
    BY DEF IInv, Scalars
  <2>2. QED
    BY <2>1, PeerAssumption
<1>3. acked <= completed /\ received <= delivered /\ sentWindow <= sent
  <2>1. /\ acked + Back({"PUBACK", "PUBCOMP"}) <= completed /\ received + Back({"PUBLISH"}) <= delivered
        /\ sentWindow <= sent
    BY DEF IInv, Balances
  <2>2. QED
    BY <1>1, <1>2, <2>1
<1>4. ASSUME mode = "source", up PROVE sent <= published + W
  <2>1. published + Ahead({"PUBLISH"}) = sent + batch /\ P <= batch /\ R = 0
    BY <1>4 DEF IInv, Balances, Made, P, R
  <2>2. QED
    BY <1>1, <1>2, <2>1
<1>5. ASSUME mode = "source", pc["main"] = "printed", error = ""
      PROVE  acked <= sent /\ (up => sent = published + W)
  <2>1. batch = 0 /\ pending["main"] = <<>>
    BY <1>5 DEF IInv, Batch, Roles
  <2>2. P = 0 /\ R = 0
    BY <1>5, <2>1, CountEmpty DEF IInv, Balances, P, R
  <2>3. /\ published + Ahead({"PUBLISH"}) <= sent + batch
        /\ up => published + Ahead({"PUBLISH"}) = sent + batch
        /\ completed + Ahead({"PUBREL"}) + Back({"PUBREC"}) <= published
    BY <1>5 DEF IInv, Balances, Made
  <2>4. completed <= published /\ published <= sent
    BY <1>1, <1>2, <2>1, <2>2, <2>3
  <2>5. up => sent = published + W
    BY <1>1, <1>2, <2>1, <2>2, <2>3
  <2>6. QED
    BY <1>2, <1>3, <2>4, <2>5
<1>6. ASSUME mode = "echo", up, pc["reader"] \in {"reading", "ended"} PROVE echoed = published + W
  <2>1. pending["main"] = <<>> /\ pending["reader"] = <<>>
    BY <1>6 DEF IInv, Roles
  <2>2. P = 0 /\ R = 0
    BY <2>1, CountEmpty DEF P, R
  <2>3. published + Ahead({"PUBLISH"}) = echoed
    BY <1>6 DEF IInv, Balances, Made
  <2>4. QED
    BY <1>1, <1>2, <2>2, <2>3
<1>7. QED
  BY <1>3, <1>4, <1>5, <1>6 DEF CountsHonest, W

\* The counters the peer prints, against the other end: no publish is counted before all
\* of it is in the socket, no acknowledgement the broker did not give, no message it did
\* not send; and with no error the source's count is exactly what the broker has read or
\* has still to read (run_source, source_reader, run_receiver).
THEOREM CountsAreHonest == Spec => []CountsHonest
<1>1. IInv => CountsHonest
  BY InvariantCounts
<1>2. QED
  BY <1>1, Invariant, PTL
=============================================================================
