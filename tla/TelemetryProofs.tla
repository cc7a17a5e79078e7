--------------------------- MODULE TelemetryProofs ---------------------------
(***************************************************************************)
(* For any number of channels, ticks, faults and frame sizes: no sample    *)
(* vanishes unaccounted for, samples are committed once and in the order   *)
(* they were taken, and a watermark acknowledged in the first boot of a    *)
(* node, before its frame counter wraps, covers settled samples only.      *)
(***************************************************************************)
EXTENDS Telemetry, TLAPS

-----------------------------------------------------------------------------
(* Sequences of frames, and how a batch is cut into them.                  *)

Held(q) == UNION {ToSet(q[i].samples) : i \in DOMAIN q}

\* Every sample of an earlier frame was taken before every sample of a later one.
Chained(q) ==
    \A i, j \in DOMAIN q :
        i < j => \A s \in ToSet(q[i].samples), r \in ToSet(q[j].samples) : Before(s, r)

Sorted(entries) ==
    \A i, j \in DOMAIN entries : i < j => Before(entries[i], entries[j])

AllBefore(S, R) == \A s \in S, r \in R : Before(s, r)

LEMMA HeldConcat ==
    ASSUME NEW p \in Seq(Frame), NEW q \in Seq(Frame)
    PROVE  Held(p \o q) = Held(p) \cup Held(q)
<1>1. /\ DOMAIN (p \o q) = 1 .. Len(p) + Len(q)
      /\ \A i \in 1 .. Len(p) + Len(q) :
            (p \o q)[i] = IF i <= Len(p) THEN p[i] ELSE q[i - Len(p)]
    OBVIOUS
<1>2. ASSUME NEW s, s \in Held(p) PROVE s \in Held(p \o q)
  <2>1. PICK i \in DOMAIN p : s \in ToSet(p[i].samples)
      BY <1>2 DEF Held
  <2>2. i \in DOMAIN (p \o q) /\ (p \o q)[i] = p[i]
      BY <1>1
  <2> QED BY <2>1, <2>2 DEF Held
<1>3. ASSUME NEW s, s \in Held(q) PROVE s \in Held(p \o q)
  <2>1. PICK i \in DOMAIN q : s \in ToSet(q[i].samples)
      BY <1>3 DEF Held
  <2>2. i + Len(p) \in DOMAIN (p \o q) /\ (p \o q)[i + Len(p)] = q[i]
      BY <1>1
  <2> QED BY <2>1, <2>2 DEF Held
<1>4. ASSUME NEW s, s \in Held(p \o q) PROVE s \in Held(p) \cup Held(q)
  <2>1. PICK i \in DOMAIN (p \o q) : s \in ToSet((p \o q)[i].samples)
      BY <1>4 DEF Held
  <2>2. CASE i <= Len(p)
    <3>1. i \in DOMAIN p /\ (p \o q)[i] = p[i]
        BY <1>1, <2>2
    <3> QED BY <2>1, <3>1 DEF Held
  <2>3. CASE i > Len(p)
    <3>1. i - Len(p) \in DOMAIN q /\ (p \o q)[i] = q[i - Len(p)]
        BY <1>1, <2>3
    <3> QED BY <2>1, <3>1 DEF Held
  <2> QED BY <1>1, <2>2, <2>3
<1> QED BY <1>2, <1>3, <1>4

LEMMA ChainedConcat ==
    ASSUME NEW p \in Seq(Frame), NEW q \in Seq(Frame), Chained(p), Chained(q),
           AllBefore(Held(p), Held(q))
    PROVE  Chained(p \o q)
<1> SUFFICES ASSUME NEW i \in DOMAIN (p \o q), NEW j \in DOMAIN (p \o q), i < j,
                    NEW s \in ToSet((p \o q)[i].samples), NEW r \in ToSet((p \o q)[j].samples)
             PROVE  Before(s, r)
    BY DEF Chained
<1>1. /\ DOMAIN (p \o q) = 1 .. Len(p) + Len(q)
      /\ \A k \in 1 .. Len(p) + Len(q) :
            (p \o q)[k] = IF k <= Len(p) THEN p[k] ELSE q[k - Len(p)]
    OBVIOUS
<1>2. CASE j <= Len(p)
  <2>1. i \in DOMAIN p /\ j \in DOMAIN p /\ (p \o q)[i] = p[i] /\ (p \o q)[j] = p[j]
      BY <1>1, <1>2
  <2> QED BY <2>1 DEF Chained
<1>3. CASE i <= Len(p) /\ j > Len(p)
  <2>1. /\ i \in DOMAIN p /\ (p \o q)[i] = p[i]
        /\ j - Len(p) \in DOMAIN q /\ (p \o q)[j] = q[j - Len(p)]
      BY <1>1, <1>3
  <2>2. s \in Held(p) /\ r \in Held(q)
      BY <2>1 DEF Held
  <2> QED BY <2>2 DEF AllBefore
<1>4. CASE i > Len(p)
  <2>1. /\ i - Len(p) \in DOMAIN q /\ (p \o q)[i] = q[i - Len(p)]
        /\ j - Len(p) \in DOMAIN q /\ (p \o q)[j] = q[j - Len(p)]
        /\ i - Len(p) < j - Len(p)
      BY <1>1, <1>4
  <2> QED BY <2>1 DEF Chained
<1> QED BY <1>1, <1>2, <1>3, <1>4

\* What a reset leaves of the queue.
LEMMA Prefix ==
    ASSUME NEW q \in Seq(Frame), NEW n \in 0 .. Len(q)
    PROVE  /\ SubSeq(q, 1, n) \in Seq(Frame)
           /\ Held(q) = Held(SubSeq(q, 1, n))
                            \cup UNION {ToSet(q[i].samples) : i \in n + 1 .. Len(q)}
           /\ Chained(q) => /\ Chained(SubSeq(q, 1, n))
                            /\ AllBefore(Held(SubSeq(q, 1, n)),
                                         UNION {ToSet(q[i].samples) : i \in n + 1 .. Len(q)})
<1> DEFINE t == SubSeq(q, 1, n)
           cut == UNION {ToSet(q[i].samples) : i \in n + 1 .. Len(q)}
<1>1. /\ t \in Seq(Frame) /\ DOMAIN t = 1 .. n /\ DOMAIN q = 1 .. Len(q) /\ Len(q) \in Nat
      /\ \A i \in DOMAIN t : t[i] = q[i]
    OBVIOUS
<1> HIDE DEF t
<1>2. \A i \in DOMAIN t : i \in DOMAIN q
    BY <1>1
<1>3. \A i \in DOMAIN q : i \in DOMAIN t \/ i \in n + 1 .. Len(q)
    BY <1>1
<1>4. \A i \in n + 1 .. Len(q) : i \in DOMAIN q
    BY <1>1
<1>5. Held(q) = Held(t) \cup cut
  <2>1. Held(q) \subseteq Held(t) \cup cut
      BY <1>1, <1>3 DEF Held
  <2>2. Held(t) \cup cut \subseteq Held(q)
      BY <1>1, <1>2, <1>4 DEF Held
  <2> QED BY <2>1, <2>2
<1>6. Chained(q) => Chained(t)
    BY <1>1, <1>2 DEF Chained
<1>7. ASSUME Chained(q), NEW s \in Held(t), NEW r \in cut PROVE Before(s, r)
  <2>1. PICK i \in DOMAIN t : s \in ToSet(t[i].samples)
      BY DEF Held
  <2>2. PICK j \in n + 1 .. Len(q) : r \in ToSet(q[j].samples)
      OBVIOUS
  <2>3. i < j
      BY <1>1
  <2> QED BY <1>1, <1>2, <1>4, <1>7, <2>1, <2>2, <2>3 DEF Chained
<1> QED BY <1>1, <1>5, <1>6, <1>7 DEF t, AllBefore

LEMMA HeadAndTail ==
    ASSUME NEW q \in Seq(Frame), q # <<>>
    PROVE  /\ Head(q) \in Frame /\ Tail(q) \in Seq(Frame)
           /\ Held(q) = ToSet(Head(q).samples) \cup Held(Tail(q))
           /\ Chained(q) => /\ Chained(Tail(q))
                            /\ AllBefore(ToSet(Head(q).samples), Held(Tail(q)))
<1> DEFINE t == Tail(q)
<1>1. /\ Head(q) \in Frame /\ t \in Seq(Frame) /\ DOMAIN t = 1 .. Len(q) - 1
      /\ Head(q) = q[1] /\ \A i \in DOMAIN t : t[i] = q[i + 1]
      /\ DOMAIN q = 1 .. Len(q) /\ Len(q) \in Nat /\ Len(q) >= 1
    OBVIOUS
<1> HIDE DEF t
<1>2. \A i \in DOMAIN t : i + 1 \in DOMAIN q /\ i \in Nat
    BY <1>1
<1>3. \A i \in DOMAIN q : i = 1 \/ (i - 1 \in DOMAIN t /\ q[i] = t[i - 1])
    BY <1>1
<1>4. 1 \in DOMAIN q
    BY <1>1
<1>5. Held(q) \subseteq ToSet(Head(q).samples) \cup Held(t)
    BY <1>1, <1>3 DEF Held
<1>6. ToSet(Head(q).samples) \cup Held(t) \subseteq Held(q)
    BY <1>1, <1>2, <1>4 DEF Held
<1>7. ASSUME Chained(q) PROVE Chained(t)
  <2> SUFFICES ASSUME NEW i \in DOMAIN t, NEW j \in DOMAIN t, i < j
               PROVE  \A s \in ToSet(t[i].samples), r \in ToSet(t[j].samples) : Before(s, r)
      BY DEF Chained
  <2>1. i + 1 < j + 1 /\ t[i] = q[i + 1] /\ t[j] = q[j + 1]
      BY <1>1
  <2> QED BY <1>2, <1>7, <2>1 DEF Chained
<1>8. ASSUME Chained(q) PROVE AllBefore(ToSet(Head(q).samples), Held(t))
  <2> SUFFICES ASSUME NEW s \in ToSet(Head(q).samples), NEW r \in Held(t)
               PROVE  Before(s, r)
      BY DEF AllBefore
  <2>1. PICK i \in DOMAIN t : r \in ToSet(t[i].samples)
      BY DEF Held
  <2>2. 1 < i + 1 /\ i + 1 \in DOMAIN q /\ t[i] = q[i + 1]
      BY <1>1, <1>2
  <2> QED BY <1>1, <1>4, <1>8, <2>1, <2>2 DEF Chained
<1> QED BY <1>1, <1>5, <1>6, <1>7, <1>8 DEF t

-----------------------------------------------------------------------------
LEMMA Times == \A a, b, p \in Nat : a <= b => a * p <= b * p
BY SMT

LEMMA Quotient ==
    ASSUME NEW n \in Nat, NEW p \in Nat \ {0}
    PROVE  /\ n \div p \in Nat
           /\ (n \div p) * p <= n
           /\ n < (n \div p + 1) * p
BY SMT

\* Where the i-th frame of a batch begins and ends.
From(i) == (i - 1) * PerFrame
Upto(entries, i) == IF i * PerFrame < Len(entries) THEN i * PerFrame ELSE Len(entries)

LEMMA SliceBounds ==
    ASSUME NEW entries \in Seq(Sample), NEW i \in 1 .. Frames(entries)
    PROVE  /\ From(i) \in Nat /\ Upto(entries, i) \in Nat
           /\ From(i) < Upto(entries, i) /\ Upto(entries, i) <= Len(entries)
           /\ Upto(entries, i) <= i * PerFrame
           /\ Slice(entries, i) \in Seq(Sample)
           /\ DOMAIN Slice(entries, i) = 1 .. Upto(entries, i) - From(i)
           /\ \A k \in DOMAIN Slice(entries, i) :
                 /\ From(i) + k \in From(i) + 1 .. Upto(entries, i)
                 /\ Slice(entries, i)[k] = entries[From(i) + k]
<1> DEFINE n == Len(entries)
           d == Frames(entries)
<1>1. n \in Nat /\ PerFrame \in Nat /\ PerFrame >= 1
    BY BoundsAssumption
<1>2. d \in Nat /\ d * PerFrame <= n + PerFrame - 1
    BY <1>1, Quotient DEF Frames
<1>3. i \in Nat /\ i >= 1 /\ i * PerFrame <= d * PerFrame
    BY <1>1, <1>2, Times
<1>4. i * PerFrame \in Nat /\ From(i) = i * PerFrame - PerFrame /\ d * PerFrame \in Nat
    BY <1>1, <1>2, <1>3 DEF From
<1>5. From(i) <= n - 1
    BY <1>1, <1>2, <1>3, <1>4
<1>6. From(i) \in Nat
  <2>1. 1 * PerFrame <= i * PerFrame
      BY <1>1, <1>3, Times
  <2> QED BY <1>1, <1>4, <2>1
<1>7. /\ Upto(entries, i) \in Nat /\ From(i) < Upto(entries, i)
      /\ Upto(entries, i) <= n /\ Upto(entries, i) <= i * PerFrame
    BY <1>1, <1>4, <1>5, <1>6 DEF Upto
<1>8. Slice(entries, i) = SubSeq(entries, From(i) + 1, Upto(entries, i))
    BY DEF Slice, From, Upto
<1> DEFINE a == From(i)
           b == Upto(entries, i)
<1>9. /\ SubSeq(entries, a + 1, b) \in Seq(Sample)
      /\ DOMAIN SubSeq(entries, a + 1, b) = 1 .. b - a
      /\ \A k \in 1 .. b - a : SubSeq(entries, a + 1, b)[k] = entries[a + k]
  <2> HIDE DEF a, b
  <2>1. a \in Nat /\ b \in Nat /\ a < b /\ b <= Len(entries)
      BY <1>6, <1>7 DEF a, b
  <2> QED BY <2>1
<1>10. \A k \in 1 .. b - a : a + k \in a + 1 .. b
  <2> HIDE DEF a, b
  <2>1. a \in Nat /\ b \in Nat
      BY <1>6, <1>7 DEF a, b
  <2> QED BY <2>1
<1> QED BY <1>6, <1>7, <1>8, <1>9, <1>10

\* A batch holds exactly the samples it was made of.
LEMMA SlicesCover ==
    ASSUME NEW entries \in Seq(Sample)
    PROVE  UNION {ToSet(Slice(entries, i)) : i \in 1 .. Frames(entries)} = ToSet(entries)
<1>1. Len(entries) \in Nat /\ PerFrame \in Nat \ {0} /\ DOMAIN entries = 1 .. Len(entries)
    BY BoundsAssumption
<1>2. ASSUME NEW i \in 1 .. Frames(entries), NEW s \in ToSet(Slice(entries, i))
      PROVE  s \in ToSet(entries)
  <2>1. PICK k \in DOMAIN Slice(entries, i) : s = Slice(entries, i)[k]
      BY DEF ToSet
  <2>2. From(i) + k \in DOMAIN entries /\ s = entries[From(i) + k]
      BY <1>1, <2>1, SliceBounds
  <2> QED BY <2>2 DEF ToSet
<1>3. ASSUME NEW s \in ToSet(entries)
      PROVE  \E i \in 1 .. Frames(entries) : s \in ToSet(Slice(entries, i))
  <2>1. PICK k \in 1 .. Len(entries) : s = entries[k]
      BY <1>1 DEF ToSet
  <2> DEFINE m == (k - 1) \div PerFrame
             d == Frames(entries)
             n == Len(entries)
  <2>2. m \in Nat /\ m * PerFrame <= k - 1 /\ k - 1 < (m + 1) * PerFrame
      BY <1>1, Quotient
  <2>3. /\ d \in Nat /\ n + PerFrame - 1 < (d + 1) * PerFrame
    <3>1. n + PerFrame - 1 \in Nat
        BY <1>1
    <3> QED BY <1>1, <3>1, Quotient DEF Frames
  <2> HIDE DEF m, d
  <2>4. m + 1 \in 1 .. d
    <3>1. (d + 1) * PerFrame = d * PerFrame + PerFrame /\ d * PerFrame \in Nat
        BY <1>1, <2>3
    <3>2. n <= d * PerFrame
        BY <1>1, <2>3, <3>1
    <3>3. ASSUME m >= d PROVE FALSE
      <4>1. d * PerFrame <= m * PerFrame
          BY <1>1, <2>2, <2>3, <3>3, Times
      <4>2. m * PerFrame \in Nat
          BY <1>1, <2>2
      <4> QED BY <1>1, <2>2, <3>1, <3>2, <4>1, <4>2
    <3> QED BY <2>2, <2>3, <3>3
  <2>5. From(m + 1) = m * PerFrame /\ m * PerFrame \in Nat /\ (m + 1) * PerFrame \in Nat
      BY <1>1, <2>2 DEF From
  <2>6. From(m + 1) < k /\ k <= Upto(entries, m + 1)
      BY <1>1, <2>2, <2>5 DEF Upto
  <2> DEFINE j == k - From(m + 1)
  <2>7. j \in DOMAIN Slice(entries, m + 1) /\ Slice(entries, m + 1)[j] = s
    <3>1. /\ DOMAIN Slice(entries, m + 1) = 1 .. Upto(entries, m + 1) - From(m + 1)
          /\ Upto(entries, m + 1) \in Nat
          /\ \A x \in DOMAIN Slice(entries, m + 1) :
                Slice(entries, m + 1)[x] = entries[From(m + 1) + x]
        BY <2>4, SliceBounds DEF d
    <3>2. j \in 1 .. Upto(entries, m + 1) - From(m + 1) /\ From(m + 1) + j = k
        BY <2>5, <2>6, <3>1
    <3> QED BY <2>1, <3>1, <3>2
  <2> QED BY <2>4, <2>7 DEF ToSet, d
<1> QED BY <1>2, <1>3

\* An earlier frame of a batch holds earlier entries.
LEMMA SlicesInOrder ==
    ASSUME NEW entries \in Seq(Sample), Sorted(entries),
           NEW i \in 1 .. Frames(entries), NEW j \in 1 .. Frames(entries), i < j
    PROVE  AllBefore(ToSet(Slice(entries, i)), ToSet(Slice(entries, j)))
<1> SUFFICES ASSUME NEW x \in DOMAIN Slice(entries, i), NEW y \in DOMAIN Slice(entries, j)
             PROVE  Before(Slice(entries, i)[x], Slice(entries, j)[y])
    BY DEF AllBefore, ToSet
<1>1. /\ PerFrame \in Nat /\ i \in Nat /\ j \in Nat /\ j - 1 \in Nat /\ i <= j - 1
      /\ Len(entries) \in Nat /\ DOMAIN entries = 1 .. Len(entries)
  <2>1. Frames(entries) \in Int
      BY BoundsAssumption, Quotient DEF Frames
  <2> QED BY <2>1, BoundsAssumption
<1>2. i * PerFrame <= From(j) /\ i * PerFrame \in Nat
    BY <1>1, Times DEF From
<1> DEFINE k == From(i) + x
           l == From(j) + y
<1>3. /\ k \in From(i) + 1 .. Upto(entries, i) /\ Slice(entries, i)[x] = entries[k]
      /\ l \in From(j) + 1 .. Upto(entries, j) /\ Slice(entries, j)[y] = entries[l]
    BY SliceBounds
<1>4. /\ From(i) \in Nat /\ Upto(entries, i) \in Nat /\ Upto(entries, i) <= i * PerFrame
      /\ From(j) \in Nat /\ Upto(entries, j) \in Nat
      /\ Upto(entries, i) <= Len(entries) /\ Upto(entries, j) <= Len(entries)
    BY SliceBounds
<1> HIDE DEF k, l
<1>5. k \in DOMAIN entries /\ l \in DOMAIN entries /\ k < l
    BY SMTT(30), <1>1, <1>2, <1>3, <1>4
<1> QED BY <1>3, <1>5 DEF Sorted

-----------------------------------------------------------------------------
(* What a node puts on the wire.                                           *)

LEMMA NumberedType == ASSUME TypeOK, NEW n \in Int PROVE Numbered(n) \in SeqNo
BY BoundsAssumption DEF TypeOK, Numbered, SeqNo

LEMMA TelemetryType ==
    ASSUME TypeOK, NEW entries \in Seq(Sample), NEW n \in Int,
           NEW isReplay \in BOOLEAN, NEW isGap \in BOOLEAN
    PROVE  /\ Telemetry(entries, n, isReplay, isGap) \in Frame
           /\ Telemetry(entries, n, isReplay, isGap).type = "TELEMETRY"
           /\ Telemetry(entries, n, isReplay, isGap).samples = entries
           /\ Telemetry(entries, n, isReplay, isGap).seq = Numbered(n)
<1>1. Numbered(n) \in SeqNo /\ boot \in Nat
    BY NumberedType DEF TypeOK
<1> QED BY <1>1 DEF Telemetry, Frame

LEMMA BatchIsWhole ==
    ASSUME TypeOK, NEW entries \in Seq(Sample), NEW before \in Nat,
           NEW isReplay \in BOOLEAN, NEW isGap \in BOOLEAN
    PROVE  LET b == Batches(entries, before, isReplay, isGap)
           IN /\ b \in Seq(Frame) /\ Frames(entries) \in Nat
              /\ DOMAIN b = 1 .. Frames(entries)
              /\ \A i \in DOMAIN b : b[i].seq = Numbered(before + i) /\ b[i].type = "TELEMETRY"
              /\ Held(b) = ToSet(entries)
              /\ Sorted(entries) => Chained(b)
<1> DEFINE b == Batches(entries, before, isReplay, isGap)
<1>1. Frames(entries) \in Nat
  <2>1. Len(entries) + PerFrame - 1 \in Nat /\ PerFrame \in Nat \ {0}
      BY BoundsAssumption
  <2> QED BY <2>1, Quotient DEF Frames
<1>2. DOMAIN b = 1 .. Frames(entries)
    BY DEF Batches
<1>3. ASSUME NEW i \in 1 .. Frames(entries)
      PROVE  /\ b[i] \in Frame /\ b[i].samples = Slice(entries, i)
             /\ b[i].seq = Numbered(before + i) /\ b[i].type = "TELEMETRY"
  <2>1. Slice(entries, i) \in Seq(Sample) /\ before + i \in Int
      BY <1>1, SliceBounds
  <2>2. b[i] = Telemetry(Slice(entries, i), before + i, isReplay, isGap)
      BY DEF Batches
  <2> QED BY <2>1, <2>2, TelemetryType
<1> HIDE DEF b
<1>4. b \in Seq(Frame)
  <2>1. b = [i \in 1 .. Frames(entries) |-> b[i]]
      BY <1>2 DEF b, Batches
  <2> QED BY <1>1, <1>3, <2>1
<1>5. Held(b) = ToSet(entries)
    BY <1>2, <1>3, SlicesCover DEF Held
<1>6. ASSUME Sorted(entries) PROVE Chained(b)
    BY <1>2, <1>3, <1>6, SlicesInOrder DEF Chained, AllBefore
<1> QED BY <1>1, <1>2, <1>3, <1>4, <1>5, <1>6 DEF b

\* The samples of one tick.
Now == {[t |-> ticks + 1, ch |-> c] : c \in Channel}

LEMMA DueIsNow ==
    ASSUME TypeOK, ticks < MaxTicks
    PROVE  /\ Due \in Seq(Sample) /\ Len(Due) = NumChannels /\ ToSet(Due) = Now /\ Sorted(Due)
<1>1. NumChannels \in Nat /\ ticks + 1 \in 1 .. MaxTicks
    BY BoundsAssumption DEF TypeOK
<1>2. DOMAIN Due = 1 .. NumChannels
      /\ \A c \in 1 .. NumChannels : Due[c] = [t |-> ticks + 1, ch |-> c] /\ Due[c] \in Sample
    BY <1>1 DEF Due, Channel, Sample
<1>3. Due \in Seq(Sample) /\ Len(Due) = NumChannels
    BY <1>1, <1>2 DEF Due, Channel
<1>4. ToSet(Due) = Now
    BY <1>2 DEF ToSet, Now, Channel
<1>5. Sorted(Due)
    BY <1>1, <1>2 DEF Sorted, Before
<1> QED BY <1>3, <1>4, <1>5

Out == Emitted(Batches(backlog, 0, TRUE, FALSE),
               Batches(Due, Frames(backlog), FALSE, lost_pending))

\* The frames of one call of _emit_samples: backlog and live samples, in order,
\* numbered without a break.
LEMMA Emission ==
    ASSUME TypeOK, ticks < MaxTicks, Sorted(backlog), AllBefore(ToSet(backlog), Now)
    PROVE  /\ Out \in Seq(Frame)
           /\ Held(Out) = ToSet(backlog) \cup Now
           /\ Chained(Out)
           /\ \A i \in DOMAIN Out : Out[i].seq = Numbered(i) /\ Out[i].type = "TELEMETRY"
<1> DEFINE b == Batches(backlog, 0, TRUE, FALSE)
           l == Batches(Due, Frames(backlog), FALSE, lost_pending)
           n == Frames(backlog)
<1>0. backlog \in Seq(Sample) /\ lost_pending \in BOOLEAN
    BY DEF TypeOK
<1>1. /\ b \in Seq(Frame) /\ n \in Nat /\ DOMAIN b = 1 .. n
      /\ \A i \in DOMAIN b : b[i].seq = Numbered(0 + i) /\ b[i].type = "TELEMETRY"
      /\ Held(b) = ToSet(backlog) /\ Chained(b)
  <2>1. \A k \in Nat :
            LET c == Batches(backlog, k, TRUE, FALSE)
            IN /\ c \in Seq(Frame) /\ n \in Nat /\ DOMAIN c = 1 .. n
               /\ \A i \in DOMAIN c : c[i].seq = Numbered(k + i) /\ c[i].type = "TELEMETRY"
               /\ Held(c) = ToSet(backlog) /\ Chained(c)
      BY <1>0, BatchIsWhole
  <2> QED BY <2>1
<1>2. /\ l \in Seq(Frame) /\ DOMAIN l = 1 .. Len(l)
      /\ \A i \in DOMAIN l : l[i].seq = Numbered(n + i) /\ l[i].type = "TELEMETRY"
      /\ Held(l) = Now /\ Chained(l)
  <2>1. Due \in Seq(Sample) /\ ToSet(Due) = Now /\ Sorted(Due)
      BY DueIsNow
  <2>2. n \in Nat
      BY <1>1
  <2> HIDE DEF n
  <2>3. /\ l \in Seq(Frame) /\ \A i \in DOMAIN l : l[i].seq = Numbered(n + i) /\ l[i].type = "TELEMETRY"
        /\ Held(l) = Now /\ Chained(l)
      BY <1>0, <2>1, <2>2, BatchIsWhole DEF n
  <2> HIDE DEF l
  <2> QED BY <2>3
<1>3. Out = b \o l
    BY DEF Out, Emitted
<1> HIDE DEF b, l, n
<1>4. b \in Seq(Frame) /\ l \in Seq(Frame) /\ Len(b) = n /\ n \in Nat /\ Len(l) \in Nat
    BY <1>1, <1>2
<1>5. /\ DOMAIN Out = 1 .. n + Len(l)
      /\ \A i \in DOMAIN Out : Out[i] = IF i <= n THEN b[i] ELSE l[i - n]
    BY <1>3, <1>4
<1>6. ASSUME NEW i \in DOMAIN Out PROVE Out[i].seq = Numbered(i) /\ Out[i].type = "TELEMETRY"
  <2>1. CASE i <= n
      BY <1>1, <1>5, <2>1
  <2>2. CASE i > n
    <3>1. i - n \in DOMAIN l /\ n + (i - n) = i /\ Out[i] = l[i - n]
        BY <1>1, <1>2, <1>4, <1>5, <2>2
    <3>2. l[i - n].seq = Numbered(n + (i - n)) /\ l[i - n].type = "TELEMETRY"
        BY <1>2, <3>1
    <3> QED BY <3>1, <3>2
  <2> QED BY <1>1, <1>5, <2>1, <2>2
<1> QED BY <1>1, <1>2, <1>3, <1>6, HeldConcat, ChainedConcat

-----------------------------------------------------------------------------
(* The backlog, the discarded samples, and types.                          *)

LEMMA Longer ==
    ASSUME NEW p \in Seq(Sample), NEW q \in Seq(Sample)
    PROVE  /\ ToSet(p \o q) = ToSet(p) \cup ToSet(q)
           /\ Sorted(p) /\ Sorted(q) /\ AllBefore(ToSet(p), ToSet(q)) => Sorted(p \o q)
<1> DEFINE c == p \o q
<1>1. /\ DOMAIN c = 1 .. Len(p) + Len(q) /\ Len(p) \in Nat /\ Len(q) \in Nat
      /\ DOMAIN p = 1 .. Len(p) /\ DOMAIN q = 1 .. Len(q)
      /\ \A i \in DOMAIN c : c[i] = IF i <= Len(p) THEN p[i] ELSE q[i - Len(p)]
    OBVIOUS
<1> HIDE DEF c
<1>2. \A i \in DOMAIN c : \/ i \in DOMAIN p /\ i <= Len(p) /\ c[i] = p[i]
                          \/ i - Len(p) \in DOMAIN q /\ i > Len(p) /\ c[i] = q[i - Len(p)]
    BY <1>1
<1>3. ToSet(c) = ToSet(p) \cup ToSet(q)
  <2>1. \A i \in DOMAIN p : i \in DOMAIN c /\ c[i] = p[i]
      BY <1>1
  <2>2. \A i \in DOMAIN q : i + Len(p) \in DOMAIN c /\ c[i + Len(p)] = q[i]
      BY <1>1
  <2> QED BY <1>2, <2>1, <2>2 DEF ToSet
<1>4. ASSUME Sorted(p), Sorted(q), AllBefore(ToSet(p), ToSet(q)) PROVE Sorted(c)
  <2> SUFFICES ASSUME NEW i \in DOMAIN c, NEW j \in DOMAIN c, i < j
               PROVE  Before(c[i], c[j])
      BY DEF Sorted
  <2>1. CASE i \in DOMAIN p /\ j \in DOMAIN p /\ c[i] = p[i] /\ c[j] = p[j]
      BY <1>4, <2>1 DEF Sorted
  <2>2. CASE i \in DOMAIN p /\ c[i] = p[i] /\ j - Len(p) \in DOMAIN q /\ c[j] = q[j - Len(p)]
      BY <1>4, <2>2 DEF AllBefore, ToSet
  <2>3. CASE /\ i - Len(p) \in DOMAIN q /\ c[i] = q[i - Len(p)]
             /\ j - Len(p) \in DOMAIN q /\ c[j] = q[j - Len(p)]
    <3>1. i - Len(p) < j - Len(p)
        BY <1>1
    <3> QED BY <1>4, <2>3, <3>1 DEF Sorted
  <2> QED BY <1>1, <1>2, <2>1, <2>2, <2>3
<1> QED BY <1>3, <1>4 DEF c

LEMMA NewestKept ==
    ASSUME NEW e \in Seq(Sample)
    PROVE  /\ Newest(e) \in Seq(Sample) /\ Len(Newest(e)) <= MaxBacklog
           /\ ToSet(Newest(e)) \subseteq ToSet(e)
           /\ Sorted(e) => Sorted(Newest(e))
<1> DEFINE m == IF Len(e) > MaxBacklog THEN Len(e) - MaxBacklog + 1 ELSE 1
           t == SubSeq(e, m, Len(e))
<1>1. /\ m \in Nat /\ 1 <= m /\ m <= Len(e) + 1 /\ Len(e) - m + 1 <= MaxBacklog
      /\ Len(e) \in Nat /\ DOMAIN e = 1 .. Len(e)
    BY BoundsAssumption
<1> HIDE DEF m
<1>2. /\ t \in Seq(Sample) /\ Len(t) = Len(e) - m + 1 /\ DOMAIN t = 1 .. Len(e) - m + 1
      /\ \A i \in DOMAIN t : t[i] = e[i + m - 1]
    BY <1>1
<1> HIDE DEF t
<1>3. \A i \in DOMAIN t : i \in Nat /\ i + m - 1 \in DOMAIN e
    BY <1>1, <1>2
<1>4. ToSet(t) \subseteq ToSet(e)
    BY <1>2, <1>3 DEF ToSet
<1>5. ASSUME Sorted(e) PROVE Sorted(t)
  <2> SUFFICES ASSUME NEW i \in DOMAIN t, NEW j \in DOMAIN t, i < j
               PROVE  Before(t[i], t[j])
      BY DEF Sorted
  <2>1. i + m - 1 < j + m - 1
      BY <1>1, <1>3
  <2> QED BY <1>2, <1>3, <1>5, <2>1 DEF Sorted
<1> QED BY <1>1, <1>2, <1>4, <1>5 DEF t, m, Newest

LEMMA Discarded ==
    ASSUME NEW S, NEW why
    PROVE  {g.sample : g \in gone \cup Why(S, why)} = Gone \cup S
<1>1. \A s \in S : [sample |-> s, why |-> why] \in Why(S, why)
    BY DEF Why
<1>2. \A g \in Why(S, why) : g.sample \in S
    BY DEF Why
<1>3. \A s \in S : \E g \in gone \cup Why(S, why) : g.sample = s
  <2> SUFFICES ASSUME NEW s \in S
               PROVE  \E g \in gone \cup Why(S, why) : g.sample = s
      OBVIOUS
  <2>1. [sample |-> s, why |-> why].sample = s
      OBVIOUS
  <2> QED BY <1>1, <2>1
<1> QED BY <1>2, <1>3 DEF Gone

LEMMA HeldType == ASSUME NEW q \in Seq(Frame) PROVE Held(q) \subseteq Sample
<1>1. \A i \in DOMAIN q : q[i].samples \in Seq(Sample)
  <2>1. \A i \in DOMAIN q : q[i] \in Frame
      OBVIOUS
  <2> QED BY <2>1 DEF Frame
<1>2. \A e \in Seq(Sample) : ToSet(e) \subseteq Sample
    BY DEF ToSet
<1> QED BY <1>1, <1>2 DEF Held

GoneType == SUBSET [sample : Sample, why : Lost]

LEMMA WhyType ==
    ASSUME NEW S \in SUBSET Sample, NEW why \in Lost
    PROVE  Why(S, why) \in GoneType
BY DEF Why, GoneType

LEMMA GoneGrows ==
    ASSUME TypeOK, NEW W \in GoneType
    PROVE  gone \cup W \in GoneType
BY DEF TypeOK, GoneType

\* TypeOK in three parts.
CountersOK ==
    /\ kind \in {"board", "sim"}
    /\ ticks \in 0 .. MaxTicks /\ others \in 0 .. MaxOthers /\ faults \in 0 .. MaxFaults
    /\ boot \in Nat /\ seq \in SeqNo
    /\ dropped \in BOOLEAN /\ lost_pending \in BOOLEAN

QueuesOK ==
    /\ backlog \in Seq(Sample) /\ Len(backlog) <= MaxBacklog
    /\ up \in Seq(Frame)
    /\ down \in Seq(SeqNo)
    /\ handed \in Seq(Frame)
    /\ table \in Seq(SUBSET Sample)

StationOK ==
    /\ ndb \in SUBSET Channel
    /\ wm \in SeqNo \cup {None} /\ acking \in SeqNo \cup {None}
    /\ gone \in GoneType

LEMMA Parts ==
    /\ TypeOK <=> CountersOK /\ QueuesOK /\ StationOK
    /\ TypeOK' <=> CountersOK' /\ QueuesOK' /\ StationOK'
BY DEF TypeOK, CountersOK, QueuesOK, StationOK, GoneType

LEMMA InitTypeOK == Init => TypeOK
<1> SUFFICES ASSUME Init PROVE TypeOK
    OBVIOUS
<1>1. CountersOK
  <2>1. 0 \in SeqNo
      BY BoundsAssumption DEF SeqNo
  <2>2. ticks \in 0 .. MaxTicks /\ others \in 0 .. MaxOthers /\ faults \in 0 .. MaxFaults
      BY BoundsAssumption DEF Init
  <2> QED BY <2>1, <2>2 DEF Init, CountersOK
<1>2. QueuesOK
    BY BoundsAssumption DEF Init, QueuesOK
<1>3. StationOK
    BY DEF Init, StationOK, GoneType
<1> QED BY <1>1, <1>2, <1>3, Parts

LEMMA RaiseType ==
    ASSUME NEW a \in SeqNo \cup {None}, NEW b \in SeqNo
    PROVE  Raise(a, b) \in SeqNo
BY BoundsAssumption DEF Raise, SeqNo, None

LEMMA OtherType ==
    ASSUME TypeOK
    PROVE  /\ Other \in Frame /\ Other.samples = <<>> /\ Other.seq = Numbered(1)
           /\ (seq + 1) % SeqSpace \in SeqNo
<1>1. Numbered(1) \in SeqNo /\ boot \in Nat
    BY NumberedType DEF TypeOK
<1>2. (seq + 1) % SeqSpace \in SeqNo
    BY BoundsAssumption DEF TypeOK, SeqNo
<1> QED BY <1>1, <1>2 DEF Other, Frame

LEMMA HelloType ==
    ASSUME TypeOK, NEW chans \in SUBSET Channel
    PROVE  /\ Hello(chans) \in Frame /\ Hello(chans).samples = <<>>
           /\ Hello(chans).seq = Numbered(1)
<1>1. Numbered(1) \in SeqNo /\ boot \in Nat
    BY NumberedType DEF TypeOK
<1> QED BY <1>1 DEF Hello, Frame

LEMMA EndTypes ==
    ASSUME NEW S, NEW s \in Seq(S)
    PROVE  /\ s # <<>> => Tail(s) \in Seq(S)
           /\ \A x \in S : Append(s, x) \in Seq(S)
OBVIOUS

LEMMA NextTypeOK == TypeOK /\ [Next]_vars => TypeOK'
<1> SUFFICES ASSUME TypeOK, [Next]_vars PROVE TypeOK'
    OBVIOUS
<1>0. CountersOK /\ QueuesOK /\ StationOK
    BY Parts
<1>1. /\ SeqSpace \in Nat \ {0} /\ MaxTicks \in Nat /\ MaxOthers \in Nat /\ MaxFaults \in Nat
      /\ MaxBacklog \in Nat
    BY BoundsAssumption
<1>2. InUp \subseteq Sample
    BY HeldType DEF TypeOK, InUp, Held
<1>3. CASE SimBuffer
  <2> DEFINE all == backlog \o Due
  <2>1. Due \in Seq(Sample) /\ backlog \in Seq(Sample)
      BY <1>3, DueIsNow DEF SimBuffer, TypeOK
  <2>2. all \in Seq(Sample) /\ ToSet(all) \subseteq Sample
      BY <2>1 DEF ToSet
  <2> HIDE DEF all
  <2>3. Newest(all) \in Seq(Sample) /\ Len(Newest(all)) <= MaxBacklog
      BY <2>2, NewestKept
  <2>4. Why(ToSet(all) \ ToSet(Newest(all)), "overflow") \in GoneType
      BY <2>2, WhyType DEF Lost
  <2>5. /\ ticks' = ticks + 1 /\ ticks < MaxTicks
        /\ backlog' = Newest(all) /\ gone' = gone \cup Why(ToSet(all) \ ToSet(Newest(all)), "overflow")
        /\ UNCHANGED <<kind, faults, others, boot, seq, dropped, lost_pending, up, stationVars, down, handed>>
      BY <1>3 DEF SimBuffer, all
  <2>6. CountersOK'
      BY <1>1, <2>5, <1>0 DEF CountersOK
  <2>7. QueuesOK'
      BY <2>3, <2>5, <1>0 DEF QueuesOK, stationVars
  <2>8. StationOK'
      BY <2>4, <2>5, <1>0, GoneGrows DEF StationOK, stationVars
  <2> QED BY <2>6, <2>7, <2>8, Parts
<1>4. CASE SimEmit
  <2>1. /\ up' = up \o Out /\ handed' = handed \o Out /\ seq' = (seq + Len(Out)) % SeqSpace
        /\ ticks' = ticks + 1 /\ ticks < MaxTicks /\ backlog' = <<>> /\ lost_pending' = FALSE
        /\ UNCHANGED <<kind, faults, others, boot, dropped, stationVars, down, gone>>
      BY <1>4 DEF SimEmit, Out
  <2>2. Out \in Seq(Frame)
    <3>1. Due \in Seq(Sample) /\ backlog \in Seq(Sample) /\ lost_pending \in BOOLEAN
        BY <2>1, DueIsNow DEF TypeOK
    <3>2. Batches(backlog, 0, TRUE, FALSE) \in Seq(Frame) /\ Frames(backlog) \in Nat
        BY <3>1, BatchIsWhole
    <3>3. Batches(Due, Frames(backlog), FALSE, lost_pending) \in Seq(Frame)
        BY <3>1, <3>2, BatchIsWhole
    <3> DEFINE b == Batches(backlog, 0, TRUE, FALSE)
               l == Batches(Due, Frames(backlog), FALSE, lost_pending)
    <3>4. Out = b \o l
        BY DEF Out, Emitted
    <3> HIDE DEF Out, b, l
    <3>5. b \in Seq(Frame) /\ l \in Seq(Frame)
        BY <3>2, <3>3 DEF b, l
    <3> QED BY <3>4, <3>5
  <2> HIDE DEF Out
  <2>3. seq' \in SeqNo
    <3>1. seq + Len(Out) \in Nat
        BY <2>2 DEF TypeOK, SeqNo
    <3> QED BY <1>1, <2>1, <3>1 DEF SeqNo
  <2>4. CountersOK'
    <3>1. ticks' \in 0 .. MaxTicks
        BY <1>0, <1>1, <2>1 DEF CountersOK
    <3> QED BY <1>0, <2>1, <2>3, <3>1 DEF CountersOK
  <2>5. QueuesOK'
      BY <1>1, <2>1, <2>2, <1>0 DEF QueuesOK, stationVars
  <2>6. StationOK'
      BY <2>1, <1>0 DEF StationOK, stationVars
  <2> QED BY <2>4, <2>5, <2>6, Parts
<1>5. CASE BoardEmit
  <2> DEFINE f == Telemetry(Due, 1, FALSE, FALSE)
  <2>1. /\ ticks' = ticks + 1 /\ ticks < MaxTicks /\ seq' = (seq + 1) % SeqSpace
        /\ handed' = Append(handed, f) /\ (up' = up \/ up' = Append(up, f))
        /\ gone' = gone \/ gone' = gone \cup Why(ToSet(Due), "refused")
        /\ UNCHANGED <<kind, faults, others, boot, dropped, lost_pending, backlog, stationVars, down>>
      BY <1>5 DEF BoardEmit
  <2>2. f \in Frame /\ ToSet(Due) \in SUBSET Sample
    <3>1. Due \in Seq(Sample)
        BY <2>1, DueIsNow
    <3>2. \A n \in Int : Telemetry(Due, n, FALSE, FALSE) \in Frame
        BY <3>1, TelemetryType
    <3>3. ToSet(Due) \subseteq Sample
      <4> HIDE DEF f
      <4> QED BY <3>1 DEF ToSet
    <3>4. 1 \in Int
        OBVIOUS
    <3>5. f \in Frame
        BY <3>2, <3>4, Zenon
    <3> HIDE DEF f
    <3> QED BY <3>3, <3>5
  <2>3. Why(ToSet(Due), "refused") \in GoneType
      BY <2>2, WhyType DEF Lost
  <2>4. seq' \in SeqNo
      BY <2>1, OtherType
  <2> HIDE DEF f
  <2>5. CountersOK'
      BY <1>1, <2>1, <2>4, <1>0 DEF CountersOK
  <2>6. QueuesOK'
    <3>1. up' \in Seq(Frame) /\ handed' \in Seq(Frame)
        BY <1>0, <2>1, <2>2, EndTypes DEF QueuesOK
    <3> QED BY <1>0, <2>1, <3>1 DEF QueuesOK, stationVars
  <2>7. StationOK'
      BY <2>1, <2>3, <1>0, GoneGrows DEF StationOK, stationVars
  <2> QED BY <2>5, <2>6, <2>7, Parts
<1>6. CASE LinkDrop \/ LinkRestore \/ OnTelemAck
  <2>1. /\ UNCHANGED <<kind, ticks, others, boot, seq, backlog, up, stationVars, handed, gone>>
        /\ dropped' \in {dropped, TRUE, FALSE} /\ lost_pending' \in {lost_pending, TRUE}
        /\ faults' = faults \/ (faults < MaxFaults /\ faults' = faults + 1)
        /\ down' = down \/ (down # <<>> /\ down' = Tail(down))
      BY <1>6 DEF LinkDrop, LinkRestore, OnTelemAck, nodeVars
  <2>2. CountersOK'
    <3>1. faults' \in 0 .. MaxFaults
        BY <1>0, <1>1, <2>1 DEF CountersOK
    <3> QED BY <1>0, <2>1, <3>1 DEF CountersOK
  <2>3. QueuesOK'
    <3>1. down' \in Seq(SeqNo)
        BY <1>0, <2>1, EndTypes DEF QueuesOK
    <3> QED BY <1>0, <2>1, <3>1 DEF QueuesOK, stationVars
  <2>4. StationOK'
      BY <1>0, <2>1 DEF StationOK, stationVars
  <2> QED BY <2>2, <2>3, <2>4, Parts
<1>7. CASE StoreErase
  <2>1. Why(ToSet(backlog), "erased") \in GoneType
      BY WhyType DEF Lost, TypeOK, ToSet
  <2> QED BY <1>1, <1>7, <2>1, OtherType DEF StoreErase, TypeOK, stationVars, GoneType
<1>8. CASE BoardReset
  <2>1. PICK sentOut \in 0 .. Len(up) :
            /\ up' = SubSeq(up, 1, sentOut)
            /\ gone' = gone \cup
                  Why(UNION {ToSet(up[i].samples) : i \in sentOut + 1 .. Len(up)}, "refused")
      BY <1>8 DEF BoardReset
  <2>2. /\ up' \in Seq(Frame)
        /\ UNION {ToSet(up[i].samples) : i \in sentOut + 1 .. Len(up)} \subseteq Held(up)
      BY <2>1, Prefix DEF TypeOK
  <2>3. Why(UNION {ToSet(up[i].samples) : i \in sentOut + 1 .. Len(up)}, "refused") \in GoneType
      BY <2>2, HeldType, WhyType DEF TypeOK, Lost
  <2> HIDE DEF Why
  <2>4. gone' \in GoneType
      BY <2>1, <2>3 DEF TypeOK, GoneType
  <2>5. CountersOK'
    <3>1. 0 \in SeqNo
        BY <1>1 DEF SeqNo
    <3> QED BY <1>1, <1>8, <3>1, <1>0 DEF CountersOK, BoardReset
  <2>6. QueuesOK' /\ StationOK'
      BY <1>8, <2>2, <2>4, <1>0 DEF QueuesOK, StationOK, BoardReset, stationVars
  <2> QED BY <2>5, <2>6, Parts
<1>9. CASE Corrupt
  <2>1. ToSet(Head(up).samples) \subseteq Sample /\ Tail(up) \in Seq(Frame)
    <3>1. up \in Seq(Frame) /\ up # <<>>
        BY <1>9 DEF Corrupt, TypeOK
    <3> QED BY <3>1, HeadAndTail, HeldType
  <2>2. Why(ToSet(Head(up).samples), "corrupted") \in GoneType
      BY <2>1, WhyType DEF Lost
  <2> QED BY <1>1, <1>9, <2>1, <2>2 DEF Corrupt, TypeOK, nodeVars, stationVars, GoneType
<1>10. CASE SendOther
    BY <1>1, <1>10, OtherType DEF SendOther, TypeOK, stationVars
<1>11. ASSUME NEW chans \in SUBSET Channel, Announce(chans) PROVE TypeOK'
    BY <1>1, <1>11, OtherType, HelloType DEF Announce, TypeOK, stationVars
<1>12. CASE OnTelemetry
  <2>1. /\ up \in Seq(Frame) /\ up # <<>> /\ wm \in SeqNo \cup {None} /\ table \in Seq(SUBSET Sample)
        /\ table' = Append(table, {s \in ToSet(Head(up).samples) : Convertible(s)})
        /\ gone' = gone \cup Why({s \in ToSet(Head(up).samples) : ~Convertible(s)}, "unknown")
        /\ wm' = Raise(wm, Head(up).seq) /\ acking' = wm' /\ up' = Tail(up)
        /\ UNCHANGED <<kind, faults, nodeVars, ndb, down, handed>>
      BY <1>12 DEF OnTelemetry, TypeOK
  <2>2. ToSet(Head(up).samples) \subseteq Sample /\ Tail(up) \in Seq(Frame) /\ Head(up).seq \in SeqNo
    <3>1. Head(up) \in Frame /\ Tail(up) \in Seq(Frame) /\ ToSet(Head(up).samples) \subseteq Sample
        BY <2>1, HeadAndTail, HeldType
    <3> QED BY <3>1 DEF Frame
  <2>3. Why({s \in ToSet(Head(up).samples) : ~Convertible(s)}, "unknown") \in GoneType
      BY <2>2, WhyType DEF Lost
  <2>4. wm' \in SeqNo
      BY <2>1, <2>2, RaiseType
  <2>5. table' \in Seq(SUBSET Sample)
    <3>1. {s \in ToSet(Head(up).samples) : Convertible(s)} \in SUBSET Sample
        BY <2>2
    <3> HIDE DEF Convertible
    <3> QED BY <2>1, <3>1
  <2>6. gone' \in GoneType
      BY <2>1, <2>3 DEF TypeOK, GoneType
  <2> QED BY <2>1, <2>2, <2>4, <2>5, <2>6 DEF TypeOK, nodeVars, GoneType
<1>13. CASE SendTelemAck
    BY <1>13 DEF SendTelemAck, TypeOK, nodeVars
<1>14. CASE OnHello \/ OnOther
  <2>1. Tail(up) \in Seq(Frame) /\ Head(up).ndb \in SUBSET Channel
    <3>1. up \in Seq(Frame) /\ up # <<>>
        BY <1>14 DEF OnHello, OnOther, TypeOK
    <3>2. Head(up) \in Frame /\ Tail(up) \in Seq(Frame)
        BY <3>1, HeadAndTail
    <3> QED BY <3>2 DEF Frame
  <2> QED BY <1>14, <2>1 DEF OnHello, OnOther, TypeOK, nodeVars, stationVars
<1>15. CASE GatewayRestart
  <2>1. Why(InUp, "corrupted") \in GoneType
      BY <1>2, WhyType DEF Lost
  <2> QED BY <1>1, <1>15, <2>1 DEF GatewayRestart, TypeOK, nodeVars, GoneType
<1>16. CASE UNCHANGED vars
    BY <1>16 DEF TypeOK, vars, nodeVars, stationVars
<1> QED BY <1>3, <1>4, <1>5, <1>6, <1>7, <1>8, <1>9, <1>10, <1>11, <1>12, <1>13, <1>14, <1>15, <1>16
    DEF Next, sampling, pump, Fault

\* Every variable keeps its type.
THEOREM TypeCorrect == Spec => []TypeOK
BY InitTypeOK, NextTypeOK, PTL DEF Spec

-----------------------------------------------------------------------------
(* Where every sample is.                                                  *)

\* Only telemetry carries samples.
WellFormed == {f \in Frame : f.type # "TELEMETRY" => f.samples = <<>>}

\* The samples are spread over the table, the wire and the backlog in the order in
\* which they were taken; only a simulated node has a backlog.
PlaceInv ==
    /\ NothingVanishes /\ CommittedInOrder
    /\ Chained(up) /\ up \in Seq(WellFormed)
    /\ Sorted(backlog)
    /\ AllBefore(Rows, InUp)
    /\ AllBefore(Rows \cup InUp, ToSet(backlog))
    /\ kind = "board" => backlog = <<>>

Taken(n) == [t : 1 .. n, ch : Channel]

Partition(B, U, R, G, T) ==
    /\ B \cup U \cup R \cup G = T
    /\ B \cap (U \cup R \cup G) = {} /\ U \cap (R \cup G) = {} /\ R \cap G = {}

LEMMA Spread ==
    /\ NothingVanishes <=> Partition(ToSet(backlog), InUp, Rows, Gone, Taken(ticks))
    /\ NothingVanishes' <=> Partition(ToSet(backlog)', InUp', Rows', Gone', Taken(ticks'))
    /\ InUp = Held(up) /\ InUp' = Held(up')
BY DEF NothingVanishes, Partition, Taken, InUp, Held

LEMMA Tick ==
    ASSUME ticks \in Nat
    PROVE  /\ Taken(ticks + 1) = Taken(ticks) \cup Now /\ Now \cap Taken(ticks) = {}
           /\ AllBefore(Taken(ticks), Now)
<1>1. \A s \in Now : s.t = ticks + 1 /\ s.ch \in Channel /\ s = [t |-> s.t, ch |-> s.ch]
    BY DEF Now
<1>2. \A s \in Taken(ticks) : s.t \in 1 .. ticks /\ s.ch \in Channel
    BY DEF Taken
<1>3. AllBefore(Taken(ticks), Now)
    BY <1>1, <1>2 DEF AllBefore, Before
<1>4. Now \cap Taken(ticks) = {}
    BY <1>1, <1>2
<1>5. Now \subseteq Taken(ticks + 1)
    BY DEF Now, Taken
<1>6. Taken(ticks) \subseteq Taken(ticks + 1)
    BY DEF Taken
<1>7. ASSUME NEW s \in Taken(ticks + 1) PROVE s \in Taken(ticks) \cup Now
  <2>1. s.t \in 1 .. ticks + 1 /\ s.ch \in Channel /\ s = [t |-> s.t, ch |-> s.ch]
      BY DEF Taken
  <2>2. CASE s.t = ticks + 1
      BY <2>1, <2>2 DEF Now
  <2>3. CASE s.t \in 1 .. ticks
      BY <2>1, <2>3 DEF Taken
  <2> QED BY <2>1, <2>2, <2>3
<1> QED BY <1>3, <1>4, <1>5, <1>6, <1>7

\* No sample was taken before itself.
LEMMA Apart ==
    ASSUME NEW S \in SUBSET Sample, NEW R, AllBefore(S, R)
    PROVE  S \cap R = {}
<1>1. \A s \in Sample : s.t \in Int /\ s.ch \in Int
    BY DEF Sample, Channel
<1>2. \A s \in Sample : ~Before(s, s)
    BY <1>1 DEF Before
<1> QED BY <1>2 DEF AllBefore

LEMMA AppendFrame ==
    ASSUME NEW q \in Seq(Frame), NEW f \in Frame
    PROVE  /\ Held(Append(q, f)) = Held(q) \cup ToSet(f.samples)
           /\ Chained(q) /\ AllBefore(Held(q), ToSet(f.samples)) => Chained(Append(q, f))
<1>1. <<f>> \in Seq(Frame) /\ DOMAIN <<f>> = {1} /\ <<f>>[1] = f /\ Append(q, f) = q \o <<f>>
    OBVIOUS
<1>2. Held(<<f>>) = ToSet(f.samples) /\ Chained(<<f>>)
    BY <1>1 DEF Held, Chained
<1> QED BY <1>1, <1>2, HeldConcat, ChainedConcat

\* What one transaction adds to the table.
LEMMA Inserted ==
    ASSUME TypeOK, NEW S, table' = Append(table, S)
    PROVE  /\ Rows' = Rows \cup S
           /\ CommittedInOrder /\ AllBefore(Rows, S) => CommittedInOrder'
<1>1. /\ Len(table) \in Nat /\ DOMAIN table = 1 .. Len(table)
      /\ DOMAIN table' = 1 .. Len(table) + 1 /\ table'[Len(table) + 1] = S
      /\ \A i \in 1 .. Len(table) : table'[i] = table[i]
    BY DEF TypeOK
<1>2. \A i \in DOMAIN table' : i \in DOMAIN table \/ i = Len(table) + 1
    BY <1>1
<1>3. \A i \in DOMAIN table : i \in DOMAIN table' /\ i < Len(table) + 1
    BY <1>1
<1>4. Len(table) + 1 \in DOMAIN table'
    BY <1>1
<1>5. Rows' = Rows \cup S
    BY <1>1, <1>2, <1>3, <1>4 DEF Rows
<1>6. ASSUME CommittedInOrder, AllBefore(Rows, S), NEW i \in DOMAIN table', NEW j \in DOMAIN table',
             i < j
      PROVE  \A s \in table'[i], r \in table'[j] : Before(s, r)
  <2>1. i \in DOMAIN table
      BY <1>1, <1>6
  <2>2. CASE j \in DOMAIN table
      BY <1>1, <1>6, <2>1, <2>2 DEF CommittedInOrder
  <2>3. CASE j = Len(table) + 1
    <3>1. \A s \in table[i] : s \in Rows
        BY <2>1 DEF Rows
    <3> QED BY <1>1, <1>6, <2>1, <2>3, <3>1 DEF AllBefore
  <2> QED BY <1>2, <2>2, <2>3
<1> QED BY <1>5, <1>6 DEF CommittedInOrder

LEMMA InitPlace == Init => PlaceInv
<1> SUFFICES ASSUME Init PROVE PlaceInv
    OBVIOUS
<1>1. /\ backlog = <<>> /\ up = <<>> /\ table = <<>> /\ gone = {} /\ ticks = 0
    BY DEF Init
<1>2. ToSet(backlog) = {} /\ InUp = {} /\ Rows = {} /\ Gone = {}
    BY <1>1 DEF ToSet, InUp, Rows, Gone
<1>3. Taken(ticks) = {}
    BY <1>1 DEF Taken
<1>4. NothingVanishes
    BY <1>2, <1>3, Spread DEF Partition
<1>5. CommittedInOrder /\ Chained(up) /\ Sorted(backlog) /\ up \in Seq(WellFormed)
    BY <1>1 DEF CommittedInOrder, Chained, Sorted
<1> QED BY <1>1, <1>2, <1>4, <1>5 DEF PlaceInv, AllBefore

LEMMA NextPlace == TypeOK /\ PlaceInv /\ [Next]_vars => PlaceInv'
<1> SUFFICES ASSUME TypeOK, PlaceInv, [Next]_vars PROVE PlaceInv'
    OBVIOUS
<1> DEFINE B == ToSet(backlog)
           U == Held(up)
           T == Taken(ticks)
<1>1. /\ backlog \in Seq(Sample) /\ up \in Seq(Frame) /\ up \in Seq(WellFormed)
      /\ ticks \in Nat /\ U \in SUBSET Sample
    BY HeldType DEF TypeOK, PlaceInv
<1>2. /\ Partition(B, U, Rows, Gone, T) /\ CommittedInOrder /\ Chained(up) /\ Sorted(backlog)
      /\ AllBefore(Rows, U) /\ AllBefore(Rows \cup U, B)
      /\ kind = "board" => backlog = <<>>
    BY Spread DEF PlaceInv
<1>3. InUp' = Held(up')
    BY Spread
<1>4. ASSUME Partition(B', U', Rows', Gone', T'), CommittedInOrder', Chained(up'),
             up' \in Seq(WellFormed), Sorted(backlog'), AllBefore(Rows', U'),
             AllBefore(Rows' \cup U', B'), kind' = "board" => backlog' = <<>>
      PROVE  PlaceInv'
    BY <1>4, Spread DEF PlaceInv
<1> HIDE DEF B, U, T
<1>5. CASE SimBuffer
  <2> DEFINE all == backlog \o Due
             D == ToSet(all) \ ToSet(Newest(all))
  <2>1. /\ kind = "sim" /\ ticks < MaxTicks /\ ticks' = ticks + 1
        /\ backlog' = Newest(all) /\ gone' = gone \cup Why(D, "overflow")
        /\ UNCHANGED <<kind, up, table>>
      BY <1>5 DEF SimBuffer, stationVars
  <2>2. Due \in Seq(Sample) /\ ToSet(Due) = Now /\ Sorted(Due)
      BY <2>1, DueIsNow
  <2>3. /\ T' = T \cup Now /\ Now \cap T = {} /\ AllBefore(T, Now)
      BY <1>1, <2>1, Tick DEF T
  <2>4. /\ all \in Seq(Sample) /\ ToSet(all) = B \cup Now /\ Sorted(all)
    <3>1. AllBefore(B, Now)
        BY <1>2, <2>3 DEF AllBefore, Partition
    <3> QED BY <1>1, <1>2, <2>2, <3>1, Longer DEF B
  <2> HIDE DEF all
  <2>5. B' \subseteq B \cup Now /\ Sorted(backlog')
      BY <2>1, <2>4, NewestKept DEF B
  <2>6. Gone' = Gone \cup ((B \cup Now) \ B')
      BY <2>1, <2>4, Discarded DEF B, Gone
  <2>7. U' = U /\ Rows' = Rows /\ CommittedInOrder' /\ Chained(up') /\ up' \in Seq(WellFormed)
      BY <1>1, <1>2, <2>1 DEF U, Rows, CommittedInOrder
  <2>8. Partition(B', U', Rows', Gone', T')
      BY <1>2, <2>3, <2>5, <2>6, <2>7 DEF Partition
  <2>9. AllBefore(Rows' \cup U', B') /\ AllBefore(Rows', U')
      BY <1>2, <2>3, <2>5, <2>7 DEF AllBefore, Partition
  <2> QED BY <1>4, <2>1, <2>5, <2>7, <2>8, <2>9
<1>6. CASE SimEmit
  <2>1. /\ kind = "sim" /\ ticks < MaxTicks /\ ticks' = ticks + 1 /\ backlog' = <<>>
        /\ up' = up \o Out /\ UNCHANGED <<kind, table, gone>>
      BY <1>6 DEF SimEmit, stationVars, Out
  <2>2. T' = T \cup Now /\ Now \cap T = {} /\ AllBefore(T, Now)
      BY <1>1, <2>1, Tick DEF T
  <2>3. /\ Out \in Seq(Frame) /\ Held(Out) = B \cup Now /\ Chained(Out)
        /\ \A i \in DOMAIN Out : Out[i].type = "TELEMETRY"
    <3>1. AllBefore(ToSet(backlog), Now)
        BY <1>2, <2>2 DEF AllBefore, Partition, B
    <3> QED BY <1>2, <2>1, <3>1, Emission DEF B
  <2>4. Out \in Seq(WellFormed)
    <3> HIDE DEF Out
    <3> QED BY <2>3 DEF WellFormed
  <2> HIDE DEF Out
  <2>5. AllBefore(U, B \cup Now)
      BY <1>2, <2>2 DEF AllBefore, Partition
  <2>6. U' = U \cup B \cup Now /\ Chained(up') /\ up' \in Seq(WellFormed)
    <3>1. up' \in Seq(WellFormed)
        BY <1>1, <2>1, <2>4
    <3>2. U' = U \cup Held(Out)
        BY <1>1, <2>1, <2>3, HeldConcat DEF U
    <3>3. Chained(up')
        BY <1>1, <1>2, <2>1, <2>3, <2>5, ChainedConcat DEF U
    <3> QED BY <2>3, <3>1, <3>2, <3>3
  <2>7. B' = {} /\ Sorted(backlog')
      BY <2>1 DEF B, ToSet, Sorted
  <2>8. Rows' = Rows /\ Gone' = Gone /\ CommittedInOrder'
      BY <1>2, <2>1 DEF Rows, Gone, CommittedInOrder
  <2>9. Partition(B', U', Rows', Gone', T')
      BY <1>2, <2>2, <2>6, <2>7, <2>8 DEF Partition
  <2>10. AllBefore(Rows', U') /\ AllBefore(Rows' \cup U', B')
      BY <1>2, <2>2, <2>6, <2>7, <2>8 DEF AllBefore, Partition
  <2> QED BY <1>4, <2>1, <2>6, <2>7, <2>8, <2>9, <2>10
<1>7. CASE BoardEmit
  <2> DEFINE f == Telemetry(Due, 1, FALSE, FALSE)
  <2>1. /\ kind = "board" /\ ticks < MaxTicks /\ ticks' = ticks + 1
        /\ \/ up' = Append(up, f) /\ gone' = gone
           \/ up' = up /\ gone' = gone \cup Why(ToSet(Due), "refused")
        /\ UNCHANGED <<kind, table, backlog>>
      BY <1>7 DEF BoardEmit, stationVars
  <2>2. Due \in Seq(Sample) /\ ToSet(Due) = Now
      BY <2>1, DueIsNow
  <2>3. f \in Frame /\ f.samples = Due /\ f \in WellFormed
    <3>1. \A n \in Int : /\ Telemetry(Due, n, FALSE, FALSE) \in Frame
                         /\ Telemetry(Due, n, FALSE, FALSE).samples = Due
                         /\ Telemetry(Due, n, FALSE, FALSE).type = "TELEMETRY"
        BY <2>2, TelemetryType
    <3>2. 1 \in Int
        OBVIOUS
    <3>3. f \in Frame /\ f.samples = Due /\ f.type = "TELEMETRY"
        BY <3>1, <3>2, Zenon
    <3> HIDE DEF f
    <3> QED BY <3>3 DEF WellFormed
  <2> HIDE DEF f
  <2>4. T' = T \cup Now /\ Now \cap T = {} /\ AllBefore(T, Now)
      BY <1>1, <2>1, Tick DEF T
  <2>5. B = {} /\ B' = {} /\ Sorted(backlog')
      BY <1>2, <2>1 DEF B, ToSet, Sorted
  <2>6. Rows' = Rows /\ CommittedInOrder'
      BY <1>2, <2>1 DEF Rows, CommittedInOrder
  <2>7. \/ U' = U \cup Now /\ Gone' = Gone
        \/ U' = U /\ Gone' = Gone \cup Now
    <3>1. CASE up' = Append(up, f) /\ gone' = gone
        BY <1>1, <2>2, <2>3, <3>1, AppendFrame DEF U, Gone
    <3>2. CASE up' = up /\ gone' = gone \cup Why(ToSet(Due), "refused")
        BY <2>2, <3>2, Discarded DEF U, Gone
    <3> QED BY <2>1, <3>1, <3>2
  <2>8. Chained(up') /\ up' \in Seq(WellFormed)
    <3>1. AllBefore(U, Now)
        BY <1>2, <2>4 DEF AllBefore, Partition
    <3>2. CASE up' = up
        BY <1>1, <1>2, <3>2
    <3>3. CASE up' = Append(up, f)
      <4>1. Chained(up')
          BY <1>1, <1>2, <2>2, <2>3, <3>1, <3>3, AppendFrame DEF U
      <4>2. up' \in Seq(WellFormed)
          BY <1>1, <2>3, <3>3, EndTypes
      <4> QED BY <4>1, <4>2
    <3> QED BY <2>1, <3>2, <3>3
  <2>9. Partition(B', U', Rows', Gone', T')
      BY <1>2, <2>4, <2>5, <2>6, <2>7 DEF Partition
  <2>10. AllBefore(Rows', U') /\ AllBefore(Rows' \cup U', B')
      BY <1>2, <2>4, <2>5, <2>6, <2>7 DEF AllBefore, Partition
  <2>11. kind' = "board" => backlog' = <<>>
      BY <1>2, <2>1
  <2> QED BY <1>4, <2>5, <2>6, <2>8, <2>9, <2>10, <2>11
<1>8. CASE StoreErase
  <2>1. /\ up' = Append(up, Other) /\ backlog' = <<>> /\ gone' = gone \cup Why(B, "erased")
        /\ UNCHANGED <<kind, table, ticks>>
      BY <1>8 DEF StoreErase, stationVars, B
  <2>2. Other \in Frame /\ Other \in WellFormed /\ ToSet(Other.samples) = {}
      BY OtherType DEF WellFormed, ToSet
  <2>3. U' = U /\ Chained(up') /\ up' \in Seq(WellFormed)
      BY <1>1, <1>2, <2>1, <2>2, AppendFrame, EndTypes DEF U, AllBefore
  <2>4. /\ B' = {} /\ Sorted(backlog') /\ Rows' = Rows /\ CommittedInOrder' /\ T' = T
        /\ Gone' = Gone \cup B
    <3>1. B' = {} /\ Sorted(backlog')
        BY <2>1 DEF B, ToSet, Sorted
    <3>2. Gone' = Gone \cup B
        BY <2>1, Discarded DEF Gone
    <3>3. Rows' = Rows /\ CommittedInOrder' /\ T' = T
        BY <1>2, <2>1 DEF T, Rows, CommittedInOrder
    <3> QED BY <3>1, <3>2, <3>3
  <2>5. Partition(B', U', Rows', Gone', T')
      BY <1>2, <2>3, <2>4 DEF Partition
  <2>6. AllBefore(Rows', U') /\ AllBefore(Rows' \cup U', B')
      BY <1>2, <2>3, <2>4 DEF AllBefore
  <2> QED BY <1>4, <2>1, <2>3, <2>4, <2>5, <2>6
<1>9. ASSUME NEW f \in WellFormed, f.samples = <<>>, up' = Append(up, f),
             UNCHANGED <<kind, table, ticks, backlog, gone>>
      PROVE  PlaceInv'
  <2>1. ToSet(f.samples) = {} /\ f \in Frame
      BY <1>9 DEF ToSet, WellFormed
  <2>2. U' = U /\ Chained(up') /\ up' \in Seq(WellFormed)
      BY <1>1, <1>2, <1>9, <2>1, AppendFrame, EndTypes DEF U, AllBefore
  <2>3. B' = B /\ Rows' = Rows /\ CommittedInOrder' /\ T' = T /\ Gone' = Gone
      BY <1>2, <1>9 DEF B, T, Rows, Gone, CommittedInOrder
  <2> QED BY <1>2, <1>4, <1>9, <2>2, <2>3
<1>10. CASE SendOther \/ \E chans \in SUBSET Channel \ {{}} : Announce(chans)
  <2>1. \E f \in Frame : f.samples = <<>> /\ up' = Append(up, f)
    <3>1. CASE SendOther
        BY <3>1, OtherType DEF SendOther
    <3>2. ASSUME NEW chans \in SUBSET Channel, Announce(chans)
          PROVE  up' = Append(up, Hello(chans))
        BY <3>2 DEF Announce
    <3> QED BY <1>10, <3>1, <3>2, HelloType
  <2>2. UNCHANGED <<kind, table, ticks, backlog, gone>>
      BY <1>10 DEF SendOther, Announce, stationVars
  <2> QED BY <1>9, <2>1, <2>2 DEF WellFormed
<1>11. CASE BoardReset
  <2>1. PICK sentOut \in 0 .. Len(up) :
            /\ up' = SubSeq(up, 1, sentOut)
            /\ gone' = gone \cup
                  Why(UNION {ToSet(up[i].samples) : i \in sentOut + 1 .. Len(up)}, "refused")
      BY <1>11 DEF BoardReset
  <2> DEFINE C == UNION {ToSet(up[i].samples) : i \in sentOut + 1 .. Len(up)}
  <2>2. UNCHANGED <<kind, table, ticks, backlog>>
      BY <1>11 DEF BoardReset, stationVars
  <2>3. U = U' \cup C /\ Chained(up') /\ AllBefore(U', C)
      BY <1>1, <1>2, <2>1, Prefix DEF U
  <2>4. up' \in Seq(WellFormed)
      BY <1>1, <2>1
  <2>5. Gone' = Gone \cup C
      BY <2>1, Discarded DEF Gone
  <2> HIDE DEF C
  <2>6. B' = B /\ Rows' = Rows /\ CommittedInOrder' /\ T' = T /\ Sorted(backlog')
      BY <1>2, <2>2 DEF B, T, Rows, CommittedInOrder
  <2>7. U' \cap C = {}
      BY <1>1, <2>3, Apart
  <2>8. Partition(B', U', Rows', Gone', T')
      BY <1>2, <2>3, <2>5, <2>6, <2>7 DEF Partition
  <2>9. AllBefore(Rows', U') /\ AllBefore(Rows' \cup U', B')
      BY <1>2, <2>3, <2>6 DEF AllBefore
  <2> QED BY <1>2, <1>4, <2>2, <2>3, <2>4, <2>6, <2>8, <2>9
<1> DEFINE H == ToSet(Head(up).samples)
<1>12. ASSUME up # <<>>, up' = Tail(up)
       PROVE  /\ U = H \cup U' /\ H \cap U' = {} /\ AllBefore(H, U')
              /\ Chained(up') /\ up' \in Seq(WellFormed) /\ Head(up) \in WellFormed
  <2>1. U = H \cup U' /\ AllBefore(H, U') /\ Chained(up')
      BY <1>1, <1>2, <1>12, HeadAndTail DEF U
  <2>2. H \cap U' = {}
      BY <1>1, <2>1, Apart
  <2>3. up' \in Seq(WellFormed) /\ Head(up) \in WellFormed
      BY <1>1, <1>12
  <2> QED BY <2>1, <2>2, <2>3
<1>13. CASE Corrupt
  <2>1. /\ up # <<>> /\ up' = Tail(up) /\ gone' = gone \cup Why(H, "corrupted")
        /\ UNCHANGED <<kind, table, ticks, backlog>>
      BY <1>13 DEF Corrupt, nodeVars, stationVars
  <2> HIDE DEF H
  <2>2. Gone' = Gone \cup H
      BY <2>1, Discarded DEF Gone
  <2>3. B' = B /\ Rows' = Rows /\ CommittedInOrder' /\ T' = T /\ Sorted(backlog')
      BY <1>2, <2>1 DEF B, T, Rows, CommittedInOrder
  <2>4. Partition(B', U', Rows', Gone', T')
      BY <1>2, <1>12, <2>1, <2>2, <2>3 DEF Partition
  <2>5. AllBefore(Rows', U') /\ AllBefore(Rows' \cup U', B')
      BY <1>2, <1>12, <2>1, <2>3 DEF AllBefore
  <2> QED BY <1>2, <1>4, <1>12, <2>1, <2>3, <2>4, <2>5
<1>14. CASE OnTelemetry
  <2> DEFINE kept == {s \in H : Convertible(s)}
             unknown == {s \in H : ~Convertible(s)}
  <2>1. /\ up # <<>> /\ up' = Tail(up) /\ table' = Append(table, kept)
        /\ gone' = gone \cup Why(unknown, "unknown") /\ UNCHANGED <<kind, ticks, backlog>>
      BY <1>14 DEF OnTelemetry, nodeVars
  <2>2. kept \cup unknown = H /\ kept \cap unknown = {}
      OBVIOUS
  <2> HIDE DEF kept, unknown, H
  <2>3. Gone' = Gone \cup unknown
      BY <2>1, Discarded DEF Gone
  <2>4. Rows' = Rows \cup kept /\ CommittedInOrder'
    <3>1. AllBefore(Rows, kept)
        BY <1>2, <1>12, <2>1, <2>2 DEF AllBefore
    <3> QED BY <1>2, <2>1, <3>1, Inserted
  <2>5. B' = B /\ T' = T /\ Sorted(backlog')
      BY <1>2, <2>1 DEF B, T
  <2>6. Partition(B', U', Rows', Gone', T')
      BY <1>2, <1>12, <2>1, <2>2, <2>3, <2>4, <2>5 DEF Partition
  <2>7. AllBefore(Rows', U') /\ AllBefore(Rows' \cup U', B')
      BY <1>2, <1>12, <2>1, <2>2, <2>4, <2>5 DEF AllBefore
  <2> QED BY <1>2, <1>4, <1>12, <2>1, <2>4, <2>5, <2>6, <2>7
<1>15. CASE OnHello \/ OnOther
  <2>1. /\ up # <<>> /\ up' = Tail(up) /\ Head(up).type # "TELEMETRY"
        /\ UNCHANGED <<kind, table, ticks, backlog, gone>>
      BY <1>15 DEF OnHello, OnOther, nodeVars, stationVars
  <2>2. H = {}
    <3>1. Head(up).samples = <<>>
        BY <1>12, <2>1 DEF WellFormed
    <3> QED BY <3>1 DEF ToSet
  <2> HIDE DEF H
  <2>3. B' = B /\ Rows' = Rows /\ Gone' = Gone /\ CommittedInOrder' /\ T' = T
      BY <1>2, <2>1 DEF B, T, Rows, Gone, CommittedInOrder
  <2>4. U' = U
      BY <1>12, <2>1, <2>2
  <2> QED BY <1>2, <1>4, <1>12, <2>1, <2>3, <2>4
<1>16. CASE GatewayRestart
  <2>1. /\ up' = <<>> /\ gone' = gone \cup Why(U, "corrupted")
        /\ UNCHANGED <<kind, table, ticks, backlog>>
      BY <1>16, Spread DEF GatewayRestart, nodeVars, U
  <2>2. U' = {} /\ Chained(up') /\ up' \in Seq(WellFormed)
      BY <2>1 DEF U, Held, Chained
  <2>3. Gone' = Gone \cup U
      BY <2>1, Discarded DEF Gone
  <2>4. B' = B /\ Rows' = Rows /\ CommittedInOrder' /\ T' = T /\ Sorted(backlog')
      BY <1>2, <2>1 DEF B, T, Rows, CommittedInOrder
  <2>5. Partition(B', U', Rows', Gone', T')
      BY <1>2, <2>2, <2>3, <2>4 DEF Partition
  <2>6. AllBefore(Rows', U') /\ AllBefore(Rows' \cup U', B')
      BY <1>2, <2>2, <2>4 DEF AllBefore
  <2> QED BY <1>2, <1>4, <2>1, <2>2, <2>4, <2>5, <2>6
<1>17. CASE LinkDrop \/ LinkRestore \/ OnTelemAck \/ SendTelemAck \/ UNCHANGED vars
  <2>1. UNCHANGED <<kind, table, ticks, backlog, gone, up>>
      BY <1>17 DEF LinkDrop, LinkRestore, OnTelemAck, SendTelemAck, vars, nodeVars, stationVars
  <2>2. /\ B' = B /\ Rows' = Rows /\ Gone' = Gone /\ CommittedInOrder' /\ T' = T /\ U' = U
      BY <1>2, <2>1 DEF B, T, U, Rows, Gone, CommittedInOrder
  <2> QED BY <1>1, <1>2, <1>4, <2>1, <2>2
<1> QED BY <1>5, <1>6, <1>7, <1>8, <1>10, <1>11, <1>13, <1>14, <1>15, <1>16, <1>17
    DEF Next, sampling, pump, Fault

LEMMA PlaceAlways == Spec => [](TypeOK /\ PlaceInv)
<1>1. Init => TypeOK /\ PlaceInv
    BY InitTypeOK, InitPlace
<1>2. TypeOK /\ PlaceInv /\ [Next]_vars => (TypeOK /\ PlaceInv)'
    BY NextTypeOK, NextPlace
<1> QED BY <1>1, <1>2, PTL DEF Spec

\* However many samples are lost, replayed, refused or not convertible, every one is
\* in exactly one place: nothing vanishes without a reason the code states.
THEOREM Conserved == Spec => []NothingVanishes
<1>1. PlaceInv => NothingVanishes
    BY DEF PlaceInv
<1> QED BY <1>1, PlaceAlways, PTL

\* Samples are committed in the order in which they were taken, and none twice.
THEOREM Ordered == Spec => []CommittedInOrder
<1>1. PlaceInv => CommittedInOrder
    BY DEF PlaceInv
<1> QED BY <1>1, PlaceAlways, PTL
-----------------------------------------------------------------------------
(* What the watermark is worth.                                            *)

Sent == others + Len(handed) + faults

\* Before the counter wraps, frames reach the gateway in the order of their
\* numbers, all above the watermark.
Numbering ==
    /\ Sent < SeqSpace =>
          /\ seq <= Sent /\ wm < seq
          /\ \A i \in DOMAIN up : up[i].seq < seq
    /\ \A i, j \in DOMAIN up : i < j => up[i].seq < up[j].seq
    /\ \A i \in DOMAIN up : wm < up[i].seq
    /\ acking <= wm
    /\ \A i \in DOMAIN down : down[i] <= wm

\* A frame that is no longer on its way has settled.
SettledInv ==
    \A k \in DOMAIN handed :
        \/ \E i \in DOMAIN up : up[i] = handed[k]
        \/ ToSet(handed[k].samples) \subseteq Rows \cup Gone

DurableInv ==
    /\ boot >= 1
    /\ SettledInv
    /\ boot = 1 /\ Sent <= SeqSpace => Numbering

LEMMA InitDurable == Init => DurableInv
<1> SUFFICES ASSUME Init PROVE DurableInv
    OBVIOUS
<1>1. /\ boot = 1 /\ seq = 0 /\ wm = -1 /\ acking = -1 /\ up = <<>> /\ down = <<>> /\ handed = <<>>
      /\ others = 0 /\ faults = 0
    BY DEF Init, None
<1>2. DOMAIN up = {} /\ DOMAIN down = {} /\ DOMAIN handed = {} /\ Sent = 0
    BY <1>1 DEF Sent
<1>3. Numbering
    BY <1>1, <1>2 DEF Numbering
<1> QED BY <1>1, <1>2, <1>3 DEF DurableInv, SettledInv

LEMMA StillSettled ==
    ASSUME SettledInv, Rows \subseteq Rows', Gone \subseteq Gone',
           \A i \in DOMAIN up : \/ \E j \in DOMAIN up' : up'[j] = up[i]
                                \/ ToSet(up[i].samples) \subseteq Rows' \cup Gone',
           \A k \in DOMAIN handed' : \/ k \in DOMAIN handed /\ handed'[k] = handed[k]
                                     \/ \E j \in DOMAIN up' : up'[j] = handed'[k]
                                     \/ ToSet(handed'[k].samples) \subseteq Rows' \cup Gone'
    PROVE  SettledInv'
<1> SUFFICES ASSUME NEW k \in DOMAIN handed', k \in DOMAIN handed, handed'[k] = handed[k]
             PROVE  \/ \E j \in DOMAIN up' : up'[j] = handed'[k]
                    \/ ToSet(handed'[k].samples) \subseteq Rows' \cup Gone'
    BY DEF SettledInv
<1>1. CASE \E i \in DOMAIN up : up[i] = handed[k]
    BY <1>1
<1>2. CASE ToSet(handed[k].samples) \subseteq Rows \cup Gone
    BY <1>2
<1> QED BY <1>1, <1>2 DEF SettledInv

\* The rows and the discarded samples only grow.
LEMMA OnlyGrow ==
    ASSUME TypeOK, [Next]_vars
    PROVE  Rows \subseteq Rows' /\ Gone \subseteq Gone'
<1>1. gone \subseteq gone'
    BY DEF Next, vars, sampling, pump, Fault, SimBuffer, SimEmit, BoardEmit, LinkDrop, LinkRestore,
           StoreErase, BoardReset, Corrupt, Announce, SendOther, OnTelemAck, OnTelemetry,
           SendTelemAck, OnHello, OnOther, GatewayRestart
<1>2. table' = table \/ \E S : table' = Append(table, S)
    BY DEF Next, vars, sampling, pump, Fault, SimBuffer, SimEmit, BoardEmit, LinkDrop, LinkRestore,
           StoreErase, BoardReset, Corrupt, Announce, SendOther, OnTelemAck, OnTelemetry,
           SendTelemAck, OnHello, OnOther, GatewayRestart, stationVars
<1>3. Rows \subseteq Rows'
  <2>1. CASE table' = table
      BY <2>1 DEF Rows
  <2>2. ASSUME NEW S, table' = Append(table, S) PROVE Rows \subseteq Rows'
      BY <2>2, Inserted
  <2> QED BY <1>2, <2>1, <2>2
<1> QED BY <1>1, <1>3 DEF Gone

\* Numbers that grow, all below the next one, are followed by the next ones.
LEMMA NextNumbers ==
    ASSUME NEW m \in Nat, NEW k \in Nat, NEW v \in [1 .. m + k -> Int],
           NEW next \in Int, NEW low \in Int, low < next,
           \A i, j \in 1 .. m : i < j => v[i] < v[j],
           \A i \in 1 .. m : low < v[i] /\ v[i] < next,
           \A i \in m + 1 .. m + k : v[i] = next + (i - m) - 1
    PROVE  /\ \A i, j \in 1 .. m + k : i < j => v[i] < v[j]
           /\ \A i \in 1 .. m + k : low < v[i] /\ v[i] < next + k
<1>1. \A i \in 1 .. m + k : i \in 1 .. m \/ i \in m + 1 .. m + k
    OBVIOUS
<1>2. \A i \in m + 1 .. m + k : v[i] \in next .. next + k - 1
    OBVIOUS
<1>3. ASSUME NEW i \in 1 .. m + k, NEW j \in 1 .. m + k, i < j PROVE v[i] < v[j]
  <2>1. CASE j \in 1 .. m
      BY <1>3, <2>1
  <2>2. CASE i \in 1 .. m /\ j \in m + 1 .. m + k
      BY <1>2, <2>2
  <2>3. CASE i \in m + 1 .. m + k /\ j \in m + 1 .. m + k
      BY <1>3, <2>3
  <2> QED BY <1>1, <1>3, <2>1, <2>2, <2>3
<1>4. ASSUME NEW i \in 1 .. m + k PROVE low < v[i] /\ v[i] < next + k
  <2>1. CASE i \in 1 .. m
      BY <2>1
  <2>2. CASE i \in m + 1 .. m + k
      BY <1>2, <2>2
  <2> QED BY <1>1, <2>1, <2>2
<1> QED BY <1>3, <1>4

\* A call numbers n frames, and the queue takes q of them: all or none.
Issues(q, n) ==
    /\ q \in Seq(Frame) /\ (Len(q) = n \/ q = <<>>)
    /\ \A i \in DOMAIN q : q[i].seq = Numbered(i)
    /\ up' = up \o q /\ seq' = (seq + n) % SeqSpace /\ Sent' = Sent + n
    /\ UNCHANGED <<wm, acking, down>>

LEMMA Issued ==
    ASSUME TypeOK, Numbering, NEW n \in Nat, NEW q, Issues(q, n), Sent + n <= SeqSpace
    PROVE  Numbering'
<1>1. /\ Sent \in Nat /\ SeqSpace \in Nat \ {0} /\ seq \in 0 .. SeqSpace - 1 /\ wm \in Int
    BY BoundsAssumption DEF TypeOK, Sent, SeqNo, None
<1>2. CASE n = 0
  <2>1. up' = up
      BY <1>2 DEF Issues, TypeOK
  <2>2. seq' = seq /\ Sent' = Sent
      BY <1>1, <1>2 DEF Issues
  <2> QED BY <2>1, <2>2 DEF Numbering, Issues
<1>3. CASE n > 0
  <2>1. Sent < SeqSpace
      BY <1>1, <1>3
  <2>2. seq <= Sent /\ wm < seq /\ seq + n <= SeqSpace
      BY <1>1, <2>1 DEF Numbering
  <2>3. \A i \in 1 .. n : Numbered(i) = seq + i - 1
    <3> SUFFICES ASSUME NEW i \in 1 .. n PROVE Numbered(i) = seq + i - 1
        OBVIOUS
    <3>1. seq + i - 1 \in 0 .. SeqSpace - 1
        BY <1>1, <2>2
    <3>2. Numbered(i) = (seq + i - 1) % SeqSpace
        BY DEF Numbered
    <3> HIDE DEF Numbered
    <3> QED BY <1>1, <3>1, <3>2
  <2>4. Sent' < SeqSpace => seq' = seq + n /\ seq' <= Sent'
    <3> SUFFICES ASSUME Sent' < SeqSpace PROVE seq' = seq + n /\ seq' <= Sent'
        OBVIOUS
    <3>1. seq' = (seq + n) % SeqSpace /\ Sent' = Sent + n
        BY DEF Issues
    <3>2. seq + n \in 0 .. SeqSpace - 1 /\ seq + n <= Sent'
        BY <1>1, <2>2, <3>1
    <3> QED BY <1>1, <3>1, <3>2
  <2> DEFINE m == Len(up)
             k == Len(q)
             v == [i \in 1 .. m + k |-> up'[i].seq]
  <2>5. /\ m \in Nat /\ k \in Nat /\ k <= n /\ DOMAIN up = 1 .. m /\ DOMAIN q = 1 .. k
        /\ DOMAIN up' = 1 .. m + k
        /\ \A i \in 1 .. m : up'[i] = up[i]
        /\ \A i \in m + 1 .. m + k : i - m \in 1 .. k /\ up'[i] = q[i - m]
    <3>1. up \in Seq(Frame) /\ q \in Seq(Frame) /\ up' = up \o q /\ (Len(q) = n \/ q = <<>>)
        BY DEF TypeOK, Issues
    <3> QED BY <3>1
  <2> HIDE DEF m, k
  <2>6. \A i \in 1 .. m : up'[i].seq \in Int
    <3>1. \A i \in 1 .. m : up[i] \in Frame
        BY <2>5 DEF TypeOK
    <3>2. \A f \in Frame : f.seq \in Int
      <4>1. SeqNo \subseteq Int
          BY <1>1 DEF SeqNo
      <4> QED BY <4>1 DEF Frame
    <3>3. \A i \in 1 .. m : up'[i] = up[i]
        BY <2>5
    <3> QED BY <3>1, <3>2, <3>3
  <2>7. \A i \in m + 1 .. m + k : up'[i].seq = seq + (i - m) - 1
    <3> SUFFICES ASSUME NEW i \in m + 1 .. m + k PROVE up'[i].seq = seq + (i - m) - 1
        OBVIOUS
    <3>1. i - m \in 1 .. k /\ i - m \in 1 .. n /\ up'[i] = q[i - m]
        BY <2>5
    <3>2. q[i - m].seq = Numbered(i - m)
        BY <2>5, <3>1 DEF Issues
    <3>3. Numbered(i - m) = seq + (i - m) - 1
        BY <2>3, <3>1
    <3> QED BY <3>1, <3>2, <3>3
  <2>8. v \in [1 .. m + k -> Int]
    <3>1. \A i \in 1 .. m + k : i \in 1 .. m \/ i \in m + 1 .. m + k
        BY <2>5
    <3>2. \A i \in m + 1 .. m + k : seq + (i - m) - 1 \in Int
        BY <1>1, <2>5
    <3> QED BY <2>6, <2>7, <3>1, <3>2
  <2>9. \A i \in 1 .. m + k : v[i] = up'[i].seq
      OBVIOUS
  <2> HIDE DEF v
  <2>10. \A i \in 1 .. m : i \in 1 .. m + k /\ i \in DOMAIN up /\ v[i] = up[i].seq
      BY <2>5, <2>9
  <2>11. /\ \A i, j \in 1 .. m : i < j => v[i] < v[j]
         /\ \A i \in 1 .. m : wm < v[i] /\ v[i] < seq
      BY <2>1, <2>10 DEF Numbering
  <2>12. \A i \in m + 1 .. m + k : v[i] = seq + (i - m) - 1
    <3>1. \A i \in m + 1 .. m + k : i \in 1 .. m + k
        BY <2>5
    <3> QED BY <2>7, <2>9, <3>1
  <2>13. /\ \A i, j \in 1 .. m + k : i < j => v[i] < v[j]
         /\ \A i \in 1 .. m + k : wm < v[i] /\ v[i] < seq + k
    <3>1. seq \in Int /\ wm \in Int /\ wm < seq
        BY <1>1, <2>2
    <3> QED BY <2>5, <2>8, <2>11, <2>12, <3>1, NextNumbers
  <2>14. \A i \in DOMAIN up' : up'[i].seq < seq + n
    <3>1. \A i \in 1 .. m + k : v[i] \in Int /\ v[i] < seq + k
        BY <2>8, <2>13
    <3>2. seq \in Int /\ n \in Int /\ k \in Int /\ k <= n
        BY <1>1, <2>5
    <3>3. \A i \in 1 .. m + k : v[i] < seq + n
        BY <3>1, <3>2
    <3>4. DOMAIN up' = 1 .. m + k
        BY <2>5
    <3> QED BY <2>9, <3>3, <3>4
  <2>15. wm < seq + n
      BY <1>1, <2>2
  <2>16. /\ \A i, j \in DOMAIN up' : i < j => up'[i].seq < up'[j].seq
         /\ \A i \in DOMAIN up' : wm < up'[i].seq
      BY <2>5, <2>9, <2>13
  <2> QED BY <2>4, <2>14, <2>15, <2>16 DEF Numbering, Issues
<1> QED BY <1>2, <1>3

LEMMA ConcatMembers ==
    ASSUME NEW p \in Seq(Frame), NEW q \in Seq(Frame)
    PROVE  LET c == p \o q
           IN /\ Len(c) = Len(p) + Len(q)
              /\ \A i \in DOMAIN p : i \in DOMAIN c /\ c[i] = p[i]
              /\ \A i \in DOMAIN q : \E j \in DOMAIN c : c[j] = q[i]
              /\ \A k \in DOMAIN c : \/ k \in DOMAIN p /\ c[k] = p[k]
                                     \/ \E i \in DOMAIN q : c[k] = q[i]
<1> DEFINE c == p \o q
<1>1. /\ Len(p) \in Nat /\ Len(q) \in Nat /\ DOMAIN p = 1 .. Len(p) /\ DOMAIN q = 1 .. Len(q)
      /\ Len(c) = Len(p) + Len(q) /\ DOMAIN c = 1 .. Len(p) + Len(q)
      /\ \A i \in DOMAIN c : c[i] = IF i <= Len(p) THEN p[i] ELSE q[i - Len(p)]
    OBVIOUS
<1> HIDE DEF c
<1>2. \A i \in DOMAIN p : i \in DOMAIN c /\ c[i] = p[i]
    BY <1>1
<1>3. \A i \in DOMAIN q : i + Len(p) \in DOMAIN c /\ c[i + Len(p)] = q[i]
    BY <1>1
<1>4. \A k \in DOMAIN c : \/ k \in DOMAIN p /\ c[k] = p[k]
                          \/ k - Len(p) \in DOMAIN q /\ c[k] = q[k - Len(p)]
  <2> SUFFICES ASSUME NEW k \in DOMAIN c
               PROVE  \/ k \in DOMAIN p /\ c[k] = p[k]
                      \/ k - Len(p) \in DOMAIN q /\ c[k] = q[k - Len(p)]
      OBVIOUS
  <2>1. CASE k <= Len(p)
      BY <1>1, <2>1
  <2>2. CASE k > Len(p)
      BY <1>1, <2>2
  <2> QED BY <1>1, <2>1, <2>2
<1> QED BY <1>1, <1>2, <1>3, <1>4 DEF c

\* Frames are made, and every one of them is on its way or discarded at once.
LEMMA MadeSettled ==
    ASSUME TypeOK, [Next]_vars, SettledInv, NEW q \in Seq(Frame), NEW h \in Seq(Frame),
           up' = up \o q, handed' = handed \o h,
           \A i \in DOMAIN h : \/ \E j \in DOMAIN q : q[j] = h[i]
                               \/ ToSet(h[i].samples) \subseteq Rows' \cup Gone'
    PROVE  SettledInv'
<1>1. up \in Seq(Frame) /\ handed \in Seq(Frame)
    BY DEF TypeOK
<1>2. /\ \A i \in DOMAIN up : i \in DOMAIN up' /\ up'[i] = up[i]
      /\ \A i \in DOMAIN q : \E j \in DOMAIN up' : up'[j] = q[i]
    BY <1>1, ConcatMembers
<1>3. \A k \in DOMAIN handed' : \/ k \in DOMAIN handed /\ handed'[k] = handed[k]
                                \/ \E i \in DOMAIN h : handed'[k] = h[i]
    BY SMTT(30), <1>1, ConcatMembers
<1>4. \A k \in DOMAIN handed' : \/ k \in DOMAIN handed /\ handed'[k] = handed[k]
                                \/ \E j \in DOMAIN up' : up'[j] = handed'[k]
                                \/ ToSet(handed'[k].samples) \subseteq Rows' \cup Gone'
  <2>1. ASSUME NEW i \in DOMAIN h
        PROVE  \/ \E j \in DOMAIN up' : up'[j] = h[i]
               \/ ToSet(h[i].samples) \subseteq Rows' \cup Gone'
    <3>1. CASE \E j \in DOMAIN q : q[j] = h[i]
        BY <1>2, <3>1
    <3> QED BY <3>1
  <2> SUFFICES ASSUME NEW k \in DOMAIN handed'
               PROVE  \/ k \in DOMAIN handed /\ handed'[k] = handed[k]
                      \/ \E j \in DOMAIN up' : up'[j] = handed'[k]
                      \/ ToSet(handed'[k].samples) \subseteq Rows' \cup Gone'
      OBVIOUS
  <2>2. CASE k \in DOMAIN handed /\ handed'[k] = handed[k]
      BY <2>2
  <2>3. ASSUME NEW i \in DOMAIN h, handed'[k] = h[i]
        PROVE  \/ \E j \in DOMAIN up' : up'[j] = handed'[k]
               \/ ToSet(handed'[k].samples) \subseteq Rows' \cup Gone'
      BY <2>1, <2>3
  <2> QED BY <1>3, <2>2, <2>3
<1> QED BY <1>2, <1>4, OnlyGrow, StillSettled

\* The frame at the head is taken.
LEMMA TakenSettled ==
    ASSUME TypeOK, [Next]_vars, SettledInv, up # <<>>, up' = Tail(up), handed' = handed,
           ToSet(Head(up).samples) \subseteq Rows' \cup Gone'
    PROVE  SettledInv'
<1>1. /\ DOMAIN up = 1 .. Len(up) /\ Len(up) \in Nat /\ Head(up) = up[1]
      /\ DOMAIN up' = 1 .. Len(up) - 1 /\ \A i \in DOMAIN up' : up'[i] = up[i + 1]
    BY DEF TypeOK
<1>2. \A i \in DOMAIN up : i = 1 \/ (i - 1 \in DOMAIN up' /\ up'[i - 1] = up[i])
    BY <1>1
<1>3. \A i \in DOMAIN up : \/ \E j \in DOMAIN up' : up'[j] = up[i]
                           \/ ToSet(up[i].samples) \subseteq Rows' \cup Gone'
    BY <1>1, <1>2
<1> QED BY <1>3, OnlyGrow, StillSettled

Early == boot = 1 /\ Sent <= SeqSpace

\* ... and what follows it keeps its order above the watermark.
LEMMA TakenNumbers ==
    ASSUME TypeOK, Numbering, up # <<>>, up' = Tail(up), seq' = seq, Sent' >= Sent, Sent' \in Int,
           down' = down, (wm' = wm /\ acking' = acking) \/ (wm' = Head(up).seq /\ acking' = wm')
    PROVE  Numbering'
<1> DEFINE s(i) == up[i].seq
<1>1. /\ DOMAIN up = 1 .. Len(up) /\ Len(up) \in Nat /\ Len(up) >= 1 /\ Head(up) = up[1]
      /\ DOMAIN up' = 1 .. Len(up) - 1 /\ \A i \in DOMAIN up' : up'[i] = up[i + 1]
    BY DEF TypeOK
<1>2. \A i \in DOMAIN up' : i + 1 \in DOMAIN up /\ 1 < i + 1
    BY <1>1
<1>3. 1 \in DOMAIN up
    BY <1>1
<1>4. /\ wm \in Int /\ acking \in Int /\ seq \in Int /\ Sent \in Int /\ Head(up).seq \in Int
      /\ \A i \in DOMAIN down : down[i] \in Int
  <2>1. SeqNo \subseteq Int /\ None \in Int
      BY BoundsAssumption DEF SeqNo, None
  <2>2. Head(up) \in Frame
      BY <1>1, <1>3 DEF TypeOK
  <2>3. wm \in Int /\ acking \in Int /\ seq \in Int /\ Sent \in Int
      BY <2>1 DEF TypeOK, Sent
  <2>4. \A i \in DOMAIN down : down[i] \in Int
    <3>1. \A i \in DOMAIN down : down[i] \in SeqNo
        BY DEF TypeOK
    <3> QED BY <2>1, <3>1
  <2> QED BY <2>1, <2>2, <2>3, <2>4 DEF Frame
<1>5. wm < Head(up).seq
    BY <1>1, <1>3 DEF Numbering
<1>6. wm <= wm' /\ wm' \in Int
    BY <1>4, <1>5
<1>7. /\ \A i, j \in DOMAIN up' : i < j => up'[i].seq < up'[j].seq
      /\ \A i \in DOMAIN up' : wm' < up'[i].seq
  <2>1. ASSUME NEW i \in DOMAIN up', NEW j \in DOMAIN up', i < j PROVE up'[i].seq < up'[j].seq
    <3>1. i + 1 < j + 1
        BY <1>1, <2>1
    <3> QED BY <1>1, <1>2, <3>1 DEF Numbering
  <2>2. ASSUME NEW i \in DOMAIN up' PROVE wm' < up'[i].seq
    <3>1. up'[i] = up[i + 1] /\ i + 1 \in DOMAIN up /\ 1 < i + 1
        BY <1>1, <1>2
    <3>2. up[1].seq < up[i + 1].seq /\ wm < up[i + 1].seq
        BY <1>3, <3>1 DEF Numbering
    <3> QED BY <1>1, <3>1, <3>2
  <2> QED BY <2>1, <2>2
<1>8. acking' <= wm'
    BY <1>6 DEF Numbering
<1>9. \A i \in DOMAIN down' : down'[i] <= wm'
    BY <1>4, <1>6 DEF Numbering
<1>10. Sent' < SeqSpace => /\ seq' <= Sent' /\ wm' < seq'
                           /\ \A i \in DOMAIN up' : up'[i].seq < seq'
  <2> SUFFICES ASSUME Sent' < SeqSpace
               PROVE  seq' <= Sent' /\ wm' < seq' /\ \A i \in DOMAIN up' : up'[i].seq < seq'
      OBVIOUS
  <2>1. Sent < SeqSpace
      BY <1>4, BoundsAssumption
  <2>2. seq <= Sent /\ wm < seq /\ \A i \in DOMAIN up : up[i].seq < seq
      BY <2>1 DEF Numbering
  <2>3. wm' < seq'
      BY <1>1, <1>3, <2>2
  <2>4. seq' <= Sent'
      BY <1>4, <2>2
  <2> QED BY <1>1, <1>2, <2>2, <2>3, <2>4
<1> QED BY <1>7, <1>8, <1>9, <1>10 DEF Numbering

\* Nothing reaches the wire or the node's counter.
LEMMA QuietNumbers ==
    ASSUME TypeOK, Numbering, up' = up \/ up' = <<>>, seq' = seq, Sent' >= Sent, Sent' \in Int,
           wm' = wm, acking' \in {acking, None},
           down' = down \/ (down # <<>> /\ down' = Tail(down)) \/ down' = Append(down, acking)
    PROVE  Numbering'
<1>1. /\ wm \in Int /\ wm >= -1 /\ seq \in Int /\ Sent \in Int /\ SeqSpace \in Int
  <2>1. \A x \in SeqNo \cup {None} : x \in Int /\ x >= -1
      BY BoundsAssumption DEF SeqNo, None
  <2> QED BY SMTT(30), <2>1, BoundsAssumption DEF TypeOK, Sent
<1>2. acking' <= wm'
    BY <1>1 DEF Numbering, None
<1>3. \A i \in DOMAIN down' : down'[i] <= wm'
  <2>1. DOMAIN down = 1 .. Len(down) /\ Len(down) \in Nat
      BY DEF TypeOK
  <2>2. \A i \in DOMAIN down' : \/ \E j \in DOMAIN down : down'[i] = down[j]
                                \/ down'[i] = acking
    <3>1. CASE down' = down
        BY <3>1
    <3>2. CASE down # <<>> /\ down' = Tail(down)
      <4>1. DOMAIN down' = 1 .. Len(down) - 1 /\ \A i \in DOMAIN down' : down'[i] = down[i + 1]
          BY <3>2 DEF TypeOK
      <4>2. ASSUME NEW n \in Nat, NEW i \in 1 .. n - 1 PROVE i + 1 \in 1 .. n
          OBVIOUS
      <4>3. \A i \in DOMAIN down' : i + 1 \in DOMAIN down
          BY <2>1, <4>1, <4>2
      <4> QED BY <4>1, <4>3
    <3>3. CASE down' = Append(down, acking)
      <4>1. DOMAIN down' = 1 .. Len(down) + 1 /\ down'[Len(down) + 1] = acking
            /\ \A i \in 1 .. Len(down) : down'[i] = down[i]
          BY <3>3 DEF TypeOK
      <4>2. ASSUME NEW n \in Nat, NEW i \in 1 .. n + 1 PROVE i \in 1 .. n \/ i = n + 1
          OBVIOUS
      <4>3. \A i \in DOMAIN down' : i \in DOMAIN down \/ i = Len(down) + 1
          BY <2>1, <4>1, <4>2
      <4> QED BY <2>1, <4>1, <4>3
    <3> QED BY <3>1, <3>2, <3>3
  <2> QED BY <2>2 DEF Numbering
<1>4. \A i \in DOMAIN up' : i \in DOMAIN up /\ up'[i] = up[i]
    OBVIOUS
<1>5. Sent' < SeqSpace => /\ seq' <= Sent' /\ wm' < seq'
                          /\ \A i \in DOMAIN up' : up'[i].seq < seq'
    BY <1>1, <1>4 DEF Numbering
<1> QED BY <1>2, <1>3, <1>4, <1>5 DEF Numbering

LEMMA NextDurable == TypeOK /\ PlaceInv /\ DurableInv /\ [Next]_vars => DurableInv'
<1> SUFFICES ASSUME TypeOK, PlaceInv, DurableInv, [Next]_vars PROVE DurableInv'
    OBVIOUS
<1>1. /\ up \in Seq(Frame) /\ handed \in Seq(Frame) /\ boot \in Nat /\ boot >= 1 /\ SettledInv
      /\ others \in Nat /\ faults \in Nat /\ Sent \in Nat /\ SeqSpace \in Nat \ {0} /\ wm \in Int
  <2>1. \A x \in SeqNo \cup {None} : x \in Int
      BY BoundsAssumption DEF SeqNo, None
  <2> QED BY <2>1, BoundsAssumption DEF TypeOK, DurableInv, Sent
<1>2. Early => Numbering
    BY DEF DurableInv, Early
<1>3. Sent' \in Nat
  <2>1. others' \in Nat /\ faults' \in Nat /\ handed' \in Seq(Frame)
    <3>1. TypeOK'
        BY NextTypeOK
    <3> QED BY <3>1 DEF TypeOK
  <2>2. Len(handed') \in Nat
      BY <2>1
  <2> QED BY <2>1, <2>2 DEF Sent
\* What is left to show of an action that does not reset the node.
<1>4. ASSUME boot' = boot, SettledInv', Sent' >= Sent, Early /\ Sent' <= SeqSpace => Numbering'
      PROVE  DurableInv'
  <2>1. Sent' <= SeqSpace => Sent <= SeqSpace
      BY <1>1, <1>3, <1>4
  <2> QED BY <1>1, <1>4, <2>1 DEF DurableInv, Early
<1>5. <<>> \in Seq(Frame) /\ DOMAIN <<>> = {} /\ handed = handed \o <<>> /\ up = up \o <<>>
    BY <1>1
<1>6. CASE SimEmit
  <2>1. /\ ticks < MaxTicks /\ up' = up \o Out /\ handed' = handed \o Out
        /\ seq' = (seq + Len(Out)) % SeqSpace
        /\ UNCHANGED <<others, faults, boot, wm, acking, down>>
      BY <1>6 DEF SimEmit, stationVars, Out
  <2>2. Out \in Seq(Frame) /\ \A i \in DOMAIN Out : Out[i].seq = Numbered(i)
    <3>1. AllBefore(ToSet(backlog), Now) /\ Sorted(backlog)
      <4>1. AllBefore(Taken(ticks), Now)
          BY Tick DEF TypeOK
      <4>2. ToSet(backlog) \subseteq Taken(ticks)
          BY Spread DEF PlaceInv, Partition
      <4> QED BY <4>1, <4>2 DEF AllBefore, PlaceInv
    <3> QED BY <2>1, <3>1, Emission
  <2> HIDE DEF Out
  <2>3. Len(Out) \in Nat /\ Sent' = Sent + Len(Out)
    <3>1. Len(handed') = Len(handed) + Len(Out) /\ Len(handed) \in Nat /\ Len(Out) \in Nat
        BY <1>1, <2>1, <2>2
    <3> QED BY <1>1, <2>1, <3>1 DEF Sent
  <2>4. SettledInv'
    <3>1. \A i \in DOMAIN Out : \E j \in DOMAIN Out : Out[j] = Out[i]
        OBVIOUS
    <3> QED BY <1>1, <2>1, <2>2, <3>1, MadeSettled
  <2>5. Issues(Out, Len(Out))
      BY <2>1, <2>2, <2>3 DEF Issues
  <2>6. ASSUME Early, Sent' <= SeqSpace PROVE Numbering'
      BY <1>2, <2>3, <2>5, <2>6, Issued
  <2>7. Sent' >= Sent
      BY <1>1, <2>3
  <2> QED BY <1>4, <2>1, <2>4, <2>6, <2>7
<1>7. CASE BoardEmit
  <2> DEFINE f == Telemetry(Due, 1, FALSE, FALSE)
             q == IF up' = up THEN <<>> ELSE <<f>>
  <2>1. /\ ticks < MaxTicks /\ handed' = Append(handed, f) /\ seq' = (seq + 1) % SeqSpace
        /\ \/ up' = Append(up, f)
           \/ up' = up /\ gone' = gone \cup Why(ToSet(Due), "refused")
        /\ UNCHANGED <<others, faults, boot, wm, acking, down>>
      BY <1>7 DEF BoardEmit, stationVars
  <2>2. f \in Frame /\ f.seq = Numbered(1) /\ f.samples = Due
    <3>1. Due \in Seq(Sample)
        BY <2>1, DueIsNow
    <3>2. \A n \in Int : /\ Telemetry(Due, n, FALSE, FALSE) \in Frame
                         /\ Telemetry(Due, n, FALSE, FALSE).seq = Numbered(n)
                         /\ Telemetry(Due, n, FALSE, FALSE).samples = Due
        BY <3>1, TelemetryType
    <3>3. 1 \in Int
        OBVIOUS
    <3> QED BY <3>2, <3>3, Zenon
  <2> HIDE DEF f
  <2>3. /\ <<f>> \in Seq(Frame) /\ DOMAIN <<f>> = {1} /\ <<f>>[1] = f /\ Len(<<f>>) = 1
        /\ handed' = handed \o <<f>> /\ Append(up, f) = up \o <<f>>
      BY <1>1, <2>1, <2>2
  <2>4. Sent' = Sent + 1
    <3>1. Len(handed') = Len(handed) + 1 /\ Len(handed) \in Nat
        BY <1>1, <2>1
    <3> QED BY <1>1, <2>1, <3>1 DEF Sent
  <2>5. q \in Seq(Frame) /\ (Len(q) = 1 \/ q = <<>>) /\ up' = up \o q
        /\ \A i \in DOMAIN q : q[i].seq = Numbered(i)
    <3>1. CASE up' = up
        BY <1>5, <3>1
    <3>2. CASE up' # up
      <4>1. q = <<f>>
          BY <3>2
      <4> HIDE DEF q
      <4> QED BY <2>1, <2>2, <2>3, <3>2, <4>1
    <3> QED BY <3>1, <3>2
  <2>6. \A i \in DOMAIN <<f>> : \/ \E j \in DOMAIN q : q[j] = <<f>>[i]
                                \/ ToSet(<<f>>[i].samples) \subseteq Rows' \cup Gone'
    <3>1. CASE up' = up
      <4>1. up' # Append(up, f)
          BY <1>1, <2>2, <3>1
      <4>2. Gone' = Gone \cup ToSet(Due)
          BY <2>1, <4>1, Discarded DEF Gone
      <4>3. ToSet(f.samples) \subseteq Gone'
          BY <2>2, <4>2
      <4> QED BY <2>3, <4>3
    <3>2. CASE up' # up
        BY <2>3, <3>2
    <3> QED BY <3>1, <3>2
  <2> HIDE DEF q
  <2>7. SettledInv'
      BY <1>1, <2>3, <2>5, <2>6, MadeSettled
  <2>8. Issues(q, 1)
      BY <2>1, <2>4, <2>5 DEF Issues
  <2>9. ASSUME Early, Sent' <= SeqSpace PROVE Numbering'
      BY <1>2, <2>4, <2>8, <2>9, Issued
  <2>10. Sent' >= Sent
      BY <1>1, <2>4
  <2> QED BY <1>4, <2>1, <2>7, <2>9, <2>10
<1>8. CASE StoreErase \/ SendOther \/ \E chans \in SUBSET Channel \ {{}} : Announce(chans)
  <2>1. \E f \in Frame : f.seq = Numbered(1) /\ up' = Append(up, f)
    <3>1. CASE StoreErase \/ SendOther
        BY <3>1, OtherType DEF StoreErase, SendOther
    <3>2. ASSUME NEW chans \in SUBSET Channel, Announce(chans)
          PROVE  up' = Append(up, Hello(chans))
        BY <3>2 DEF Announce
    <3> QED BY <1>8, <3>1, <3>2, HelloType
  <2>2. /\ seq' = (seq + 1) % SeqSpace /\ UNCHANGED <<handed, boot, wm, acking, down>>
        /\ \/ others' = others + 1 /\ faults' = faults
           \/ others' = others /\ faults' = faults + 1
      BY <1>8 DEF StoreErase, SendOther, Announce, stationVars
  <2>3. PICK f \in Frame : f.seq = Numbered(1) /\ up' = Append(up, f)
      BY <2>1
  <2>4. /\ <<f>> \in Seq(Frame) /\ DOMAIN <<f>> = {1} /\ <<f>>[1] = f /\ Len(<<f>>) = 1
        /\ up' = up \o <<f>>
    <3>1. Append(up, f) = up \o <<f>>
        BY <1>1, f \in Frame
    <3>2. <<f>> \in Seq(Frame)
        BY f \in Frame
    <3>3. DOMAIN <<f>> = {1} /\ <<f>>[1] = f /\ Len(<<f>>) = 1
        OBVIOUS
    <3> QED BY <2>3, <3>1, <3>2, <3>3
  <2>5. Sent' = Sent + 1
    <3>1. Len(handed') = Len(handed) /\ Len(handed) \in Nat
        BY <1>1, <2>2
    <3> QED BY SMTT(30), <1>1, <2>2, <3>1 DEF Sent
  <2>6. SettledInv'
      BY <1>1, <1>5, <2>2, <2>4, MadeSettled
  <2>7. Issues(<<f>>, 1)
      BY <2>2, <2>3, <2>4, <2>5 DEF Issues
  <2>8. ASSUME Early, Sent' <= SeqSpace PROVE Numbering'
      BY <1>2, <2>5, <2>7, <2>8, Issued
  <2>9. Sent' >= Sent
      BY <1>1, <2>5
  <2> QED BY <1>4, <2>2, <2>6, <2>8, <2>9
<1>9. CASE BoardReset
  <2>1. boot' >= 2 /\ handed' = handed
      BY <1>1, <1>9 DEF BoardReset
  <2>2. PICK sentOut \in 0 .. Len(up) :
            /\ up' = SubSeq(up, 1, sentOut)
            /\ gone' = gone \cup
                  Why(UNION {ToSet(up[i].samples) : i \in sentOut + 1 .. Len(up)}, "refused")
      BY <1>9 DEF BoardReset
  <2> DEFINE C == UNION {ToSet(up[i].samples) : i \in sentOut + 1 .. Len(up)}
  <2>3. /\ DOMAIN up' = 1 .. sentOut /\ DOMAIN up = 1 .. Len(up) /\ Len(up) \in Nat
        /\ \A i \in DOMAIN up' : up'[i] = up[i]
      BY <1>1, <2>2
  <2>4. Gone' = Gone \cup C
      BY <2>2, Discarded DEF Gone
  <2>5. \A i \in DOMAIN up : \/ \E j \in DOMAIN up' : up'[j] = up[i]
                             \/ ToSet(up[i].samples) \subseteq Rows' \cup Gone'
    <3> SUFFICES ASSUME NEW i \in DOMAIN up
                 PROVE  \/ \E j \in DOMAIN up' : up'[j] = up[i]
                        \/ ToSet(up[i].samples) \subseteq Rows' \cup Gone'
        OBVIOUS
    <3>1. CASE i \in 1 .. sentOut
        BY <2>3, <3>1
    <3>2. CASE i \in sentOut + 1 .. Len(up)
      <4>1. ToSet(up[i].samples) \subseteq C
          BY <3>2
      <4> HIDE DEF C
      <4> QED BY <2>4, <4>1
    <3> QED BY <2>3, <3>1, <3>2
  <2>6. SettledInv'
      BY <1>1, <2>1, <2>5, OnlyGrow, StillSettled
  <2>7. boot' \in Nat /\ boot' >= 1 /\ ~(boot' = 1)
    <3>1. boot' = boot + 1
        BY <1>9 DEF BoardReset
    <3> QED BY <1>1, <3>1
  <2> QED BY <2>6, <2>7 DEF DurableInv
<1>10. CASE Corrupt \/ OnTelemetry \/ OnHello \/ OnOther
  <2>1. /\ up # <<>> /\ up' = Tail(up) /\ UNCHANGED <<handed, boot, seq, down, others>>
        /\ faults' = faults \/ faults' = faults + 1
      BY <1>10 DEF Corrupt, OnTelemetry, OnHello, OnOther, nodeVars
  <2>2. Sent' >= Sent /\ Sent' \in Int
      BY <1>1, <2>1 DEF Sent
  <2>3. Head(up) \in WellFormed /\ Head(up) \in Frame
      BY <1>1, <2>1 DEF PlaceInv
  <2> DEFINE H == ToSet(Head(up).samples)
  <2>4. H \subseteq Rows' \cup Gone'
    <3>1. CASE Corrupt
      <4>1. gone' = gone \cup Why(H, "corrupted")
          BY <3>1 DEF Corrupt
      <4> QED BY <4>1, Discarded DEF Gone
    <3>2. CASE OnTelemetry
      <4> DEFINE kept == {s \in H : Convertible(s)}
                 unknown == {s \in H : ~Convertible(s)}
      <4>1. gone' = gone \cup Why(unknown, "unknown") /\ table' = Append(table, kept)
          BY <3>2 DEF OnTelemetry
      <4>2. H = kept \cup unknown
          OBVIOUS
      <4> HIDE DEF kept, unknown, H
      <4>3. Gone' = Gone \cup unknown /\ Rows' = Rows \cup kept
          BY <4>1, Discarded, Inserted DEF Gone
      <4> QED BY <4>2, <4>3
    <3>3. CASE OnHello \/ OnOther
      <4>1. Head(up).samples = <<>>
          BY <2>3, <3>3 DEF WellFormed, OnHello, OnOther
      <4> QED BY <4>1 DEF ToSet
    <3> QED BY <1>10, <3>1, <3>2, <3>3
  <2> HIDE DEF H
  <2>5. SettledInv'
      BY <1>1, <2>1, <2>4, TakenSettled DEF H
  <2>6. ASSUME Early, Sent' <= SeqSpace PROVE Numbering'
    <3>1. (wm' = wm /\ acking' = acking) \/ (wm' = Head(up).seq /\ acking' = wm')
      <4>1. CASE OnTelemetry
        <5>1. wm < Head(up).seq
          <6>1. 1 \in DOMAIN up /\ Head(up) = up[1]
              BY <1>1, <2>1
          <6> QED BY <1>2, <2>6, <6>1 DEF Numbering
        <5>2. Head(up).seq \in Int
          <6>1. SeqNo \subseteq Int
              BY <1>1 DEF SeqNo
          <6> QED BY <2>3, <6>1 DEF Frame
        <5>3. wm' = Raise(wm, Head(up).seq) /\ acking' = wm'
            BY <4>1 DEF OnTelemetry
        <5> QED BY <1>1, <5>1, <5>2, <5>3 DEF Raise
      <4>2. CASE Corrupt \/ OnHello \/ OnOther
          BY <4>2 DEF Corrupt, OnHello, OnOther, stationVars
      <4> QED BY <1>10, <4>1, <4>2
    <3>2. up # <<>> /\ up' = Tail(up) /\ seq' = seq /\ down' = down
        BY <2>1
    <3>3. Numbering
        BY <1>2, <2>6
    <3> HIDE DEF H
    <3> QED BY <2>2, <3>1, <3>2, <3>3, TakenNumbers
  <2> QED BY <1>4, <2>1, <2>2, <2>5, <2>6
<1>11. CASE GatewayRestart
  <2>1. /\ up' = <<>> /\ acking' = None /\ gone' = gone \cup Why(InUp, "corrupted")
        /\ UNCHANGED <<handed, boot, seq, down, others, wm>> /\ faults' = faults + 1
      BY <1>11 DEF GatewayRestart, nodeVars
  <2>2. Sent' >= Sent
      BY <1>1, <2>1 DEF Sent
  <2>3. Gone' = Gone \cup InUp
      BY <2>1, Discarded DEF Gone
  <2>4. \A i \in DOMAIN up : ToSet(up[i].samples) \subseteq Rows' \cup Gone'
    <3>1. \A i \in DOMAIN up : ToSet(up[i].samples) \subseteq InUp
        BY DEF InUp
    <3> QED BY <2>3, <3>1
  <2>5. SettledInv'
      BY <1>1, <2>1, <2>4, OnlyGrow, StillSettled
  <2>6. ASSUME Early, Sent' <= SeqSpace PROVE Numbering'
      BY <1>2, <1>3, <2>1, <2>2, <2>6, QuietNumbers
  <2> QED BY <1>4, <2>1, <2>2, <2>5, <2>6
<1>12. CASE SimBuffer \/ LinkDrop \/ LinkRestore \/ OnTelemAck \/ SendTelemAck \/ UNCHANGED vars
  <2>1. /\ UNCHANGED <<handed, boot, seq, others, wm, up>> /\ faults' \in {faults, faults + 1}
        /\ acking' \in {acking, None}
        /\ down' = down \/ (down # <<>> /\ down' = Tail(down)) \/ down' = Append(down, acking)
      BY <1>12 DEF SimBuffer, LinkDrop, LinkRestore, OnTelemAck, SendTelemAck, vars, nodeVars, stationVars
  <2>2. Sent' >= Sent
      BY <1>1, <2>1 DEF Sent
  <2>3. SettledInv'
      BY <1>1, <2>1, OnlyGrow, StillSettled
  <2>4. ASSUME Early, Sent' <= SeqSpace PROVE Numbering'
      BY <1>2, <1>3, <2>1, <2>2, <2>4, QuietNumbers
  <2> QED BY <1>4, <2>1, <2>2, <2>3, <2>4
<1> QED BY <1>6, <1>7, <1>8, <1>9, <1>10, <1>11, <1>12
    DEF Next, sampling, pump, Fault

\* Before the counter wraps, and until the node resets, a TELEM_ACK of s is a promise:
\* every frame numbered up to s is settled.
LEMMA DurableMeans == TypeOK /\ DurableInv => FirstBootAckIsDurable
<1> SUFFICES ASSUME TypeOK, DurableInv, boot = 1, Sent <= SeqSpace,
                    NEW i \in DOMAIN down, NEW k \in DOMAIN handed, handed[k].seq <= down[i]
             PROVE  ToSet(handed[k].samples) \subseteq Rows \cup Gone
    BY DEF FirstBootAckIsDurable, Sent
<1>1. \A x \in SeqNo \cup {None} : x \in Int
    BY BoundsAssumption DEF SeqNo, None
<1>2. down[i] \in Int /\ wm \in Int /\ handed[k].seq \in Int
  <2>1. down[i] \in SeqNo /\ wm \in SeqNo \cup {None} /\ handed[k] \in Frame
      BY DEF TypeOK
  <2> QED BY <1>1, <2>1 DEF Frame
<1>3. handed[k].seq <= wm
    BY <1>2 DEF DurableInv, Numbering
<1>4. ASSUME NEW j \in DOMAIN up, up[j] = handed[k] PROVE FALSE
    BY <1>2, <1>3, <1>4 DEF DurableInv, Numbering
<1> QED BY <1>4 DEF DurableInv, SettledInv

THEOREM Durable == Spec => []FirstBootAckIsDurable
<1>1. Init => TypeOK /\ PlaceInv /\ DurableInv
    BY InitTypeOK, InitPlace, InitDurable
<1>2. TypeOK /\ PlaceInv /\ DurableInv /\ [Next]_vars => (TypeOK /\ PlaceInv /\ DurableInv)'
    BY NextTypeOK, NextPlace, NextDurable
<1> QED BY <1>1, <1>2, DurableMeans, PTL DEF Spec
=============================================================================
