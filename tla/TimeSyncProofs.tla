--------------------------- MODULE TimeSyncProofs ---------------------------
(***************************************************************************)
(* Whatever the resolution and the wrap of the clock of a node, the period *)
(* of the loop and the faults, a date made with an offset of the right era *)
(* is wrong by no more than its exchange explains.                         *)
(*                                                                         *)
(* Milliseconds are turned into ticks by Ms, which is hidden but for its   *)
(* few laws, so that the provers see linear arithmetic only.               *)
(***************************************************************************)
EXTENDS TimeSync, TLAPS

LEMMA Sizes ==
    /\ Res \in Nat /\ Res > 0 /\ Wrap \in Nat /\ Wrap > 0 /\ Period \in Nat
    /\ MaxTime \in Nat /\ MaxTime > 0 /\ MaxFlight \in Nat /\ Prompt \in Nat /\ Faults \in Nat
BY TimeSyncAssumption

LEMMA MsLaws ==
    /\ \A t \in Int : Ms(t) \in Int
    /\ \A t \in Nat : Ms(t) \in Nat
    /\ Ms(0) = 0
    /\ \A s, t \in Int : Ms(t) - Ms(s) = (t - s) * Res
    /\ \A t \in Int : 2 * t * Res = 2 * Ms(t)
    /\ \A s, t \in Int : Ms(s + t) = Ms(s) + Ms(t)
    /\ Ms(Wrap) = Res * Wrap /\ Ms(Wrap) \in Nat /\ Ms(Wrap) > 0
<1>1. \A t \in Int : t * Res \in Int
    BY Sizes
<1>2. \A t \in Nat : t * Res \in Nat
    BY Sizes
<1>3. \A s, t \in Int : t * Res - s * Res = (t - s) * Res
    BY Sizes
<1>4. \A t \in Int : 2 * t * Res = 2 * (t * Res)
    BY Sizes
<1>5. \A s, t \in Int : (s + t) * Res = s * Res + t * Res
    BY Sizes
<1>6. Wrap * Res = Res * Wrap /\ Wrap * Res > 0 /\ 0 * Res = 0
    BY Sizes
<1> QED BY <1>1, <1>2, <1>3, <1>4, <1>5, <1>6, Sizes DEF Ms

LEMMA DivMod ==
    ASSUME NEW R \in Nat, R > 0, NEW q \in Int, NEW r \in 0 .. R - 1
    PROVE  /\ (R * q + r) \div R = q
           /\ (R * q + r) % R = r
OBVIOUS

LEMMA Divides ==
    ASSUME NEW R \in Nat, R > 0, NEW i \in Nat
    PROVE  /\ i \div R \in Nat /\ i % R \in 0 .. R - 1
           /\ i \div R <= i
           /\ i = R * (i \div R) + (i % R)
<1>1. i \div R \in Nat /\ i % R \in 0 .. R - 1
    OBVIOUS
<1>2. i \div R <= i
    OBVIOUS
<1>3. i % R = i - (i \div R) * R
    OBVIOUS
<1>4. (i \div R) * R = R * (i \div R) /\ R * (i \div R) \in Int
    BY <1>1
<1> QED BY <1>1, <1>2, <1>3, <1>4

\* What is less than a product has its quotient below the other factor.
\* Quotient and rest, as two numbers with no more to know about them.
LEMMA Division ==
    ASSUME NEW R \in Nat, R > 0, NEW i \in Nat
    PROVE  \E q \in Nat, r \in 0 .. R - 1 :
              i = R * q + r /\ i \div R = q /\ i % R = r /\ q <= i
BY Divides

LEMMA Commutes == \A a, b \in Int : a * b = b * a /\ a * b \in Int
OBVIOUS

LEMMA Distributes == \A a, b, c \in Int : a * (b + c) = a * b + a * c
OBVIOUS

LEMMA Associates == \A a, b, c \in Int : a * (b * c) = (a * b) * c
OBVIOUS

LEMMA Grows == \A R, a, b \in Nat : a >= b => R * a >= R * b
OBVIOUS

-----------------------------------------------------------------------------
(* The uptime a node stamps with is what the clock of the present era      *)
(* shows.                                                                  *)

LEMMA UptimeReads ==
    ASSUME TypeOK, NEW starts \in Starts, ErasInv(starts)
    PROVE  Uptime \in 0 .. now /\ Reads(starts[era], Uptime, now)
<1>1. /\ now \in Nat /\ born \in Nat /\ born <= now /\ era \in Nat
      /\ starts[era] \in Nat /\ starts[era] <= now
      /\ kind \in {"board", "sim"}
    BY Sizes DEF TypeOK, Hours, Starts
<1>2. PICK d \in Nat : d = now - starts[era]
    BY <1>1
<1>3. PICK q \in Nat, r \in 0 .. Res - 1 :
          d = Res * q + r /\ d \div Res = q /\ d % Res = r /\ q <= d
    BY Division, Sizes
<1>4. Ms(q) = Res * q /\ Ms(q) \in Int
    BY Commutes, Sizes DEF Ms
<1>5. Uptime = q
  <2>1. CASE kind = "sim"
    <3>1. born = starts[era]
        BY <2>1 DEF ErasInv
    <3> QED BY <1>2, <1>3, <2>1, <3>1 DEF Uptime
  <2>2. CASE kind = "board"
    <3>1. PICK laps \in 0 .. now : starts[era] = born + laps * Ms(Wrap)
        BY <2>2 DEF ErasInv
    <3>2. d < Res * Wrap
        BY <1>2, <2>2, MsLaws DEF ErasInv
    <3>3. q < Wrap
      <4>1. Res * q < Res * Wrap
        <5>1. Res * q \in Int /\ Res * Wrap \in Int /\ r \in Nat /\ d = Res * q + r
            BY <1>3, Commutes, Sizes
        <5> QED BY <3>2, <5>1
      <4>2. Res * q \in Int /\ Res * Wrap \in Int
          BY Commutes, Sizes
      <4>3. q >= Wrap => Res * q >= Res * Wrap
          BY Grows, Sizes
      <4> QED BY <4>1, <4>2, <4>3, Sizes
    <3>4. PICK n \in Int : n = Wrap * laps
        BY <1>1, Commutes, Sizes
    <3>5. laps * Ms(Wrap) = Res * n
        BY <1>1, <3>4, MsLaws, Commutes, Associates, Sizes
    <3>6. Res * (n + q) = Res * n + Res * q /\ Res * n \in Int
        BY <1>1, Distributes, Commutes, Sizes
    <3>7. now - born = Res * (n + q) + r
        BY <1>1, <1>2, <1>3, <1>4, <3>1, <3>5, <3>6
    <3>8. (now - born) \div Res = Wrap * laps + q
        BY <3>4, <3>7, DivMod, Sizes
    <3>9. (Wrap * laps + q) % Wrap = q
        BY <1>1, <3>3, DivMod, Sizes
    <3> QED BY <2>2, <3>8, <3>9 DEF Uptime
  <2> QED BY <1>1, <2>1, <2>2
<1>6. starts[era] + Ms(q) <= now /\ now < starts[era] + Ms(q) + Res
    BY <1>1, <1>2, <1>3, <1>4, Sizes
<1>7. q <= now
    BY <1>1, <1>2, <1>3
<1> QED BY <1>1, <1>5, <1>6, <1>7 DEF Reads

-----------------------------------------------------------------------------
(* Types.                                                                  *)

LEMMA Typed ==
    ASSUME TypeOK
    PROVE  /\ now \in Nat /\ now <= MaxTime /\ now \in Hours /\ 0 .. now \subseteq Hours
           /\ born \in Nat /\ era \in Nat /\ era \in 0 .. era /\ None \in Int
           /\ \A f \in FrameType : /\ f.t1 \in Int /\ f.t2 \in Nat /\ f.t3 \in Int
                                   /\ f.made \in Nat /\ f.era \in Nat
BY SMTT(30), Sizes DEF TypeOK, Hours, FrameType, None

LEMMA HeadAndTail ==
    ASSUME NEW S, NEW s \in Seq(S), s # <<>>
    PROVE  /\ Len(s) \in Nat /\ Len(s) >= 1 /\ 1 \in 1 .. Len(s)
           /\ Head(s) = s[1] /\ Head(s) \in S
           /\ Tail(s) \in Seq(S) /\ Len(Tail(s)) = Len(s) - 1
           /\ \A i \in 1 .. Len(Tail(s)) : i + 1 \in 1 .. Len(s) /\ Tail(s)[i] = s[i + 1]
OBVIOUS

LEMMA Appended ==
    ASSUME NEW S, NEW s \in Seq(S), NEW e \in S
    PROVE  /\ Append(s, e) \in Seq(S) /\ Len(Append(s, e)) = Len(s) + 1 /\ Len(s) \in Nat
           /\ \A i \in 1 .. Len(Append(s, e)) :
                 \/ i \in 1 .. Len(s) /\ Append(s, e)[i] = s[i]
                 \/ Append(s, e)[i] = e
OBVIOUS

LEMMA RttTyped ==
    ASSUME NEW t1 \in Int, NEW t2 \in Int, NEW t3 \in Int, NEW t4 \in Int
    PROVE  /\ Rtt(t1, t2, t3, t4) \in Nat
           /\ Rtt(t1, t2, t3, t4) >= (t4 - t1) - (Ms(t3) - Ms(t2))
           /\ t4 - t1 <= Ms(t3) - Ms(t2) => Rtt(t1, t2, t3, t4) = 0
<1>1. (t3 - t2) * Res = Ms(t3) - Ms(t2) /\ Ms(t3) \in Int /\ Ms(t2) \in Int
    BY MsLaws
<1> QED BY <1>1 DEF Rtt, Larger

LEMMA RecordedTyped ==
    ASSUME TypeOK, NEW f \in FrameType, NEW t1 \in Int, NEW slack2 \in Nat
    PROVE  /\ Recorded(f, t1, slack2).value2 \in Int
           /\ Recorded(f, t1, slack2).value2 =
                2 * t1 + Rtt(t1, f.t2, f.t3, now) - 2 * Ms(f.t2)
           /\ Recorded(f, t1, slack2).rtt \in Nat
           /\ Recorded(f, t1, slack2).era = f.era
           /\ Recorded(f, t1, slack2).slack2 = slack2
<1>1. f.t2 \in Int /\ f.t3 \in Int /\ now \in Int
    BY Typed
<1>2. Rtt(t1, f.t2, f.t3, now) \in Nat
    BY <1>1, RttTyped
<1>3. 2 * f.t2 * Res = 2 * Ms(f.t2) /\ Ms(f.t2) \in Int
    BY <1>1, MsLaws
<1> QED BY <1>1, <1>2, <1>3 DEF Recorded, Offset2

LEMMA FramesTyped ==
    ASSUME TypeOK, Uptime \in 0 .. now
    PROVE  /\ Hello \in FrameType /\ Stamped \in FrameType
           /\ answering # NotAnswering =>
                Frame("reply", answering.t1, answering.t2, Uptime, answering.era) \in FrameType
<1>1. now \in Hours /\ Uptime \in Hours /\ era \in Nat
    BY Typed
<1>2. \A t \in {"hello", "stamped", "reply"}, t1 \in Hours \cup {None}, t2 \in Hours,
          t3 \in Hours \cup {None}, e \in Nat : Frame(t, t1, t2, t3, e) \in FrameType
    BY <1>1 DEF Frame, FrameType
<1>3. answering # NotAnswering => answering.t1 \in Hours /\ answering.t2 \in Hours /\ answering.era \in Nat
    BY Typed DEF TypeOK
<1> QED BY <1>1, <1>2, <1>3 DEF Hello, Stamped

LEMMA InitTyped == Init => TypeOK
<1> SUFFICES ASSUME Init PROVE TypeOK
    OBVIOUS
<1>1. /\ up \in Seq(FrameType) /\ down \in Seq(0 .. now)
      /\ Len(up) = 0 /\ Len(down) = 0
    BY DEF Init
<1>2. InFlight <= MaxFlight
    BY <1>1, Sizes DEF Init, InFlight, NotAnswering
<1>3. /\ now \in Hours /\ born \in 0 .. now /\ era \in Nat /\ calm \in 0 .. now
      /\ faults \in 0 .. Faults /\ wake \in Nat
    BY Sizes DEF Init, Hours
<1>4. offset.value2 \in Int /\ offset.slack2 \in Nat
    BY DEF Init, NoOffset
<1> QED BY <1>1, <1>2, <1>3, <1>4 DEF Init, TypeOK

LEMMA NodeTypes ==
    ASSUME TypeOK, Uptime \in 0 .. now,
           \/ SendStamped \/ SendHello \/ ReceiveAsk \/ Answer \/ SimReboot \/ BoardReset
           \/ LoseUp \/ LoseDown
    PROVE  TypeOK'
<1> USE Typed
<1>1. Len(up) \in Nat /\ Len(down) \in Nat /\ up \in Seq(FrameType) /\ down \in Seq(0 .. now)
    BY DEF TypeOK
<1>2. ASSUME NEW f \in FrameType, InFlight < MaxFlight, Say(f),
             UNCHANGED <<now, node, down, gateway, calm, faults>>
      PROVE  TypeOK'
  <2>1. up' \in Seq(FrameType) /\ Len(up') = Len(up) + 1
      BY <1>1, <1>2, Appended DEF Say
  <2>2. InFlight' <= MaxFlight
      BY <1>1, <1>2, <2>1, Sizes DEF InFlight, node
  <2> QED BY <1>2, <2>1, <2>2 DEF TypeOK, node, gateway
<1>3. CASE SendStamped
    BY <1>2, <1>3, FramesTyped DEF SendStamped
<1>4. CASE SendHello
    BY <1>2, <1>4, FramesTyped DEF SendHello
<1>5. CASE ReceiveAsk
  <2>1. /\ Head(down) \in 0 .. now /\ down' \in Seq(0 .. now) /\ Len(down') = Len(down) - 1
      BY <1>1, <1>5, HeadAndTail DEF ReceiveAsk
  <2>2. answering' \in [t1 : 0 .. now, t2 : Hours, era : 0 .. era]
      BY <1>5, <2>1 DEF ReceiveAsk
  <2>3. answering'.t1 # None /\ answering.t1 = None
      BY <1>5, <2>1 DEF ReceiveAsk, NotAnswering, None
  <2>4. InFlight' <= MaxFlight
      BY <1>1, <1>5, <2>1, <2>3, Sizes DEF InFlight, ReceiveAsk, TypeOK
  <2> QED BY <1>5, <2>1, <2>2, <2>4 DEF ReceiveAsk, TypeOK, gateway
<1>6. CASE Answer
  <2>1. up' \in Seq(FrameType) /\ Len(up') = Len(up) + 1
      BY <1>1, <1>6, FramesTyped, Appended DEF Answer, Say
  <2>2. answering.t1 # None /\ answering'.t1 = None
      BY <1>6 DEF Answer, TypeOK, NotAnswering, None
  <2>3. InFlight' <= MaxFlight
      BY <1>1, <1>6, <2>1, <2>2, Sizes DEF InFlight, Answer, TypeOK
  <2> QED BY <1>6, <2>1, <2>3 DEF Answer, TypeOK, gateway
<1>7. CASE SimReboot
  <2> DEFINE f == Frame("stamped", None, 0, None, era + 1)
             g == Frame("hello", None, 0, 0, era + 1)
  <2>1. f \in FrameType /\ g \in FrameType
      BY Sizes DEF Frame, FrameType, Hours
  <2>2. era' = era + 1 /\ born' = now /\ calm' = now /\ faults' \in 0 .. Faults
      BY <1>7, Sizes DEF SimReboot, Restarted, Disturbed, TypeOK
  <2>3. up' = up \o <<f, g>>
      BY <1>7, <2>2 DEF SimReboot, Frame
  <2> HIDE DEF f, g
  <2>4. <<f, g>> \in Seq(FrameType) /\ Len(<<f, g>>) = 2
      BY <2>1
  <2>5. up' \in Seq(FrameType) /\ Len(up') = Len(up) + 2
      BY <1>1, <2>3, <2>4
  <2>6. InFlight' <= MaxFlight
      BY <1>1, <1>7, <2>5, Sizes DEF InFlight, SimReboot, NotAnswering
  <2>7. 0 .. era \subseteq 0 .. era + 1
      OBVIOUS
  <2> QED BY SMTT(30), <1>7, <2>2, <2>5, <2>6, <2>7 DEF SimReboot, TypeOK, gateway
<1>8. CASE BoardReset
  <2>1. era' = era + 1 /\ born' = now /\ calm' = now /\ faults' \in 0 .. Faults
      BY <1>8, Sizes DEF BoardReset, Restarted, Disturbed, TypeOK
  <2>2. PICK n \in 0 .. Len(up) : up' = SubSeq(up, 1, n)
      BY <1>8 DEF BoardReset
  <2>3. up' \in Seq(FrameType) /\ Len(up') = n
      BY <1>1, <2>2
  <2>4. InFlight' <= MaxFlight
      BY SMTT(30), <1>1, <1>8, <2>3, Sizes DEF InFlight, BoardReset, NotAnswering, TypeOK
  <2>5. 0 .. era \subseteq 0 .. era + 1
      OBVIOUS
  <2> QED BY SMTT(30), <1>8, <2>1, <2>3, <2>4, <2>5 DEF BoardReset, TypeOK, gateway
<1>9. CASE LoseUp
  <2>1. up' \in Seq(FrameType) /\ Len(up') = Len(up) - 1
      BY <1>1, <1>9, HeadAndTail DEF LoseUp
  <2>2. calm' = now /\ faults' \in 0 .. Faults
      BY <1>9, Sizes DEF LoseUp, Disturbed, TypeOK
  <2>3. InFlight' <= MaxFlight
      BY <1>1, <1>9, <2>1, Sizes DEF InFlight, LoseUp, node, TypeOK
  <2> QED BY <1>9, <2>1, <2>2, <2>3 DEF LoseUp, TypeOK, node, gateway
<1>10. CASE LoseDown
  <2>1. down' \in Seq(0 .. now) /\ Len(down') = Len(down) - 1
      BY <1>1, <1>10, HeadAndTail DEF LoseDown
  <2>2. calm' = now /\ faults' \in 0 .. Faults
      BY <1>10, Sizes DEF LoseDown, Disturbed, TypeOK
  <2>3. InFlight' <= MaxFlight
      BY <1>1, <1>10, <2>1, Sizes DEF InFlight, LoseDown, node, TypeOK
  <2> QED BY <1>10, <2>1, <2>2, <2>3 DEF LoseDown, TypeOK, node, gateway
<1> QED BY <1>3, <1>4, <1>5, <1>6, <1>7, <1>8, <1>9, <1>10

LEMMA GatewayTypes ==
    ASSUME TypeOK, NEW starts \in Starts, ClockInv(starts),
           \/ OnHello \/ OnStamped \/ OnReply
           \/ LoopTurn \/ LoopFails \/ GatewayRestart
    PROVE  TypeOK'
<1> USE Typed
<1>1. Len(up) \in Nat /\ Len(down) \in Nat /\ up \in Seq(FrameType) /\ down \in Seq(0 .. now)
    BY DEF TypeOK
<1>2. ASSUME Heard
      PROVE  /\ up' \in Seq(FrameType) /\ InFlight' <= MaxFlight
             /\ Head(up) \in FrameType /\ Head(up).era \in 0 .. era /\ Head(up).made <= now
             /\ linked' \in BOOLEAN
             /\ UNCHANGED <<now, node, down, loop, wake, faults>>
  <2>1. /\ up' \in Seq(FrameType) /\ Len(up') = Len(up) - 1
        /\ Head(up) \in FrameType /\ Head(up) = up[1] /\ 1 \in 1 .. Len(up)
      BY <1>1, <1>2, HeadAndTail DEF Heard
  <2>3. Head(up).era \in 0 .. era /\ Head(up).made <= now
      BY <2>1 DEF ClockInv
  <2>4. InFlight' <= MaxFlight
      BY <1>1, <1>2, <2>1, Sizes DEF InFlight, Heard, node, TypeOK
  <2> QED BY <1>2, <2>1, <2>3, <2>4 DEF Heard
<1>3. CASE OnHello
  <2>1. Heard
      BY <1>3 DEF OnHello
  <2>2. now \in Int /\ 2 * (now - Head(up).made) \in Nat
      BY <1>2, <2>1
  <2>3. /\ offset'.value2 \in Int /\ offset'.slack2 \in Nat
        /\ offset'.rtt \in Nat /\ offset'.era = Head(up).era
      BY SMTT(30), <1>2, <1>3, <2>1, <2>2, RecordedTyped DEF OnHello
  <2>4. calm' \in 0 .. now
      BY <1>3 DEF OnHello, TypeOK
  <2> QED BY <1>2, <1>3, <2>1, <2>3, <2>4 DEF OnHello, TypeOK, node
<1>4. CASE OnStamped
  <2>1. Heard /\ calm' \in 0 .. now
      BY <1>4 DEF OnStamped, TypeOK
  <2> QED BY <1>2, <1>4, <2>1 DEF OnStamped, TypeOK, node
<1>5. CASE OnReply
  <2>1. Heard /\ calm' \in 0 .. now
      BY <1>5 DEF OnReply, TypeOK
  <2>2. CASE Matches(Head(up)) /\ row
    <3>1. pending \in Int /\ Head(up).t2 \in Int /\ Head(up).t3 \in Int /\ now \in Int
        BY SMTT(30), <1>2, <2>1 DEF TypeOK
    <3> DEFINE slack == Rtt(pending, Head(up).t2, Head(up).t3, now)
    <3>2. slack \in Nat
        BY <3>1, RttTyped
    <3>3. offset' = Recorded(Head(up), pending, slack)
        BY <1>5, <2>2 DEF OnReply
    <3> HIDE DEF slack
    <3>4. /\ offset'.value2 \in Int /\ offset'.slack2 \in Nat
          /\ offset'.rtt \in Nat /\ offset'.era = Head(up).era
        BY SMTT(30), <1>2, <2>1, <3>1, <3>2, <3>3, RecordedTyped
    <3> QED BY <1>2, <1>5, <2>1, <2>2, <3>4 DEF OnReply, TypeOK, node
  <2>3. CASE ~(Matches(Head(up)) /\ row)
      BY <1>2, <1>5, <2>1, <2>3 DEF OnReply, TypeOK, node
  <2> QED BY <2>2, <2>3
<1>6. CASE LoopTurn
  <2>1. /\ down' \in Seq(0 .. now) /\ pending' \in (0 .. now) \cup {None}
        /\ InFlight < MaxFlight
        /\ Len(down') = Len(down) + 1 \/ Len(down') = Len(down)
    <3>1. now \in 0 .. now
        OBVIOUS
    <3>2. CASE linked
      <4>1. down' = Append(down, now) /\ pending' = now /\ InFlight < MaxFlight
          BY <1>6, <3>2 DEF LoopTurn
      <4>2. down' \in Seq(0 .. now) /\ Len(down') = Len(down) + 1
          BY <1>1, <3>1, <4>1, Appended
      <4> QED BY <3>1, <4>1, <4>2
    <3>3. CASE ~linked
        BY <1>1, <1>6, <3>3 DEF LoopTurn, TypeOK
    <3> QED BY <3>2, <3>3
  <2>2. wake' \in Nat
      BY <1>6, Sizes DEF LoopTurn, NextTurn
  <2>3. InFlight' <= MaxFlight
      BY <1>1, <1>6, <2>1, Sizes DEF InFlight, LoopTurn, node
  <2> QED BY <1>6, <2>1, <2>2, <2>3 DEF LoopTurn, TypeOK, node
<1>7. CASE LoopFails
  <2>1. calm' = now /\ faults' \in 0 .. Faults /\ pending' \in (0 .. now) \cup {None}
      BY <1>7, Sizes DEF LoopFails, Disturbed, TypeOK
  <2>2. InFlight' = InFlight
      BY <1>7 DEF InFlight, LoopFails, node
  <2> QED BY <1>7, <2>1, <2>2 DEF LoopFails, TypeOK, node
<1>8. CASE GatewayRestart
  <2>1. calm' = now /\ faults' \in 0 .. Faults /\ wake' \in Nat
      BY <1>8, Sizes DEF GatewayRestart, Disturbed, NextTurn, TypeOK
  <2>2. /\ up' \in Seq(FrameType) /\ Len(up') = 0
        /\ down' \in Seq(0 .. now) /\ Len(down') = 0
      BY <1>8 DEF GatewayRestart
  <2>3. InFlight' <= MaxFlight
      BY <1>1, <1>8, <2>2, Sizes DEF InFlight, GatewayRestart, node, TypeOK
  <2>4. /\ loop' = "running" /\ pending' = None /\ linked' = FALSE
        /\ UNCHANGED <<now, node, row, offset>>
      BY <1>8 DEF GatewayRestart
  <2>5. /\ UNCHANGED <<now, born, era, kind, answering, row, offset>>
        /\ calm' \in 0 .. now'
      BY <2>1, <2>4 DEF node
  <2>6. pending' \in (0 .. now') \cup {None} /\ linked' \in BOOLEAN
      BY <2>4
  <2> HIDE <1>8
  <2> QED BY <2>1, <2>2, <2>3, <2>4, <2>5, <2>6 DEF TypeOK
<1> QED BY <1>3, <1>4, <1>5, <1>6, <1>7, <1>8

LEMMA TickTypes == ASSUME TypeOK, Tick PROVE TypeOK'
<1> USE Typed
<1>1. /\ now' = now + 1 /\ now' \in Hours /\ 0 .. now \subseteq 0 .. now'
      /\ era' \in {era, era + 1} /\ calm' \in {calm, now'}
    BY Sizes DEF Tick, Hours
<1>2. era' \in Nat /\ 0 .. era \subseteq 0 .. era' /\ calm' \in 0 .. now'
    BY <1>1 DEF TypeOK
<1>3. down \in Seq(0 .. now')
    BY <1>1 DEF TypeOK
<1>4. answering = NotAnswering \/ answering \in [t1 : 0 .. now', t2 : Hours, era : 0 .. era']
    BY <1>1, <1>2 DEF TypeOK
<1>5. InFlight' = InFlight
    BY DEF Tick, InFlight
<1>6. UNCHANGED <<born, kind, answering, up, down, gateway, faults>>
    BY DEF Tick
<1> QED BY <1>1, <1>2, <1>3, <1>4, <1>5, <1>6 DEF TypeOK, gateway

LEMMA TypeStep ==
    ASSUME TypeOK, NEW starts \in Starts, ClockInv(starts), [Next]_vars
    PROVE  TypeOK'
<1>1. Uptime \in 0 .. now
    BY UptimeReads DEF ClockInv
<1>2. CASE UNCHANGED vars
    BY <1>2 DEF TypeOK, InFlight, vars, node, gateway
<1>3. CASE Next
    BY <1>1, <1>3, NodeTypes, GatewayTypes, TickTypes DEF Next
<1> QED BY <1>2, <1>3

-----------------------------------------------------------------------------
(* Clocks.                                                                 *)

LEMMA FrameKept ==
    ASSUME NEW last \in Nat, NEW old, NEW starts, \A e \in 0 .. last : starts[e] = old[e],
           NEW f \in FrameType, f.era <= last, FrameInv(old, f)
    PROVE  FrameInv(starts, f)
<1>1. f.era \in 0 .. last
    BY DEF FrameType
<1>2. starts[f.era] = old[f.era]
    BY <1>1
<1> QED BY <1>2 DEF FrameInv

\* Nothing that was read off a clock is touched when time goes by or an era ends.
LEMMA EarlierEras ==
    ASSUME TypeOK, NEW old \in Starts, ClockInv(old),
           NEW starts, \A e \in 0 .. era : starts[e] = old[e],
           now' \in Nat, now <= now', era' \in Nat, era <= era'
    PROVE  /\ \A i \in 1 .. Len(up) : up[i].made <= now' /\ up[i].era <= era' /\ FrameInv(starts, up[i])
           /\ UNCHANGED answering => AnsweringInv(starts)'
           /\ UNCHANGED offset => OffsetInv(starts)'
<1> USE Typed
<1>1. ASSUME NEW i \in 1 .. Len(up)
      PROVE  up[i].made <= now' /\ up[i].era <= era' /\ FrameInv(starts, up[i])
  <2>1. up[i] \in FrameType
      BY DEF TypeOK
  <2>2. up[i].made <= now /\ up[i].era <= era /\ FrameInv(old, up[i])
      BY DEF ClockInv
  <2>3. FrameInv(starts, up[i])
      BY <2>1, <2>2, FrameKept
  <2> QED BY <2>1, <2>2, <2>3
<1>2. ASSUME UNCHANGED answering PROVE AnsweringInv(starts)'
  <2> SUFFICES ASSUME answering # NotAnswering
               PROVE  \E h \in answering.t1 .. now' :
                         Reads(starts[answering.era], answering.t2, h)
      BY <1>2 DEF AnsweringInv
  <2>1. answering.era \in 0 .. era /\ answering.t1 \in Nat
      BY SMTT(30) DEF TypeOK
  <2>2. PICK h \in answering.t1 .. now : Reads(old[answering.era], answering.t2, h)
      BY DEF ClockInv, AnsweringInv
  <2>3. h \in answering.t1 .. now' /\ starts[answering.era] = old[answering.era]
      BY <2>1, <2>2
  <2> QED BY <2>2, <2>3
<1>3. ASSUME UNCHANGED offset PROVE OffsetInv(starts)'
  <2>1. offset # NoOffset => offset.era \in 0 .. era
      BY DEF TypeOK
  <2> QED BY <1>3, <2>1 DEF ClockInv, OffsetInv
<1> QED BY <1>1, <1>2, <1>3

\* The clock of the present era goes on.
LEMMA SameClock ==
    ASSUME TypeOK, NEW starts \in Starts, ErasInv(starts), UNCHANGED <<now, born, era, kind>>
    PROVE  starts \in Starts' /\ ErasInv(starts)'
BY DEF Starts, ErasInv

\* A new clock starts now.
LEMMA NewClock ==
    ASSUME TypeOK, NEW old \in Starts, ErasInv(old),
           now' \in Nat, now <= now', era' = era + 1, born' \in Nat, kind' = kind,
           NEW starts, starts = [e \in 0 .. era + 1 |-> IF e = era + 1 THEN now' ELSE old[e]],
           \/ born' = now'
           \/ kind = "board" /\ \E laps \in 0 .. now' : now' = born' + laps * Ms(Wrap)
    PROVE  starts \in Starts' /\ ErasInv(starts)' /\ \A e \in 0 .. era : starts[e] = old[e]
<1> USE Typed
<1>1. old \in [0 .. era -> 0 .. now]
    BY DEF Starts
<1>2. \A e \in 0 .. era : starts[e] = old[e] /\ starts[e] \in 0 .. now
    BY <1>1
<1>3. starts[era + 1] = now' /\ \A e \in 0 .. era + 1 : starts[e] \in 0 .. now'
  <2>1. era + 1 \in 0 .. era + 1 /\ now' \in 0 .. now' /\ 0 .. now \subseteq 0 .. now'
      OBVIOUS
  <2>2. \A e \in 0 .. era + 1 : e = era + 1 \/ e \in 0 .. era
      OBVIOUS
  <2>3. starts[era + 1] = now'
      BY <2>1
  <2> QED BY <1>2, <2>1, <2>2, <2>3
<1>4. starts \in [0 .. era + 1 -> 0 .. now']
    BY <1>3
<1>5. \A e, f \in 0 .. era + 1 : e <= f => starts[e] <= starts[f]
  <2> SUFFICES ASSUME NEW e \in 0 .. era + 1, NEW f \in 0 .. era + 1, e <= f
               PROVE  starts[e] <= starts[f]
      OBVIOUS
  <2>1. CASE f = era + 1
      BY <1>3, <2>1
  <2>2. CASE f # era + 1
    <3>1. e \in 0 .. era /\ f \in 0 .. era
        BY <2>2
    <3> QED BY <1>2, <3>1 DEF ErasInv
  <2> QED BY <2>1, <2>2
<1>6. now' - starts[era + 1] < Ms(Wrap)
  <2>1. Ms(Wrap) \in Nat /\ Ms(Wrap) > 0
      BY MsLaws
  <2>2. \A n \in Nat : n - n < Ms(Wrap)
      BY <2>1
  <2> QED BY <1>3, <2>1, <2>2
<1>7. kind = "sim" => starts[era + 1] = born'
    BY <1>3
<1>8. kind = "board" => \E laps \in 0 .. now' : starts[era + 1] = born' + laps * Ms(Wrap)
  <2>1. CASE born' = now'
    <3>1. Ms(Wrap) \in Int /\ 0 \in 0 .. now'
        BY MsLaws
    <3>2. now' = born' + 0 * Ms(Wrap)
        BY <2>1, <3>1
    <3> QED BY <1>3, <3>1, <3>2
  <2>2. CASE born' # now'
      BY <1>3, <2>2
  <2> QED BY <2>1, <2>2
<1>9. starts \in Starts'
    BY <1>4 DEF Starts
<1>10. ErasInv(starts)'
    BY <1>5, <1>6, <1>7, <1>8 DEF ErasInv
<1> QED BY <1>2, <1>9, <1>10

\* A step within an era: what is new must have been read off its clock.
LEMMA WithinEra ==
    ASSUME TypeOK, NEW starts \in Starts, ClockInv(starts), UNCHANGED <<now, born, era, kind>>,
           \A i \in 1 .. Len(up') :
              up'[i].made <= now /\ up'[i].era <= era /\ FrameInv(starts, up'[i]),
           AnsweringInv(starts)', OffsetInv(starts)'
    PROVE  (\E old \in Starts : ClockInv(old))'
<1>1. starts \in Starts' /\ ErasInv(starts)'
    BY SameClock DEF ClockInv
<1>2. ClockInv(starts)'
    BY <1>1 DEF ClockInv
<1> QED BY <1>1, <1>2

LEMMA Unmoved ==
    ASSUME TypeOK, NEW starts \in Starts, ClockInv(starts), UNCHANGED <<now, born, era, kind>>
    PROVE  /\ \A i \in 1 .. Len(up) :
                 up[i].made <= now /\ up[i].era <= era /\ FrameInv(starts, up[i])
           /\ UNCHANGED answering => AnsweringInv(starts)'
           /\ UNCHANGED offset => OffsetInv(starts)'
BY DEF ClockInv, AnsweringInv, OffsetInv

\* A frame that is said now bears the time of now.
LEMMA FreshFrames ==
    ASSUME TypeOK, NEW starts \in Starts, ClockInv(starts)
    PROVE  /\ FrameInv(starts, Hello) /\ Hello.made = now /\ Hello.era = era
           /\ FrameInv(starts, Stamped) /\ Stamped.made = now /\ Stamped.era = era
           /\ answering # NotAnswering =>
                LET f == Frame("reply", answering.t1, answering.t2, Uptime, answering.era)
                IN  FrameInv(starts, f) /\ f.made = now /\ f.era <= era
<1> USE Typed
<1>1. Uptime \in 0 .. now /\ Reads(starts[era], Uptime, now) /\ ErasInv(starts)
    BY UptimeReads DEF ClockInv
<1>2. FrameInv(starts, Hello) /\ Hello.made = now /\ Hello.era = era
    BY <1>1 DEF FrameInv, Hello, Frame
<1>3. FrameInv(starts, Stamped) /\ Stamped.made = now /\ Stamped.era = era
    BY <1>1 DEF FrameInv, Stamped, Frame
<1>4. ASSUME answering # NotAnswering
      PROVE  LET f == Frame("reply", answering.t1, answering.t2, Uptime, answering.era)
             IN  FrameInv(starts, f) /\ f.made = now /\ f.era <= era
  <2>1. answering.t1 \in 0 .. now /\ answering.t2 \in Nat /\ answering.era \in 0 .. era
      BY <1>4 DEF TypeOK, Hours
  <2>2. \E h \in answering.t1 .. now : Reads(starts[answering.era], answering.t2, h)
      BY <1>4 DEF ClockInv, AnsweringInv
  <2>3. starts[answering.era] <= starts[era] /\ starts[answering.era] \in Nat /\ starts[era] \in Nat
      BY <1>1, <2>1 DEF ErasInv, Starts
  <2>4. Ms(Uptime) \in Nat /\ starts[era] + Ms(Uptime) <= now
      BY <1>1, MsLaws DEF Reads
  <2>5. starts[answering.era] + Ms(Uptime) <= now
      BY <2>3, <2>4
  <2>6. answering.t1 # None /\ Uptime # None
      BY <1>1, <2>1 DEF None
  <2> QED BY <2>1, <2>2, <2>5, <2>6 DEF FrameInv, Frame
<1> QED BY <1>2, <1>3, <1>4

LEMMA NodeClocks ==
    ASSUME TypeOK, NEW starts \in Starts, ClockInv(starts),
           \/ SendStamped \/ SendHello \/ ReceiveAsk \/ Answer
           \/ LoseUp \/ LoseDown \/ LoopTurn \/ LoopFails \/ GatewayRestart
    PROVE  (\E old \in Starts : ClockInv(old))'
<1> USE Typed
<1>1. up \in Seq(FrameType) /\ down \in Seq(0 .. now)
    BY DEF TypeOK
<1>2. Uptime \in 0 .. now /\ Reads(starts[era], Uptime, now)
    BY UptimeReads DEF ClockInv
<1>3. ASSUME NEW f \in FrameType, f.made = now, f.era <= era, FrameInv(starts, f), Say(f)
      PROVE  \A i \in 1 .. Len(up') :
                up'[i].made <= now /\ up'[i].era <= era /\ FrameInv(starts, up'[i])
  <2> SUFFICES ASSUME NEW i \in 1 .. Len(up')
               PROVE  up'[i].made <= now /\ up'[i].era <= era /\ FrameInv(starts, up'[i])
      OBVIOUS
  <2>1. \/ i \in 1 .. Len(up) /\ up'[i] = up[i]
        \/ up'[i] = f
      BY <1>1, <1>3, Appended DEF Say
  <2> QED BY <1>3, <2>1 DEF ClockInv
<1>4. CASE SendStamped
    BY <1>2, <1>3, <1>4, FreshFrames, FramesTyped, Unmoved, WithinEra DEF SendStamped, node, gateway
<1>5. CASE SendHello
    BY <1>2, <1>3, <1>5, FreshFrames, FramesTyped, Unmoved, WithinEra DEF SendHello, node, gateway
<1>6. CASE ReceiveAsk
  <2>1. Head(down) \in 0 .. now
      BY <1>1, <1>6, HeadAndTail DEF ReceiveAsk
  <2>2. answering' = [t1 |-> Head(down), t2 |-> Uptime, era |-> era]
        /\ UNCHANGED <<now, born, era, kind, up, offset>>
      BY <1>6 DEF ReceiveAsk, gateway
  <2>3. now \in Head(down) .. now
      BY <2>1
  <2>4. AnsweringInv(starts)'
      BY <1>2, <2>2, <2>3 DEF AnsweringInv
  <2> QED BY <2>2, <2>4, Unmoved, WithinEra
<1>7. CASE Answer
  <2>1. answering' = NotAnswering /\ answering # NotAnswering
        /\ UNCHANGED <<now, born, era, kind, offset>>
        /\ Say(Frame("reply", answering.t1, answering.t2, Uptime, answering.era))
      BY <1>7 DEF Answer, gateway
  <2>2. AnsweringInv(starts)'
      BY <2>1 DEF AnsweringInv
  <2>3. \A i \in 1 .. Len(up') :
           up'[i].made <= now /\ up'[i].era <= era /\ FrameInv(starts, up'[i])
      BY <1>2, <1>3, <2>1, FreshFrames, FramesTyped
  <2> QED BY <2>1, <2>2, <2>3, Unmoved, WithinEra
<1>8. CASE LoseUp
  <2>1. up # <<>> /\ up' = Tail(up) /\ UNCHANGED <<now, born, era, kind, answering, offset>>
      BY <1>8 DEF LoseUp, node, gateway
  <2>2. \A i \in 1 .. Len(up') : i + 1 \in 1 .. Len(up) /\ up'[i] = up[i + 1]
      BY <1>1, <2>1, HeadAndTail
  <2>3. \A i \in 1 .. Len(up') :
           up'[i].made <= now /\ up'[i].era <= era /\ FrameInv(starts, up'[i])
      BY <2>2 DEF ClockInv
  <2> QED BY <2>1, <2>3, Unmoved, WithinEra
<1>9. CASE LoseDown \/ LoopTurn \/ LoopFails
  <2>1. UNCHANGED <<now, born, era, kind, answering, up, offset>>
      BY <1>9 DEF LoseDown, LoopTurn, LoopFails, node, gateway
  <2> QED BY <2>1, Unmoved, WithinEra
<1>10. CASE GatewayRestart
  <2>1. UNCHANGED <<now, born, era, kind, answering, offset>> /\ up' = <<>>
      BY <1>10 DEF GatewayRestart, node
  <2>2. 1 .. Len(up') = {}
      BY <2>1
  <2> QED BY <2>1, <2>2, Unmoved, WithinEra
<1> QED BY <1>4, <1>5, <1>6, <1>7, <1>8, <1>9, <1>10

-----------------------------------------------------------------------------
(* Offsets: the half-way formula against the clock that was read.          *)

LEMMA HelloOffset ==
    ASSUME TypeOK, NEW start \in Nat, NEW f \in FrameType, f.t3 = f.t2,
           Reads(start, f.t2, f.made), f.made <= now
    PROVE  LET o == Recorded(f, now, 2 * (now - f.made))
           IN  /\ o.value2 - 2 * start >= - o.slack2
               /\ o.value2 - 2 * start <= o.slack2 + 2 * Res
<1> USE Typed
<1>1. PICK m \in Int : m = Ms(f.t2)
    BY MsLaws
<1>2. start + m <= f.made /\ f.made < start + m + Res
    BY <1>1 DEF Reads
<1>3. Rtt(now, f.t2, f.t3, now) = 0
  <2>1. now \in Int /\ f.t2 \in Int /\ f.t3 \in Int
      OBVIOUS
  <2>2. now - now <= Ms(f.t3) - Ms(f.t2)
      BY <1>1, <2>1
  <2> QED BY <2>1, <2>2, RttTyped
<1>4. PICK s \in Nat : s = 2 * (now - f.made)
    OBVIOUS
<1>5. Recorded(f, now, s).value2 = 2 * now - 2 * m /\ Recorded(f, now, s).slack2 = s
    BY <1>1, <1>3, RecordedTyped
<1> QED BY <1>2, <1>4, <1>5, Sizes

LEMMA ReplyOffset ==
    ASSUME TypeOK, NEW start \in Nat, NEW f \in FrameType, f.made <= now,
           NEW h \in f.t1 .. f.made, Reads(start, f.t2, h), start + Ms(f.t3) <= f.made
    PROVE  LET o == Recorded(f, f.t1, Rtt(f.t1, f.t2, f.t3, now))
           IN  /\ o.value2 - 2 * start >= - o.slack2
               /\ o.value2 - 2 * start <= o.slack2 + 2 * Res
<1> USE Typed
<1>typed. now \in Int /\ f.t1 \in Int /\ f.t2 \in Int /\ f.t3 \in Int /\ f.made \in Int
    OBVIOUS
<1>1. PICK m2 \in Int, m3 \in Int : m2 = Ms(f.t2) /\ m3 = Ms(f.t3)
  <2>1. Ms(f.t2) \in Int /\ Ms(f.t3) \in Int
      BY <1>typed, MsLaws
  <2> QED BY <2>1
<1>2. /\ start + m2 <= h /\ h < start + m2 + Res
      /\ f.t1 <= h /\ start + m3 <= f.made /\ h \in Int
    BY <1>typed, <1>1 DEF Reads
<1>3. PICK rtt \in Nat : rtt = Rtt(f.t1, f.t2, f.t3, now) /\ rtt >= (now - f.t1) - (m3 - m2)
    BY <1>typed, <1>1, RttTyped
<1>4. Recorded(f, f.t1, rtt).value2 = 2 * f.t1 + rtt - 2 * m2 /\ Recorded(f, f.t1, rtt).slack2 = rtt
    BY <1>1, <1>3, RecordedTyped
<1> QED BY <1>2, <1>3, <1>4, Sizes

LEMMA HearingClocks ==
    ASSUME TypeOK, NEW starts \in Starts, ClockInv(starts), OnHello \/ OnStamped \/ OnReply
    PROVE  (\E old \in Starts : ClockInv(old))'
<1> USE Typed
<1> DEFINE f == Head(up)
<1>1. /\ up # <<>> /\ up' = Tail(up) /\ UNCHANGED <<now, born, era, kind, answering>>
    BY DEF OnHello, OnStamped, OnReply, Heard, node
<1>2. /\ f \in FrameType /\ f = up[1] /\ 1 \in 1 .. Len(up)
      /\ \A i \in 1 .. Len(up') : i + 1 \in 1 .. Len(up) /\ up'[i] = up[i + 1]
    BY <1>1, HeadAndTail DEF TypeOK
<1>3. \A i \in 1 .. Len(up') :
         up'[i].made <= now /\ up'[i].era <= era /\ FrameInv(starts, up'[i])
    BY <1>2 DEF ClockInv
<1>4. f.made <= now /\ f.era \in 0 .. era /\ FrameInv(starts, f)
    BY <1>2 DEF ClockInv
<1>5. starts[f.era] \in Nat
    BY <1>4 DEF Starts
<1> HIDE DEF f
<1>6. OffsetInv(starts)'
  <2>1. CASE OnHello
    <3>1. offset' = Recorded(f, now, 2 * (now - f.made)) /\ f.type = "hello"
        BY <2>1 DEF OnHello, f
    <3>2. f.t3 = f.t2 /\ Reads(starts[f.era], f.t2, f.made)
        BY <1>4, <3>1 DEF FrameInv
    <3>3. offset'.era = f.era
        BY <3>1 DEF Recorded
    <3>4. /\ offset'.value2 - 2 * starts[f.era] >= - offset'.slack2
          /\ offset'.value2 - 2 * starts[f.era] <= offset'.slack2 + 2 * Res
        BY <1>2, <1>4, <1>5, <3>1, <3>2, HelloOffset
    <3> QED BY <3>3, <3>4 DEF OffsetInv
  <2>2. CASE OnReply /\ Matches(f) /\ row
    <3>1. /\ offset' = Recorded(f, f.t1, Rtt(f.t1, f.t2, f.t3, now)) /\ f.type = "reply"
        BY <2>2 DEF OnReply, Matches, f
    <3>2. PICK h \in f.t1 .. f.made : Reads(starts[f.era], f.t2, h)
        BY <1>4, <3>1 DEF FrameInv
    <3>3. starts[f.era] + Ms(f.t3) <= f.made
        BY <1>4, <3>1 DEF FrameInv
    <3>4. offset'.era = f.era
        BY <3>1 DEF Recorded
    <3>5. /\ offset'.value2 - 2 * starts[f.era] >= - offset'.slack2
          /\ offset'.value2 - 2 * starts[f.era] <= offset'.slack2 + 2 * Res
        BY <1>2, <1>4, <1>5, <3>1, <3>2, <3>3, ReplyOffset
    <3> QED BY <3>4, <3>5 DEF OffsetInv
  <2>3. CASE OnStamped \/ (OnReply /\ ~(Matches(f) /\ row))
    <3>1. UNCHANGED offset
        BY <2>3 DEF OnStamped, OnReply, f
    <3> QED BY <1>1, <3>1, Unmoved
  <2> QED BY <2>1, <2>2, <2>3
<1> QED BY <1>1, <1>3, <1>6, Unmoved, WithinEra

LEMMA EraClocks ==
    ASSUME TypeOK, NEW old \in Starts, ClockInv(old), Tick \/ SimReboot \/ BoardReset
    PROVE  (\E starts \in Starts : ClockInv(starts))'
<1> USE Typed
<1>1. ErasInv(old) /\ up \in Seq(FrameType) /\ \A e \in 0 .. era : old[e] = old[e]
    BY DEF ClockInv, TypeOK
<1>2. CASE Tick /\ era' = era
  <2>1. /\ now' = now + 1 /\ UNCHANGED <<born, kind, answering, up, offset>>
        /\ kind = "board" => (now' - born) % (Res * Wrap) # 0
    <3>1. era + 1 # era
        OBVIOUS
    <3> QED BY <1>2, <3>1 DEF Tick, gateway
  <2>2. old \in Starts'
      BY <1>2, <2>1 DEF Starts
  <2>3. kind = "board" => now' - old[era] < Ms(Wrap)
    <3> SUFFICES ASSUME kind = "board", now' - old[era] >= Ms(Wrap) PROVE FALSE
      <4>1. old[era] \in 0 .. now
          BY DEF Starts
      <4>2. Ms(Wrap) \in Int
          BY MsLaws
      <4>3. now' \in Int /\ old[era] \in Int
          BY <2>1, <4>1
      <4> QED BY <4>2, <4>3
    <3>1. now - old[era] < Ms(Wrap)
        BY <1>1 DEF ErasInv
    <3>2. PICK laps \in 0 .. now : old[era] = born + laps * Ms(Wrap)
        BY <1>1 DEF ErasInv
    <3>3. old[era] \in Int
        BY DEF Starts
    <3>4. PICK m \in Nat : m = Ms(Wrap) /\ m = Res * Wrap /\ m > 0
        BY MsLaws
    <3>5. now' - old[era] = m
        BY <2>1, <3>1, <3>3, <3>4
    <3>6. laps * m = m * laps /\ m * laps \in Int /\ m * (laps + 1) = m * laps + m
        BY <3>4
    <3>7. now' - born = m * (laps + 1) + 0
        BY <2>1, <3>2, <3>3, <3>4, <3>5, <3>6
    <3>8. 0 \in 0 .. m - 1 /\ laps + 1 \in Int
        BY <3>4
    <3>9. (now' - born) % m = 0
        BY <3>4, <3>7, <3>8, DivMod
    <3> QED BY <2>1, <3>4, <3>9
  <2>4. kind = "board" => \E laps \in 0 .. now' : old[era] = born + laps * Ms(Wrap)
    <3>1. 0 .. now \subseteq 0 .. now'
        BY <2>1
    <3> QED BY <1>1, <3>1 DEF ErasInv
  <2>5. ErasInv(old)'
      BY <1>1, <1>2, <2>1, <2>3, <2>4 DEF ErasInv
  <2>6. ClockInv(old)'
      BY <1>1, <1>2, <2>1, <2>5, EarlierEras DEF ClockInv
  <2> QED BY <2>2, <2>6
<1>new. PICK starts : starts = [e \in 0 .. era + 1 |-> IF e = era + 1 THEN now' ELSE old[e]]
    OBVIOUS
<1>3. ASSUME now' \in Nat, now <= now', era' = era + 1, born' \in Nat, kind' = kind,
             \/ born' = now'
             \/ kind = "board" /\ \E laps \in 0 .. now' : now' = born' + laps * Ms(Wrap)
      PROVE  /\ starts \in Starts' /\ ErasInv(starts)' /\ starts[era + 1] = now'
             /\ \A i \in 1 .. Len(up) : up[i].made <= now' /\ up[i].era <= era' /\ FrameInv(starts, up[i])
             /\ UNCHANGED answering => AnsweringInv(starts)'
             /\ UNCHANGED offset => OffsetInv(starts)'
  <2>1. starts[era + 1] = now'
      BY <1>new
  <2>2. starts \in Starts' /\ ErasInv(starts)' /\ \A e \in 0 .. era : starts[e] = old[e]
      BY <1>1, <1>3, <1>new, NewClock
  <2>3. era' \in Nat /\ era <= era'
      BY <1>3
  <2> QED BY <1>3, <2>1, <2>2, <2>3, EarlierEras
<1>4. CASE Tick /\ era' # era
  <2>1. /\ now' = now + 1 /\ era' = era + 1 /\ UNCHANGED <<born, kind, answering, up, offset>>
        /\ kind = "board" /\ (now' - born) % (Res * Wrap) = 0
      BY <1>4 DEF Tick, gateway
  <2>2. now' \in Nat /\ now <= now' /\ born \in Nat /\ born <= now
      BY <2>1 DEF TypeOK
  <2>3. PICK m \in Nat : m = Ms(Wrap) /\ m = Res * Wrap /\ m > 0
      BY MsLaws
  <2>4. PICK i \in Nat : i = now' - born /\ i <= now' /\ i % m = 0
      BY <2>1, <2>2, <2>3
  <2>5. PICK q \in Nat, r \in 0 .. m - 1 : i = m * q + r /\ i % m = r /\ q <= i
      BY <2>3, Division
  <2>6. q * m = m * q /\ m * q \in Int /\ r = 0
      BY <2>3, <2>4, <2>5, Commutes
  <2>7. now' = born' + q * Ms(Wrap) /\ q \in 0 .. now'
    <3>1. PICK h \in Nat : h = now'
        BY <2>2
    <3>2. PICK p \in Int : p = m * q
        BY <2>6
    <3>3. q * Ms(Wrap) = p
        BY <2>3, <2>6, <3>2
    <3>4. h - born = p
        BY <2>4, <2>5, <2>6, <3>1, <3>2
    <3>5. \A x, y \in Nat, z \in Int : x - y = z => x = y + z
        OBVIOUS
    <3>6. h = born + p
        BY <2>2, <3>4, <3>5
    <3>7. q \in 0 .. h
        BY <2>4, <2>5, <3>1
    <3> QED BY <2>1, <3>1, <3>3, <3>6, <3>7
  <2>8. starts \in Starts' /\ ClockInv(starts)'
      BY <1>3, <2>1, <2>2, <2>7 DEF ClockInv
  <2> QED BY <2>8
<1>5. ASSUME now' = now, era' = era + 1, born' = now', kind' = kind
      PROVE  /\ starts \in Starts' /\ ErasInv(starts)' /\ starts[era + 1] = now'
             /\ \A i \in 1 .. Len(up) : up[i].made <= now' /\ up[i].era <= era' /\ FrameInv(starts, up[i])
             /\ UNCHANGED answering => AnsweringInv(starts)'
             /\ UNCHANGED offset => OffsetInv(starts)'
    BY <1>3, <1>5
<1>6. CASE SimReboot
  <2> DEFINE f == Frame("stamped", None, 0, None, era + 1)
             g == Frame("hello", None, 0, 0, era + 1)
  <2>1. /\ now' = now /\ era' = era + 1 /\ born' = now' /\ kind' = kind
        /\ up' = up \o <<f, g>> /\ UNCHANGED <<answering, offset>>
      BY <1>6 DEF SimReboot, Restarted, Frame, gateway
  <2>2. Reads(now, 0, now)
    <3>1. Ms(0) = 0
        BY MsLaws
    <3>2. now + 0 <= now /\ now < now + 0 + Res
        BY Sizes
    <3> QED BY <3>1, <3>2 DEF Reads
  <2>3. starts[era + 1] = now
      BY <1>5, <2>1
  <2>4. /\ FrameInv(starts, f) /\ f.made = now /\ f.era = era'
        /\ FrameInv(starts, g) /\ g.made = now /\ g.era = era'
        /\ f \in FrameType /\ g \in FrameType
      BY <2>1, <2>2, <2>3, Sizes DEF FrameInv, Frame, FrameType, Hours
  <2> HIDE DEF f, g
  <2>5. <<f, g>> \in Seq(FrameType) /\ Len(<<f, g>>) = 2 /\ <<f, g>>[1] = f /\ <<f, g>>[2] = g
      BY <2>4
  <2>6. \A i \in 1 .. Len(up') :
            \/ i \in 1 .. Len(up) /\ up'[i] = up[i]
            \/ up'[i] = f \/ up'[i] = g
      BY <1>1, <2>1, <2>5
  <2>7. era' \in Nat
      BY <2>1
  <2>8. \A i \in 1 .. Len(up') : up'[i].made <= now' /\ up'[i].era <= era' /\ FrameInv(starts, up'[i])
      BY <1>5, <2>1, <2>4, <2>6, <2>7
  <2>9. starts \in Starts' /\ ClockInv(starts)'
      BY <1>5, <2>1, <2>8 DEF ClockInv
  <2> QED BY <2>9
<1>7. CASE BoardReset
  <2>1. /\ now' = now /\ era' = era + 1 /\ born' = now' /\ kind' = kind
        /\ answering' = NotAnswering /\ UNCHANGED offset
      BY <1>7 DEF BoardReset, Restarted, gateway
  <2>2. PICK n \in 0 .. Len(up) : up' = SubSeq(up, 1, n)
      BY <1>7 DEF BoardReset
  <2>3. \A i \in 1 .. Len(up') : i \in 1 .. Len(up) /\ up'[i] = up[i]
      BY <1>1, <2>2
  <2>4. \A i \in 1 .. Len(up') : up'[i].made <= now' /\ up'[i].era <= era' /\ FrameInv(starts, up'[i])
      BY <1>5, <2>1, <2>3
  <2>5. AnsweringInv(starts)'
      BY <2>1 DEF AnsweringInv
  <2>6. starts \in Starts' /\ ClockInv(starts)'
      BY <1>5, <2>1, <2>4, <2>5 DEF ClockInv
  <2> QED BY <2>6
<1> QED BY <1>2, <1>4, <1>6, <1>7

LEMMA InitClocks == Init => \E starts \in Starts : ClockInv(starts)
<1> SUFFICES ASSUME Init PROVE \E starts \in Starts : ClockInv(starts)
    OBVIOUS
<1>1. PICK starts : starts = [e \in 0 .. 0 |-> 0]
    OBVIOUS
<1>2. starts[0] = 0 /\ starts \in Starts
    BY <1>1 DEF Init, Starts
<1>3. 0 < Ms(Wrap) /\ Ms(Wrap) \in Int
    BY MsLaws
<1>4. 0 = 0 + 0 * Ms(Wrap) /\ 0 - 0 < Ms(Wrap)
    BY <1>3
<1>5. ErasInv(starts)
    BY <1>2, <1>4 DEF Init, ErasInv
<1>6. 1 .. Len(up) = {}
    BY DEF Init
<1>7. AnsweringInv(starts) /\ OffsetInv(starts)
    BY DEF Init, AnsweringInv, OffsetInv
<1> QED BY <1>2, <1>5, <1>6, <1>7 DEF ClockInv

LEMMA ClockStep ==
    ASSUME TypeOK, NEW starts \in Starts, ClockInv(starts), [Next]_vars
    PROVE  (\E old \in Starts : ClockInv(old))'
<1>1. CASE UNCHANGED vars
  <2>1. UNCHANGED <<now, born, era, kind, answering, up, offset>>
      BY <1>1 DEF vars, node, gateway
  <2> QED BY <2>1, Unmoved, WithinEra
<1>2. CASE Next
    BY <1>2, NodeClocks, HearingClocks, EraClocks DEF Next
<1> QED BY <1>1, <1>2

-----------------------------------------------------------------------------
\* The invariant of the clocks: every stamp, on the wire or behind an offset, was read
\* off the clock of its era.
THEOREM ClocksAreRead == Spec => []IInv
<1>1. Init => IInv
    BY InitTyped, InitClocks DEF IInv
<1>2. IInv /\ [Next]_vars => IInv'
    BY TypeStep, ClockStep DEF IInv
<1> QED BY <1>1, <1>2, PTL DEF Spec

\* Every variable of node, wire and gateway keeps its type; no measured round trip is
\* negative, whatever the clocks did in between.
THEOREM TypeCorrect == Spec => []TypeOK
<1>1. IInv => TypeOK
    BY DEF IInv
<1> QED BY <1>1, ClocksAreRead, PTL

LEMMA DatesStep ==
    ASSUME TypeOK, NEW starts \in Starts, ClockInv(starts), OnStamped,
           Head(up).era = offset.era
    PROVE  Apart(ToEpoch2(Head(up).t2), 2 * Head(up).made) <= offset.slack2 + 2 * Res
<1> USE Typed
<1> DEFINE f == Head(up)
<1>1. f \in FrameType /\ f = up[1] /\ 1 \in 1 .. Len(up) /\ f.type = "stamped"
    BY HeadAndTail DEF OnStamped, Heard, TypeOK
<1>2. f.era \in 0 .. era /\ Reads(starts[f.era], f.t2, f.made)
    BY <1>1 DEF ClockInv, FrameInv
<1>3. offset # NoOffset
    BY <1>2 DEF NoOffset, None
<1>4. PICK start \in Nat : start = starts[f.era]
    BY <1>2 DEF Starts
<1>5. /\ offset.value2 - 2 * start >= - offset.slack2
      /\ offset.value2 - 2 * start <= offset.slack2 + 2 * Res
      /\ offset.value2 \in Int /\ offset.slack2 \in Nat
    BY <1>3, <1>4 DEF ClockInv, OffsetInv, TypeOK
<1>typed. f.t2 \in Int /\ f.made \in Int
    BY <1>1
<1>6. PICK m \in Int : m = Ms(f.t2)
    BY <1>typed, MsLaws
<1>7. start + m <= f.made /\ f.made < start + m + Res /\ f.made \in Int
    BY <1>1, <1>2, <1>4, <1>6 DEF Reads
<1>8. ToEpoch2(f.t2) = 2 * m + offset.value2
  <2>1. 2 * f.t2 * Res = 2 * Ms(f.t2)
      BY <1>typed, MsLaws
  <2> QED BY <1>6, <2>1 DEF ToEpoch2
<1> HIDE DEF f
<1>9. Apart(ToEpoch2(f.t2), 2 * f.made) <= offset.slack2 + 2 * Res
    BY <1>5, <1>7, <1>8, Sizes DEF Apart
<1> QED BY <1>9 DEF f

\* A date is wrong by no more than half the round trip, or the transit of the HELLO, its
\* offset was measured with, and the milliseconds cut off: for any clock, any delay, any
\* order of exchanges and any number of faults.
THEOREM Dated == Spec => DatesAreClose
<1>1. IInv /\ [Next]_vars =>
        [OnStamped /\ Head(up).era = offset.era
            => Apart(ToEpoch2(Head(up).t2), 2 * Head(up).made) <= offset.slack2 + 2 * Res]_vars
    BY DatesStep DEF IInv
<1> QED BY <1>1, ClocksAreRead, PTL DEF Spec, DatesAreClose

-----------------------------------------------------------------------------
(* The deadline of the synchronisation, handed on from the turn of the     *)
(* loop to the request, the task that answers it and the answer.           *)

\* A frame that is on its way at hour n, in era e, where nothing has been
\* disturbed after hour c.
Timely(f, n, c, e) ==
    /\ n > c => n - f.made <= Prompt
    /\ f.made > c => IF f.type = "reply" THEN f.made - f.t1 <= 2 * Prompt ELSE f.era = e
    /\ f.type = "reply" /\ f.t1 > c => f.era = e

Punctual ==
    /\ \A i \in 1 .. Len(up) : Timely(up[i], now, calm, era)
    /\ \A i \in 1 .. Len(down) : now > calm => now - down[i] <= Prompt
    /\ answering # NotAnswering =>
          /\ now > calm => now - answering.t1 <= 2 * Prompt
          /\ answering.t1 > calm => answering.era = era
    /\ loop = "running" /\ now > calm => now - wake <= Prompt

\* The request made at hour r is on its way to the node, at the node, or answered.
Asked(r) == \E i \in 1 .. Len(down) : down[i] = r
BeingAnswered(r) == answering # NotAnswering /\ answering.t1 = r
Answered(r) == \E i \in 1 .. Len(up) : up[i].type = "reply" /\ up[i].t1 = r
Open(r) == Asked(r) \/ BeingAnswered(r) \/ Answered(r)

\* The loop sleeps a period between two requests, and remembers the last one.
Turns ==
    /\ wake <= now + Period
    /\ \A r \in Int : Open(r) => r <= wake - Period
    /\ loop = "running" /\ pending # None => linked /\ pending = wake - Period

\* The exchange that will put the offset right.
Underway ==
    /\ Open(pending)
    /\ calm + Prompt < pending /\ pending <= calm + Period + 2 * Prompt
    /\ \A r \in Int : Open(r) => r = pending \/ r <= pending - Period

\* The offset is right, or the next turn comes in time, or its exchange is underway.
Progress ==
    linked /\ row /\ loop = "running" =>
        offset.era = era \/ wake <= calm + Period + Prompt \/ Underway

SInv == Punctual /\ Turns /\ Progress

LEMMA Bounds ==
    ASSUME TypeOK
    PROVE  /\ now \in Nat /\ calm \in Nat /\ calm <= now /\ wake \in Nat /\ era \in Nat
           /\ Period \in Nat /\ Prompt \in Nat /\ 3 * Prompt < Period
           /\ pending \in Int /\ None = -1
           /\ up \in Seq(FrameType) /\ down \in Seq(0 .. now) /\ offset.value2 \in Int
           /\ Len(up) \in Nat /\ Len(down) \in Nat
           /\ answering # NotAnswering => answering.t1 \in Nat /\ answering.t1 <= now
BY SMTT(30), TimeSyncAssumption, Typed DEF TypeOK, None

\* A request made before the last disturbance is answered, or gone, soon after it.
LEMMA OpenIsYoung ==
    ASSUME TypeOK, Punctual, now > calm + Prompt, NEW r \in Int, Open(r)
    PROVE  now - r <= 3 * Prompt
<1>1. now > calm /\ now \in Nat /\ calm \in Nat /\ Prompt \in Nat
    BY Bounds
<1>2. CASE Asked(r)
    BY <1>1, <1>2 DEF Asked, Punctual
<1>3. CASE BeingAnswered(r)
    BY <1>1, <1>3 DEF BeingAnswered, Punctual
<1>4. CASE Answered(r)
  <2>1. PICK i \in 1 .. Len(up) : up[i].type = "reply" /\ up[i].t1 = r
      BY <1>4 DEF Answered
  <2>2. up[i].made \in Nat
      BY SMTT(30), Typed, Bounds
  <2>3. /\ now - up[i].made <= Prompt
        /\ up[i].made > calm => up[i].made - r <= 2 * Prompt
      BY <1>1, <2>1 DEF Punctual, Timely
  <2> QED BY <1>1, <2>2, <2>3
<1> QED BY <1>2, <1>3, <1>4 DEF Open

-----------------------------------------------------------------------------
(* What a step does to the requests that are open.                         *)

LEMMA OpenBefore ==
    ASSUME TypeOK, NEW r \in Int, Open(r)', [Next]_vars
    PROVE  Open(r) \/ (LoopTurn /\ linked /\ r = now)
<1>1. up \in Seq(FrameType) /\ down \in Seq(0 .. now) /\ Len(up) \in Nat /\ Len(down) \in Nat
    BY Bounds
<1>2. CASE UNCHANGED <<up, down, answering>>
    BY <1>2 DEF Open, Asked, BeingAnswered, Answered
<1>3. CASE SendStamped \/ SendHello
  <2>1. PICK f \in {Stamped, Hello} : up' = Append(up, f)
      BY <1>3 DEF SendStamped, SendHello, Say
  <2>2. UNCHANGED <<down, answering>> /\ f.type # "reply"
      BY <1>3, <2>1 DEF SendStamped, SendHello, node, Stamped, Hello, Frame
  <2>3. Answered(r)' => Answered(r)
    <3> SUFFICES ASSUME NEW i \in 1 .. Len(up'), up'[i].type = "reply", up'[i].t1 = r
                 PROVE  Answered(r)
        BY DEF Answered
    <3> QED BY <1>1, <2>1, <2>2 DEF Answered
  <2> QED BY <2>2, <2>3 DEF Open, Asked, BeingAnswered
<1>4. CASE ReceiveAsk
  <2>1. /\ down # <<>> /\ down' = Tail(down) /\ up' = up
        /\ answering' = [t1 |-> Head(down), t2 |-> Uptime, era |-> era]
      BY <1>4 DEF ReceiveAsk
  <2>2. /\ Head(down) = down[1] /\ 1 \in 1 .. Len(down)
        /\ \A i \in 1 .. Len(down') : i + 1 \in 1 .. Len(down) /\ down'[i] = down[i + 1]
      BY <1>1, <2>1, HeadAndTail
  <2> QED BY <2>1, <2>2 DEF Open, Asked, BeingAnswered, Answered
<1>5. CASE Answer
  <2> DEFINE f == Frame("reply", answering.t1, answering.t2, Uptime, answering.era)
  <2>1. up' = Append(up, f) /\ answering # NotAnswering /\ answering' = NotAnswering /\ down' = down
      BY <1>5 DEF Answer, Say
  <2>2. f.t1 = answering.t1
      BY DEF Frame
  <2> HIDE DEF f
  <2>3. Answered(r)' => Answered(r) \/ f.t1 = r
    <3> SUFFICES ASSUME NEW i \in 1 .. Len(up'), up'[i].type = "reply", up'[i].t1 = r
                 PROVE  Answered(r) \/ f.t1 = r
        BY DEF Answered
    <3> QED BY <1>1, <2>1 DEF Answered
  <2> QED BY <2>1, <2>2, <2>3 DEF Open, Asked, BeingAnswered
<1>6. CASE SimReboot
  <2> DEFINE f == Frame("stamped", None, 0, None, era')
             g == Frame("hello", None, 0, 0, era')
  <2>1. up' = up \o <<f, g>> /\ UNCHANGED <<down, answering>>
      BY <1>6 DEF SimReboot
  <2>2. f.type # "reply" /\ g.type # "reply"
      BY DEF Frame
  <2> HIDE DEF f, g
  <2>3. Answered(r)' => Answered(r)
    <3> SUFFICES ASSUME NEW i \in 1 .. Len(up'), up'[i].type = "reply", up'[i].t1 = r
                 PROVE  Answered(r)
        BY DEF Answered
    <3>1. <<f, g>>[1] = f /\ <<f, g>>[2] = g /\ Len(<<f, g>>) = 2 /\ <<f, g>> \in Seq({f, g})
        OBVIOUS
    <3>2. Len(up') = Len(up) + 2
        BY <1>1, <2>1, <3>1
    <3>3. (i \in 1 .. Len(up) /\ up'[i] = up[i]) \/ up'[i] = f \/ up'[i] = g
        BY <1>1, <2>1, <3>1, <3>2
    <3> QED BY <2>2, <3>3 DEF Answered
  <2> QED BY <2>1, <2>3 DEF Open, Asked, BeingAnswered
<1>7. CASE BoardReset
  <2>1. PICK n \in 0 .. Len(up) : up' = SubSeq(up, 1, n)
      BY <1>7 DEF BoardReset
  <2>2. \A i \in 1 .. Len(up') : i \in 1 .. Len(up) /\ up'[i] = up[i]
      BY <1>1, <2>1
  <2>3. answering' = NotAnswering /\ down' = down
      BY <1>7 DEF BoardReset
  <2> QED BY <2>2, <2>3 DEF Open, Asked, BeingAnswered, Answered
<1>8. CASE LoseUp \/ OnHello \/ OnStamped \/ OnReply
  <2>1. up # <<>> /\ up' = Tail(up) /\ UNCHANGED <<down, answering>>
      BY <1>8 DEF LoseUp, OnHello, OnStamped, OnReply, Heard, node
  <2>2. \A i \in 1 .. Len(up') : i + 1 \in 1 .. Len(up) /\ up'[i] = up[i + 1]
      BY <1>1, <2>1, HeadAndTail
  <2> QED BY <2>1, <2>2 DEF Open, Asked, BeingAnswered, Answered
<1>9. CASE LoseDown
  <2>1. down # <<>> /\ down' = Tail(down) /\ UNCHANGED <<up, answering>>
      BY <1>9 DEF LoseDown, node
  <2>2. \A i \in 1 .. Len(down') : i + 1 \in 1 .. Len(down) /\ down'[i] = down[i + 1]
      BY <1>1, <2>1, HeadAndTail
  <2> QED BY <2>1, <2>2 DEF Open, Asked, BeingAnswered, Answered
<1>10. CASE LoopTurn /\ linked
  <2>1. down' = Append(down, now) /\ UNCHANGED <<up, answering>>
      BY <1>10 DEF LoopTurn, node
  <2>2. Asked(r)' => Asked(r) \/ r = now
    <3> SUFFICES ASSUME NEW i \in 1 .. Len(down'), down'[i] = r PROVE Asked(r) \/ r = now
        BY DEF Asked
    <3>1. now \in 0 .. now
        BY Bounds
    <3> QED BY <1>1, <2>1, <3>1, Appended DEF Asked
  <2> QED BY <1>10, <2>1, <2>2 DEF Open, BeingAnswered, Answered
<1>11. CASE GatewayRestart
  <2>1. up' = <<>> /\ down' = <<>> /\ answering' = answering
      BY <1>11 DEF GatewayRestart, node
  <2> QED BY <2>1 DEF Open, Asked, BeingAnswered, Answered
<1> QED BY <1>2, <1>3, <1>4, <1>5, <1>6, <1>7, <1>8, <1>9, <1>10, <1>11
    DEF Next, Tick, LoopTurn, LoopFails, node, gateway, vars

\* Without a disturbance a request stays open until its answer is heard.
LEMMA OpenAfter ==
    ASSUME TypeOK, NEW r \in Int, Open(r),
           \/ SendStamped \/ SendHello \/ ReceiveAsk \/ Answer
           \/ OnHello \/ OnStamped \/ OnReply \/ LoopTurn
    PROVE  Open(r)' \/ (OnReply /\ Head(up).t1 = r)
<1>1. up \in Seq(FrameType) /\ down \in Seq(0 .. now) /\ Len(up) \in Nat /\ Len(down) \in Nat
    BY Bounds
<1>2. CASE SendStamped \/ SendHello
  <2>1. PICK f : up' = Append(up, f)
      BY <1>2 DEF SendStamped, SendHello, Say
  <2>2. UNCHANGED <<down, answering>>
      BY <1>2 DEF SendStamped, SendHello, node
  <2>3. Answered(r) => Answered(r)'
      BY <1>1, <2>1 DEF Answered
  <2> QED BY <2>2, <2>3 DEF Open, Asked, BeingAnswered
<1>3. CASE ReceiveAsk
  <2>1. /\ down # <<>> /\ down' = Tail(down) /\ up' = up /\ answering = NotAnswering
        /\ answering' = [t1 |-> Head(down), t2 |-> Uptime, era |-> era]
      BY <1>3 DEF ReceiveAsk
  <2>2. Asked(r) => Asked(r)' \/ r = Head(down)
    <3> SUFFICES ASSUME NEW i \in 1 .. Len(down), down[i] = r PROVE Asked(r)' \/ r = Head(down)
        BY DEF Asked
    <3>1. CASE i = 1
        BY <1>1, <3>1
    <3>2. CASE i # 1
      <4>1. i - 1 \in 1 .. Len(down') /\ down'[i - 1] = down[i]
          BY <1>1, <2>1, <3>2
      <4> QED BY <4>1 DEF Asked
    <3> QED BY <3>1, <3>2
  <2>3. Head(down) # None
    <3>1. Head(down) \in 0 .. now
        BY <1>1, <2>1, HeadAndTail
    <3> QED BY <3>1 DEF None
  <2>4. answering' # NotAnswering /\ answering'.t1 = Head(down)
      BY <2>1, <2>3 DEF NotAnswering
  <2> QED BY <2>1, <2>2, <2>4 DEF Open, BeingAnswered, Answered
<1>4. CASE Answer
  <2> DEFINE f == Frame("reply", answering.t1, answering.t2, Uptime, answering.era)
  <2>1. up' = Append(up, f) /\ answering # NotAnswering /\ down' = down
      BY <1>4 DEF Answer, Say
  <2>2. f.t1 = answering.t1 /\ f.type = "reply"
      BY DEF Frame
  <2> HIDE DEF f
  <2>3. Answered(r) => Answered(r)'
      BY <1>1, <2>1 DEF Answered
  <2>4. BeingAnswered(r) => Answered(r)'
    <3>1. Len(up) + 1 \in 1 .. Len(up') /\ up'[Len(up) + 1] = f
        BY <1>1, <2>1
    <3> QED BY <2>2, <3>1 DEF BeingAnswered, Answered
  <2> QED BY <2>1, <2>3, <2>4 DEF Open, Asked
<1>5. CASE OnHello \/ OnStamped \/ OnReply
  <2>1. /\ up # <<>> /\ up' = Tail(up) /\ UNCHANGED <<down, answering>>
        /\ Head(up).type = "reply" => OnReply
      BY <1>5 DEF OnHello, OnStamped, OnReply, Heard, node
  <2>2. Answered(r) => Answered(r)' \/ (Head(up).type = "reply" /\ Head(up).t1 = r)
    <3> SUFFICES ASSUME NEW i \in 1 .. Len(up), up[i].type = "reply", up[i].t1 = r
                 PROVE  Answered(r)' \/ (Head(up).type = "reply" /\ Head(up).t1 = r)
        BY DEF Answered
    <3>1. CASE i = 1
        BY <1>1, <3>1
    <3>2. CASE i # 1
      <4>1. i - 1 \in 1 .. Len(up') /\ up'[i - 1] = up[i]
          BY <1>1, <2>1, <3>2
      <4> QED BY <4>1 DEF Answered
    <3> QED BY <3>1, <3>2
  <2> QED BY <2>1, <2>2 DEF Open, Asked, BeingAnswered
<1>6. CASE LoopTurn
  <2>1. UNCHANGED <<up, answering>> /\ down' \in {down, Append(down, now)}
      BY <1>6 DEF LoopTurn, node
  <2>2. Asked(r) => Asked(r)'
      BY <1>1, <2>1 DEF Asked
  <2> QED BY <2>1, <2>2 DEF Open, BeingAnswered, Answered
<1> QED BY <1>2, <1>3, <1>4, <1>5, <1>6

-----------------------------------------------------------------------------
(* No step but a disturbance makes anything late.                          *)

\* A frame was made before now, and asked for before that.
Past ==
    \A i \in 1 .. Len(up) :
        up[i].made <= now /\ (up[i].type = "reply" => up[i].t1 <= up[i].made)

LEMMA FramesArePast == IInv => Past
<1> SUFFICES ASSUME TypeOK, NEW starts \in Starts, ClockInv(starts), NEW i \in 1 .. Len(up)
             PROVE  up[i].made <= now /\ (up[i].type = "reply" => up[i].t1 <= up[i].made)
    BY DEF IInv, Past
<1>1. up[i].made \in Nat /\ up[i].t1 \in Int
    BY Bounds, Typed
<1>2. up[i].made <= now /\ FrameInv(starts, up[i])
    BY DEF ClockInv
<1>3. up[i].type = "reply" => \E h \in up[i].t1 .. up[i].made : TRUE
    BY <1>2 DEF FrameInv
<1> QED BY <1>1, <1>2, <1>3

\* What no disturbance does.
calmly == <<now, calm, era>>

LEMMA Undisturbed ==
    ASSUME TypeOK, [Next]_vars, calm' # now'
    PROVE  \/ Tick /\ ~Late /\ UNCHANGED <<calm, era>>
           \/ SendStamped \/ SendHello \/ ReceiveAsk \/ Answer \/ LoopTurn
           \/ OnHello /\ row /\ linked /\ UNCHANGED calmly
           \/ OnStamped /\ linked /\ UNCHANGED calmly
           \/ OnReply /\ linked /\ UNCHANGED calmly
           \/ UNCHANGED vars
<1>1. CASE Tick
    BY <1>1 DEF Tick
<1>2. CASE OnHello \/ OnStamped \/ OnReply
    BY <1>2 DEF OnHello, OnStamped, OnReply, Heard, node, calmly
<1>3. CASE SimReboot \/ BoardReset \/ LoseUp \/ LoseDown \/ LoopFails \/ GatewayRestart
    BY <1>3 DEF SimReboot, BoardReset, LoseUp, LoseDown, LoopFails, GatewayRestart, Restarted,
                Disturbed
<1> QED BY <1>1, <1>2, <1>3 DEF Next

LEMMA NewFrames ==
    ASSUME TypeOK, Punctual, NEW f \in {Stamped, Hello}
    PROVE  Timely(f, now, calm, era)
<1>1. f.made = now /\ f.t1 = None /\ f.type # "reply" /\ f.era = era
    BY DEF Stamped, Hello, Frame
<1> QED BY <1>1, Bounds DEF Timely

\* Every frame that was on its way, or has been sent now, is timely.
LEMMA FramesPunctual ==
    ASSUME TypeOK, Punctual, Uptime \in 0 .. now, UNCHANGED <<now, calm, era>>,
           \/ SendStamped \/ SendHello \/ ReceiveAsk \/ Answer \/ LoopTurn
           \/ OnHello \/ OnStamped \/ OnReply
    PROVE  \A i \in 1 .. Len(up') : Timely(up'[i], now, calm, era)
<1>1. up \in Seq(FrameType) /\ Len(up) \in Nat
      /\ \A i \in 1 .. Len(up) : Timely(up[i], now, calm, era)
    BY Bounds DEF Punctual
<1>2. ASSUME NEW f \in FrameType, up' = Append(up, f), Timely(f, now, calm, era)
      PROVE  \A i \in 1 .. Len(up') : Timely(up'[i], now, calm, era)
    BY <1>1, <1>2, Appended
<1>3. CASE SendStamped \/ SendHello
    BY <1>2, <1>3, NewFrames, FramesTyped DEF SendStamped, SendHello, Say
<1>4. CASE Answer
  <2> DEFINE f == Frame("reply", answering.t1, answering.t2, Uptime, answering.era)
  <2>1. up' = Append(up, f) /\ answering # NotAnswering /\ f \in FrameType
      BY <1>4, FramesTyped DEF Answer, Say
  <2>2. f.t1 = answering.t1 /\ f.type = "reply" /\ f.made = now /\ f.era = answering.era
      BY DEF Frame
  <2> HIDE DEF f
  <2>3. Timely(f, now, calm, era)
      BY <2>1, <2>2, Bounds DEF Timely, Punctual
  <2> QED BY <1>2, <2>1, <2>3
<1>5. CASE ReceiveAsk \/ LoopTurn
    BY <1>1, <1>5 DEF ReceiveAsk, LoopTurn
<1>6. CASE OnHello \/ OnStamped \/ OnReply
  <2>1. up # <<>> /\ up' = Tail(up)
      BY <1>6 DEF OnHello, OnStamped, OnReply, Heard
  <2> QED BY <1>1, <2>1, HeadAndTail
<1> QED BY <1>3, <1>4, <1>5, <1>6

LEMMA PunctualStep ==
    ASSUME TypeOK, TypeOK', Past', Punctual, Uptime \in 0 .. now, [Next]_vars
    PROVE  Punctual'
<1>0. up \in Seq(FrameType) /\ down \in Seq(0 .. now) /\ Len(up) \in Nat /\ Len(down) \in Nat
      /\ up' \in Seq(FrameType) /\ now \in Nat /\ calm \in Nat /\ Prompt \in Nat /\ wake \in Nat
    BY Bounds DEF TypeOK
<1>1. CASE calm' = now'
  <2>1. /\ now' \in Nat /\ calm' \in Nat
        /\ answering' # NotAnswering => answering'.t1 \in 0 .. now'
      BY <1>1, Sizes DEF TypeOK, Hours
  <2>2. ASSUME NEW i \in 1 .. Len(up')
        PROVE  Timely(up'[i], now', calm', era')
    <3>1. up'[i].made <= now' /\ (up'[i].type = "reply" => up'[i].t1 <= up'[i].made)
        BY DEF Past
    <3>2. up'[i].made \in Nat /\ up'[i].t1 \in Int
        BY <1>0, Typed
    <3> QED BY <1>1, <2>1, <3>1, <3>2 DEF Timely
  <2> QED BY <1>1, <2>1, <2>2 DEF Punctual
<1>2. CASE calm' # now' /\ Tick
  <2>1. /\ now' = now + 1 /\ UNCHANGED <<calm, era, up, down, answering, loop, wake>>
        /\ \A i \in 1 .. Len(up) : ~(now - up[i].made >= Prompt)
        /\ \A i \in 1 .. Len(down) : ~(now - down[i] >= Prompt)
        /\ answering # NotAnswering => ~(now - answering.t1 >= 2 * Prompt)
        /\ loop = "running" => ~(now - wake >= Prompt)
      BY <1>2 DEF Tick, Late, gateway
  <2>2. ASSUME NEW i \in 1 .. Len(up)
        PROVE  Timely(up[i], now', calm, era)
    <3>1. up[i].made \in Nat
        BY <1>0, Typed
    <3>2. Timely(up[i], now, calm, era) /\ ~(now - up[i].made >= Prompt)
        BY <2>1 DEF Punctual
    <3> QED BY <1>0, <2>1, <3>1, <3>2 DEF Timely
  <2>3. ASSUME NEW i \in 1 .. Len(down)
        PROVE  now' - down[i] <= Prompt
    <3>1. down[i] \in Nat
        BY <1>0
    <3> QED BY SMTT(30), <1>0, <2>1, <3>1
  <2>4. answering # NotAnswering => now' - answering.t1 <= 2 * Prompt
      BY <1>0, <2>1, Bounds
  <2>5. loop = "running" => now' - wake <= Prompt
      BY <1>0, <2>1
  <2> QED BY <2>1, <2>2, <2>3, <2>4, <2>5 DEF Punctual
<1>3. CASE UNCHANGED vars
    BY <1>3 DEF vars, node, gateway, Punctual
<1>4. CASE /\ \/ SendStamped \/ SendHello \/ ReceiveAsk \/ Answer \/ LoopTurn
              \/ OnHello \/ OnStamped \/ OnReply
           /\ UNCHANGED <<now, calm, era>>
  <2>1. \A i \in 1 .. Len(up') : Timely(up'[i], now', calm', era')
      BY <1>4, FramesPunctual
  <2>2. CASE ReceiveAsk
    <3>1. /\ down # <<>> /\ down' = Tail(down) /\ UNCHANGED <<now, calm, era, loop, wake>>
          /\ answering' = [t1 |-> Head(down), t2 |-> Uptime, era |-> era]
        BY <2>2 DEF ReceiveAsk, gateway
    <3>2. /\ Head(down) = down[1] /\ 1 \in 1 .. Len(down) /\ Head(down) \in 0 .. now
          /\ \A i \in 1 .. Len(down') : i + 1 \in 1 .. Len(down) /\ down'[i] = down[i + 1]
        BY <1>0, <3>1, HeadAndTail
    <3>3. now > calm => now - Head(down) <= 2 * Prompt
        BY <1>0, <3>2 DEF Punctual
    <3> QED BY <2>1, <3>1, <3>2, <3>3 DEF Punctual
  <2>3. CASE Answer
    <3>1. answering' = NotAnswering /\ UNCHANGED <<now, calm, era, down, loop, wake>>
        BY <2>3 DEF Answer, gateway
    <3> QED BY <2>1, <3>1 DEF Punctual
  <2>4. CASE LoopTurn
    <3>1. /\ wake' = now + Period /\ down' \in {down, Append(down, now)}
          /\ UNCHANGED <<now, calm, era, answering, loop>>
        BY <2>4 DEF LoopTurn, NextTurn, node
    <3>2. \A i \in 1 .. Len(down') : now > calm => now - down'[i] <= Prompt
      <4>1. CASE down' = down
          BY <4>1 DEF Punctual
      <4>2. CASE down' = Append(down, now)
        <5>1. now \in 0 .. now /\ now - now <= Prompt
            BY <1>0
        <5> QED BY <1>0, <4>2, <5>1, Appended DEF Punctual
      <4> QED BY <3>1, <4>1, <4>2
    <3>3. now - wake' <= Prompt
        BY <1>0, <3>1, Bounds
    <3> QED BY <2>1, <3>1, <3>2, <3>3 DEF Punctual
  <2>5. CASE SendStamped \/ SendHello \/ OnHello \/ OnStamped \/ OnReply
    <3>1. UNCHANGED <<now, calm, era, down, answering, loop, wake>>
        BY <1>4, <2>5 DEF SendStamped, SendHello, OnHello, OnStamped, OnReply, Heard, node, gateway
    <3> QED BY <2>1, <3>1 DEF Punctual
  <2> QED BY <1>4, <2>2, <2>3, <2>4, <2>5
<1>5. SendStamped \/ SendHello \/ ReceiveAsk \/ Answer \/ LoopTurn => UNCHANGED <<now, calm, era>>
    BY DEF SendStamped, SendHello, ReceiveAsk, Answer, LoopTurn, node
<1> QED BY <1>1, <1>2, <1>3, <1>4, <1>5, Undisturbed DEF calmly

LEMMA TurnsStep ==
    ASSUME TypeOK, Turns, [Next]_vars
    PROVE  Turns'
<1>0. now \in Nat /\ wake \in Nat /\ Period \in Nat /\ pending \in Int
    BY Bounds
<1>1. CASE LoopTurn
  <2>1. /\ now >= wake /\ wake' = now + Period /\ now' = now /\ loop' = loop /\ linked' = linked
        /\ pending' = IF linked THEN now ELSE pending
      BY <1>1 DEF LoopTurn, NextTurn
  <2>2. ASSUME NEW r \in Int, Open(r)'
        PROVE  r <= wake' - Period
      BY <1>0, <2>1, <2>2, OpenBefore DEF Turns
  <2>3. loop' = "running" /\ pending' # None => linked' /\ pending' = wake' - Period
      BY <1>0, <2>1 DEF Turns
  <2> QED BY <1>0, <2>1, <2>2, <2>3 DEF Turns
<1>2. CASE GatewayRestart
  <2>1. /\ wake' = now + Period /\ now' = now /\ pending' = None
        /\ up' = <<>> /\ down' = <<>> /\ UNCHANGED answering
      BY <1>2 DEF GatewayRestart, NextTurn, node
  <2>2. ASSUME NEW r \in Int, Open(r)'
        PROVE  r <= wake' - Period
    <3>1. answering # NotAnswering /\ answering.t1 = r
        BY <2>1, <2>2 DEF Open, Asked, BeingAnswered, Answered
    <3> QED BY <1>0, <2>1, <3>1, Bounds
  <2> QED BY <1>0, <2>1, <2>2 DEF Turns
<1>3. ASSUME wake' = wake, now' >= now, now' \in Nat, ~LoopTurn, ~GatewayRestart
      PROVE  Turns'
  <2>1. wake' <= now' + Period
    <3>1. wake <= now + Period
        BY DEF Turns
    <3>2. \A w, n, m, p \in Nat : w <= n + p /\ m >= n => w <= m + p
        OBVIOUS
    <3> QED BY <1>0, <1>3, <3>1, <3>2
  <2>2. ASSUME NEW r \in Int, Open(r)'
        PROVE  r <= wake' - Period
      BY <1>3, <2>2, OpenBefore DEF Turns
  <2>3. loop' = "running" /\ pending' # None => linked' /\ pending' = wake' - Period
    <3>1. CASE LoopFails
        BY <3>1 DEF LoopFails
    <3>2. CASE ~LoopFails
      <4>1. loop' = loop /\ (pending' = pending \/ pending' = None) /\ (linked => linked')
          BY <1>3, <3>2 DEF Next, Tick, SendStamped, SendHello, ReceiveAsk, Answer, SimReboot,
             BoardReset, LoseUp, LoseDown, OnHello, OnStamped, OnReply, Heard, gateway, vars
      <4> QED BY <1>3, <4>1 DEF Turns
    <3> QED BY <3>1, <3>2
  <2> QED BY <2>1, <2>2, <2>3 DEF Turns
<1>4. ~LoopTurn /\ ~GatewayRestart => wake' = wake /\ (now' = now \/ now' = now + 1)
    BY DEF Next, Tick, SendStamped, SendHello, ReceiveAsk, Answer, SimReboot, Restarted, BoardReset,
       LoseUp, LoseDown, LoopFails, OnHello, OnStamped, OnReply, Heard, gateway, vars
<1>5. ~LoopTurn /\ ~GatewayRestart => now' >= now /\ now' \in Nat
    BY <1>0, <1>4
<1> QED BY <1>1, <1>2, <1>3, <1>4, <1>5

-----------------------------------------------------------------------------
(* The deadline is kept.                                                   *)

LEMMA UnderwayKept ==
    ASSUME TypeOK, Underway, [Next]_vars, UNCHANGED <<pending, calm>>,
           \/ SendStamped \/ SendHello \/ ReceiveAsk \/ Answer \/ OnHello \/ OnStamped \/ OnReply,
           ~(OnReply /\ Head(up).t1 = pending)
    PROVE  Underway'
<1>1. pending \in Int /\ Open(pending)
    BY Bounds DEF Underway
<1>2. PICK p \in Int : p = pending /\ p = pending'
    BY <1>1
<1>3. Open(p)
    BY <1>1, <1>2
<1>4. Open(p)'
    BY <1>2, <1>3, OpenAfter
<1>5. Open(pending)'
    BY <1>2, <1>4 DEF Open, Asked, BeingAnswered, Answered
<1>6. ~LoopTurn
    BY DEF LoopTurn, SendStamped, SendHello, ReceiveAsk, Answer, OnHello, OnStamped, OnReply, Heard,
           gateway, node, Say
<1>7. ASSUME NEW r \in Int, Open(r)'
      PROVE  r = pending' \/ r <= pending' - Period
  <2>1. Open(r)
      BY <1>6, <1>7, OpenBefore
  <2> QED BY <1>2, <2>1 DEF Underway
<1>8. calm' + Prompt < pending' /\ pending' <= calm' + Period + 2 * Prompt
    BY DEF Underway
<1> QED BY <1>5, <1>7, <1>8 DEF Underway

LEMMA UnderwayInTime ==
    ASSUME TypeOK, Punctual, Turns, Underway, loop = "running"
    PROVE  /\ now > calm + Prompt /\ pending # None /\ pending = wake - Period
           /\ now - pending <= 3 * Prompt
           /\ now <= calm + Period + 5 * Prompt
<1>1. /\ pending \in Int /\ calm \in Nat /\ Prompt \in Nat /\ now \in Nat /\ Period \in Nat
      /\ calm + Prompt < pending /\ pending <= calm + Period + 2 * Prompt
    BY Bounds DEF Underway
<1>2. pending # None /\ pending <= now
    BY <1>1 DEF TypeOK, None
<1>3. now > calm + Prompt
    BY <1>1, <1>2
<1>4. now - pending <= 3 * Prompt
    BY <1>1, <1>3, OpenIsYoung DEF Underway
<1> QED BY <1>1, <1>2, <1>3, <1>4 DEF Turns

LEMMA TurnProgress ==
    ASSUME TypeOK, Punctual, Turns, Progress, LoopTurn, [Next]_vars
    PROVE  Progress'
<1> SUFFICES ASSUME linked, row, loop = "running", offset.era # era
             PROVE  wake' <= calm' + Period + Prompt \/ Underway'
    BY DEF LoopTurn, node, Progress
<1>0. now \in Nat /\ wake \in Nat /\ Period \in Nat /\ calm \in Nat /\ Prompt \in Nat
      /\ 3 * Prompt < Period /\ calm <= now /\ pending \in Int /\ None = -1
    BY Bounds
<1>1. /\ now >= wake /\ wake' = now + Period /\ pending' = now /\ down' = Append(down, now)
      /\ UNCHANGED <<now, calm>>
    BY DEF LoopTurn, NextTurn
<1>2. ~Underway
  <2> SUFFICES ASSUME Underway PROVE FALSE
      OBVIOUS
  <2>1. pending = wake - Period /\ now - pending <= 3 * Prompt
      BY UnderwayInTime
  <2> QED BY <1>0, <1>1, <2>1
<1>3. wake <= calm + Period + Prompt
    BY <1>2 DEF Progress
<1>4. CASE now <= calm + Prompt
    BY <1>0, <1>1, <1>4
<1>5. CASE now > calm + Prompt
  <2>1. now <= calm + Period + 2 * Prompt
    <3>1. now > calm
        BY <1>0, <1>5
    <3>2. now - wake <= Prompt
        BY <3>1 DEF Punctual
    <3> QED BY <1>0, <1>3, <3>2
  <2>2. Open(pending)'
    <3>1. down \in Seq(0 .. now) /\ Len(down) \in Nat
        BY Bounds
    <3>2. Len(down) + 1 \in 1 .. Len(down') /\ down'[Len(down) + 1] = pending'
        BY <1>1, <3>1
    <3> QED BY <3>2 DEF Open, Asked
  <2>3. ASSUME NEW r \in Int, Open(r)'
        PROVE  r = pending' \/ r <= pending' - Period
    <3>1. Open(r) \/ r = now
        BY <2>3, OpenBefore
    <3>2. Open(r) => r <= wake - Period
        BY DEF Turns
    <3> QED BY <1>0, <1>1, <3>1, <3>2
  <2>4. calm' + Prompt < pending' /\ pending' <= calm' + Period + 2 * Prompt
      BY <1>1, <1>5, <2>1
  <2> QED BY <2>2, <2>3, <2>4 DEF Underway
<1> QED BY <1>0, <1>4, <1>5

LEMMA HearingProgress ==
    ASSUME TypeOK, Punctual, Turns, Progress, [Next]_vars, UNCHANGED calmly, row, linked,
           OnHello \/ OnReply
    PROVE  Progress'
<1> SUFFICES ASSUME loop = "running"
             PROVE  offset'.era = era \/ wake <= calm + Period + Prompt \/ Underway'
    BY DEF OnHello, OnReply, Heard, Progress, calmly
<1> DEFINE f == Head(up)
<1>0. /\ now \in Nat /\ wake \in Nat /\ Period \in Nat /\ calm \in Nat /\ Prompt \in Nat
      /\ 3 * Prompt < Period /\ calm <= now /\ pending \in Int /\ None = -1
    BY Bounds
<1>1. /\ up # <<>> /\ f = up[1] /\ 1 \in 1 .. Len(up) /\ f.made \in Nat /\ f.t1 \in Int
  <2>1. up # <<>> /\ up \in Seq(FrameType)
      BY Bounds DEF OnHello, OnReply, Heard
  <2>2. f \in FrameType /\ f = up[1] /\ 1 \in 1 .. Len(up)
      BY <2>1, HeadAndTail
  <2> QED BY <2>1, <2>2, Typed
<1>2. Timely(f, now, calm, era)
    BY <1>1 DEF Punctual
<1>3. CASE OnHello
  <2>1. f.type # "reply" /\ offset'.era = f.era
      BY <1>3 DEF OnHello, Recorded
  <2>2. CASE f.made > calm
      BY <1>2, <2>1, <2>2 DEF Timely
  <2>3. CASE ~(f.made > calm)
    <3>1. now <= calm + Prompt
        BY <1>0, <1>1, <1>2, <2>3 DEF Timely
    <3>2. wake <= now + Period
        BY DEF Turns
    <3> QED BY <1>0, <3>1, <3>2
  <2> QED BY <2>2, <2>3
<1>4. CASE OnReply /\ Matches(f)
  <2>1. f.type = "reply" /\ offset'.era = f.era /\ pending # None /\ f.t1 = pending
      BY <1>4 DEF OnReply, Recorded, Matches
  <2>2. CASE f.t1 > calm
      BY <1>2, <2>1, <2>2 DEF Timely
  <2>3. CASE ~(f.t1 > calm)
    <3>1. pending = wake - Period
        BY <2>1 DEF Turns
    <3> QED BY <1>0, <2>1, <2>3, <3>1
  <2> QED BY <2>2, <2>3
<1>5. CASE OnReply /\ ~Matches(f)
  <2>1. f.type = "reply" /\ UNCHANGED offset
      BY <1>5 DEF OnReply
  <2>2. CASE Underway
    <3>1. pending # None /\ now - pending <= 3 * Prompt /\ now > calm + Prompt
          /\ pending = wake - Period /\ pending <= now
        BY <2>2, UnderwayInTime DEF TypeOK
    <3>2. f.t1 # pending
        BY <1>5, <3>1 DEF Matches
    <3>3. Open(f.t1)
        BY <1>1, <2>1 DEF Open, Answered
    <3>4. f.t1 <= pending - Period
        BY <1>1, <2>2, <3>2, <3>3 DEF Underway
    <3>5. now - f.t1 <= 3 * Prompt
        BY <1>1, <3>1, <3>3, OpenIsYoung
    <3>6. \A h, a, b, d, q \in Int : h - a <= 3 * q /\ a <= b - d /\ b <= h => d <= 3 * q
        OBVIOUS
    <3> HIDE DEF f
    <3>7. Period <= 3 * Prompt
        BY <1>0, <1>1, <3>1, <3>4, <3>5, <3>6
    <3> QED BY <1>0, <3>7
  <2>3. CASE offset.era = era \/ wake <= calm + Period + Prompt
      BY <2>1, <2>3
  <2> QED BY <2>2, <2>3 DEF Progress
<1> QED BY <1>3, <1>4, <1>5

LEMMA ProgressStep ==
    ASSUME TypeOK, TypeOK', Punctual, Turns, Turns', Progress, [Next]_vars
    PROVE  Progress'
<1>1. CASE calm' = now'
  <2>1. wake' <= now' + Period
      BY DEF Turns
  <2>2. now' \in Nat /\ wake' \in Nat /\ Period \in Nat /\ Prompt \in Nat
      BY Sizes DEF TypeOK, Hours
  <2>3. wake' <= calm' + Period + Prompt
    <3>1. \A w, n, p, q \in Nat : w <= n + p => w <= n + p + q
        OBVIOUS
    <3> QED BY <1>1, <2>1, <2>2, <3>1
  <2> QED BY <2>3 DEF Progress
<1>2. CASE Tick /\ UNCHANGED <<calm, era>>
    BY <1>2 DEF Tick, gateway, Progress, Underway, Open, Asked, BeingAnswered, Answered
<1>3. CASE UNCHANGED vars
    BY <1>3 DEF vars, node, gateway, Progress, Underway, Open, Asked, BeingAnswered, Answered
<1>4. CASE \/ SendStamped \/ SendHello \/ ReceiveAsk \/ Answer
           \/ (OnStamped /\ linked /\ UNCHANGED calmly)
  <2>1. UNCHANGED <<row, loop, offset, era, wake, calm, pending>> /\ (linked' => linked)
      BY <1>4 DEF SendStamped, SendHello, ReceiveAsk, Answer, OnStamped, Heard, node, gateway, calmly
  <2>2. ~OnReply
    <3>1. SendStamped \/ SendHello \/ Answer => Len(up') = Len(up) + 1
      <4>1. up \in Seq(FrameType)
          BY Bounds
      <4> QED BY <4>1 DEF SendStamped, SendHello, Answer, Say
    <3>2. OnReply => Len(up') = Len(up) - 1 /\ Len(up) \in Nat
      <4>1. up \in Seq(FrameType)
          BY Bounds
      <4> QED BY <4>1, HeadAndTail DEF OnReply, Heard
    <3>3. ReceiveAsk => up' = up
        BY DEF ReceiveAsk
    <3>4. OnStamped /\ OnReply => FALSE
        BY DEF OnStamped, OnReply
    <3>5. SendStamped \/ SendHello \/ Answer => ~OnReply
        BY <3>1, <3>2
    <3>6. ReceiveAsk => ~OnReply
        BY <3>2, <3>3
    <3> QED BY <1>4, <3>4, <3>5, <3>6
  <2>3. Underway => Underway'
      BY <1>4, <2>1, <2>2, UnderwayKept
  <2> QED BY <2>1, <2>3 DEF Progress
<1>5. CASE LoopTurn
    BY <1>5, TurnProgress
<1>6. CASE OnHello /\ row /\ linked /\ UNCHANGED calmly
    BY <1>6, HearingProgress
<1>7. CASE OnReply /\ linked /\ UNCHANGED calmly
  <2>1. CASE row
      BY <1>7, <2>1, HearingProgress
  <2>2. CASE ~row
      BY <1>7, <2>2 DEF OnReply, Progress
  <2> QED BY <2>1, <2>2
<1> QED BY <1>1, <1>2, <1>3, <1>4, <1>5, <1>6, <1>7, Undisturbed

LEMMA InitSInv == Init => SInv
<1> SUFFICES ASSUME Init PROVE SInv
    OBVIOUS
<1>1. /\ Len(up) = 0 /\ Len(down) = 0 /\ answering = NotAnswering /\ now = 0 /\ calm = 0
      /\ wake = Period /\ pending = None /\ ~linked /\ Period \in Nat
    BY Sizes DEF Init
<1>2. \A r \in Int : ~Open(r)
    BY <1>1 DEF Open, Asked, BeingAnswered, Answered
<1> QED BY <1>1, <1>2 DEF SInv, Punctual, Turns, Progress

LEMMA SInvStep == IInv /\ IInv' /\ SInv /\ [Next]_vars => SInv'
<1> SUFFICES ASSUME IInv, IInv', SInv, [Next]_vars PROVE SInv'
    OBVIOUS
<1>1. TypeOK /\ TypeOK' /\ Punctual /\ Turns /\ Progress
    BY DEF IInv, SInv
<1>2. Past'
    BY FramesArePast, PTL
<1>3. Uptime \in 0 .. now
    BY UptimeReads DEF IInv, ClockInv
<1>4. Punctual'
    BY <1>1, <1>2, <1>3, PunctualStep
<1>5. Turns'
    BY <1>1, TurnsStep
<1>6. Progress'
    BY <1>1, <1>5, ProgressStep
<1> QED BY <1>4, <1>5, <1>6 DEF SInv

\* After a reboot, a lap of the clock, a restart of the gateway or a lost frame, one
\* period of the loop and a prompt exchange put the offset right, whatever answers to
\* older requests are still on their way: as long as the loop is alive, and an exchange
\* is over before the next one begins.
THEOREM Synchronised == Spec => []SyncedInTime
<1>1. IInv /\ SInv => SyncedInTime
  <2> SUFFICES ASSUME TypeOK, SInv, linked, row, loop = "running",
                      now - calm > Period + 5 * Prompt
               PROVE  offset.era = era
      BY DEF IInv, SyncedInTime
  <2>1. /\ now \in Nat /\ calm \in Nat /\ wake \in Nat /\ Period \in Nat /\ Prompt \in Nat
      BY Bounds
  <2>2. Punctual /\ Turns /\ Progress
      BY DEF SInv
  <2>3. ~Underway
      BY <2>1, <2>2, UnderwayInTime
  <2>4. ~(wake <= calm + Period + Prompt)
    <3>1. now - wake <= Prompt
        BY <2>1, <2>2 DEF Punctual
    <3> QED BY <2>1, <3>1
  <2> QED BY <2>2, <2>3, <2>4 DEF Progress
<1> QED BY <1>1, InitSInv, SInvStep, ClocksAreRead, PTL DEF Spec
=============================================================================
