----------------------------- MODULE LinksProofs -----------------------------
(***************************************************************************)
(* The links of the gateway, and the framings of the streams they read.    *)
(*                                                                         *)
(* For any number of links, kinds, ids, tries and queue lengths: connected *)
(* means that a pump is reading, and priming never switches a board's mode *)
(* off again.                                                              *)
(*                                                                         *)
(* For any bodies, any cut of the stream into chunks and any number of     *)
(* flipped, lost and printed bytes: every byte a decoder is given surfaces *)
(* in an event or is held back, and a frame the line did not touch is      *)
(* decoded once, as it was sent.                                           *)
(***************************************************************************)
EXTENDS Links, Codec, SequenceTheorems, WellFoundedInduction, TLAPS

Kind == {"none", "serial", "tcp", "morse", "replay"}
Command == {"r", "v"}

\* No command, or at most one, is the one that toggles.
NoToggle(s) == \A i \in 1 .. Len(s) : s[i] # "v"
OneToggle(s) == \A i, j \in 1 .. Len(s) : s[i] = "v" /\ s[j] = "v" => i = j

\* Before the priming is over no 'v' was sent; afterwards at most one is on its
\* way, and only to a board whose mode is off.
PrimingInv ==
    \A l \in Link :
        /\ ~primed[l] => NoToggle(cmds[l]) /\ verbose[l] = 0
        /\ OneToggle(cmds[l])
        /\ verbose[l] = 1 => NoToggle(cmds[l])

\* The variables of the properties.
LifeType ==
    /\ stage \in [Link -> {"unused", "opening", "failed", "up", "stopping", "gone"}]
    /\ connected \in [Link -> BOOLEAN]
    /\ pump \in [Link -> {"none", "reading", "sending", "cancelled", "done"}]
    /\ told \in [Link -> {"nothing", "up", "closed", "error", "detached"}]

BoardType ==
    /\ primed \in [Link -> BOOLEAN] /\ verbose \in [Link -> {0, 1}]
    /\ cmds \in [Link -> Seq(Command)]

ConnInv == LifeType /\ ConnectedMeansPumping
ToggleInv == BoardType /\ PrimingInv
-----------------------------------------------------------------------------
(* Connected means pumping.                                                *)

LEMMA InitConn == Init => ConnInv
BY DEF Init, ConnInv, LifeType, ConnectedMeansPumping

\* A pump that stops tells subscribers that the link is not connected any more.
LEMMA PumpStopsConn ==
    ASSUME ConnInv, NEW l \in Link, NEW news \in {"closed", "error"}, PumpStops(l, news)
    PROVE  ConnInv'
BY DEF PumpStops, ConnInv, LifeType, ConnectedMeansPumping

\* Link.stop: not connected from the moment the pump is cancelled.
LEMMA StopConn ==
    ASSUME ConnInv, NEW l \in Link, Stop(l), UNCHANGED told
    PROVE  ConnInv'
BY DEF Stop, Cancelled, ConnInv, LifeType, ConnectedMeansPumping

LEMMA NextConn == ConnInv /\ [Next]_vars => ConnInv'
<1> SUFFICES ASSUME ConnInv, [Next]_vars PROVE ConnInv'
    OBVIOUS
<1> USE DEF ConnInv, LifeType, ConnectedMeansPumping
<1>1. ASSUME UNCHANGED <<stage, connected, pump, told>> PROVE ConnInv'
    BY <1>1
<1>2. ASSUME NEW l \in Link, NEW k \in Kinds[l], Attach(l, k) PROVE ConnInv'
    BY <1>2 DEF Attach
<1>3. ASSUME NEW l \in Link, Opened(l) PROVE ConnInv'
    BY <1>3 DEF Opened
<1>4. ASSUME NEW l \in Link, OpenFails(l) PROVE ConnInv'
    BY <1>4 DEF OpenFails
<1>5. ASSUME NEW l \in Link, Pump(l) PROVE ConnInv'
  <2>1. CASE PumpFrame(l)
      BY <2>1 DEF PumpFrame
  <2>2. CASE PumpSent(l)
      BY <2>2 DEF PumpSent
  <2>3. CASE PumpLine(l)
      BY <2>3, <1>1 DEF PumpLine, life
  <2>4. CASE PumpEnds(l)
      BY <2>4, PumpStopsConn DEF PumpEnds
  <2>5. CASE PumpFails(l)
      BY <2>5, PumpStopsConn DEF PumpFails
  <2>6. CASE PumpCancelled(l)
      BY <2>6 DEF PumpCancelled
  <2> QED BY <1>5, <2>1, <2>2, <2>3, <2>4, <2>5, <2>6 DEF Pump
<1>6. ASSUME NEW l \in Link, Poll(l) PROVE ConnInv'
    BY <1>6, <1>1 DEF Poll, PollFirst, PollTurn, PollCheck, PollCancelled, life
<1>7. ASSUME NEW l \in Link, Board(l) \/ MediumEnds(l) \/ MediumBreaks(l) PROVE ConnInv'
    BY <1>7, <1>1 DEF Board, BoardBoots, BoardMisses, BoardAnswers, MediumEnds, MediumBreaks,
                      life
<1>8. ASSUME NEW l \in Link, Detach(l) \/ ShutdownLink(l) PROVE ConnInv'
    BY <1>8, StopConn DEF Detach, ShutdownLink
<1>9. ASSUME NEW l \in Link, Closed(l) PROVE ConnInv'
    BY <1>9 DEF Closed
<1>10. CASE Shutdown \/ UNCHANGED vars
    BY <1>10, <1>1 DEF Shutdown, vars, life
<1> QED BY <1>2, <1>3, <1>4, <1>5, <1>6, <1>7, <1>8, <1>9, <1>10 DEF Next

\* A link that says it is connected is registered and has a pump that reads it, and
\* subscribers who believe a registered link to be up are right: whatever ends,
\* breaks, is detached or shut down, in any order, on any number of links.
THEOREM Connected == Spec => []ConnectedMeansPumping
<1>1. ConnInv => ConnectedMeansPumping
    BY DEF ConnInv
<1> QED BY <1>1, InitConn, NextConn, PTL DEF Spec
-----------------------------------------------------------------------------
(* Priming.                                                                *)

LEMMA InitToggle == Init => ToggleInv
BY DEF Init, ToggleInv, BoardType, PrimingInv, NoToggle, OneToggle, Command

\* What an append to a queue of commands, or a tail of it, is like.
LEMMA AppendToggle ==
    ASSUME NEW s \in Seq(Command), NEW c \in Command
    PROVE  /\ Append(s, c) \in Seq(Command)
           /\ NoToggle(s) /\ c = "r" => NoToggle(Append(s, c))
           /\ OneToggle(s) /\ (c = "r" \/ NoToggle(s)) => OneToggle(Append(s, c))
<1>1. /\ Len(s) \in Nat /\ Len(Append(s, c)) = Len(s) + 1
      /\ \A i \in 1 .. Len(s) : Append(s, c)[i] = s[i]
      /\ Append(s, c)[Len(s) + 1] = c
    OBVIOUS
<1> QED BY <1>1 DEF NoToggle, OneToggle

LEMMA TailToggle ==
    ASSUME NEW s \in Seq(Command), s # <<>>
    PROVE  /\ Tail(s) \in Seq(Command) /\ Head(s) \in Command
           /\ NoToggle(s) => NoToggle(Tail(s)) /\ Head(s) = "r"
           /\ OneToggle(s) => OneToggle(Tail(s))
           /\ OneToggle(s) /\ Head(s) = "v" => NoToggle(Tail(s))
<1>1. /\ Len(s) \in Nat /\ Len(Tail(s)) = Len(s) - 1 /\ Len(s) >= 1
      /\ \A i \in 1 .. Len(Tail(s)) : Tail(s)[i] = s[i + 1]
      /\ Head(s) = s[1] /\ s[1] \in Command /\ 1 \in 1 .. Len(s)
    OBVIOUS
<1>2. Tail(s) \in Seq(Command)
    OBVIOUS
<1>3. NoToggle(s) => NoToggle(Tail(s)) /\ Head(s) = "r"
  <2>1. \A i \in 1 .. Len(Tail(s)) : i + 1 \in 1 .. Len(s)
      BY <1>1
  <2> QED BY <1>1, <2>1 DEF NoToggle, Command
<1>4. OneToggle(s) => OneToggle(Tail(s))
  <2> SUFFICES ASSUME OneToggle(s), NEW i \in 1 .. Len(Tail(s)), NEW j \in 1 .. Len(Tail(s)),
                      Tail(s)[i] = "v", Tail(s)[j] = "v"
               PROVE  i = j
      BY DEF OneToggle
  <2>1. i + 1 \in 1 .. Len(s) /\ j + 1 \in 1 .. Len(s) /\ s[i + 1] = "v" /\ s[j + 1] = "v"
      BY <1>1
  <2>2. i + 1 = j + 1
      BY <2>1 DEF OneToggle
  <2> QED BY <2>2
<1>5. OneToggle(s) /\ Head(s) = "v" => NoToggle(Tail(s))
  <2> SUFFICES ASSUME OneToggle(s), s[1] = "v", NEW i \in 1 .. Len(Tail(s)), Tail(s)[i] = "v"
               PROVE  FALSE
      BY <1>1 DEF NoToggle
  <2>1. i + 1 \in 1 .. Len(s) /\ s[i + 1] = "v"
      BY <1>1
  <2>2. i + 1 = 1
      BY <2>1, <1>1 DEF OneToggle
  <2> QED BY <2>2
<1> QED BY <1>1, <1>2, <1>3, <1>4, <1>5

\* The poll writes an 'r': nothing changes.
LEMMA WriteAsk ==
    ASSUME ToggleInv, NEW l \in Link, NEW next,
           \/ Write(l, "r", next)
           \/ UNCHANGED cmds,
           primed' \in [Link -> BOOLEAN], \A m \in Link : primed[m] => primed'[m],
           UNCHANGED verbose
    PROVE  ToggleInv'
<1>1. \/ UNCHANGED cmds
      \/ cmds' = [cmds EXCEPT ![l] = Append(@, "r")]
    BY DEF Write
<1>2. cmds[l] \in Seq(Command) /\ "r" \in Command
    BY DEF ToggleInv, BoardType, Command
<1>3. /\ Append(cmds[l], "r") \in Seq(Command)
      /\ NoToggle(cmds[l]) => NoToggle(Append(cmds[l], "r"))
      /\ OneToggle(cmds[l]) => OneToggle(Append(cmds[l], "r"))
    BY <1>2, AppendToggle
<1>4. BoardType'
    BY <1>1, <1>3 DEF ToggleInv, BoardType
<1>5. \A m \in Link : /\ NoToggle(cmds[m]) => NoToggle(cmds'[m])
                      /\ OneToggle(cmds[m]) => OneToggle(cmds'[m])
    BY <1>1, <1>3 DEF ToggleInv, BoardType
<1>6. PrimingInv'
    BY <1>5 DEF ToggleInv, BoardType, PrimingInv
<1> QED BY <1>4, <1>6 DEF ToggleInv

\* The one turn of the poll that writes a 'v' also ends the priming.
LEMMA PollTurnToggle ==
    ASSUME ToggleInv, NEW l \in Link, PollTurn(l)
    PROVE  ToggleInv'
<1>1. /\ primed' = [primed EXCEPT ![l] = Primed(l)] /\ UNCHANGED verbose
      /\ Primed(l) \in BOOLEAN /\ primed[l] => Primed(l)
    BY DEF PollTurn, Primed, LastTry, ToggleInv, BoardType
<1>2. primed' \in [Link -> BOOLEAN] /\ \A m \in Link : primed[m] => primed'[m]
  <2>1. PICK over \in BOOLEAN : /\ primed' = [primed EXCEPT ![l] = over]
                                /\ primed[l] => over
    <3>1. CASE Primed(l)
      <4>1. Primed(l) = TRUE
          BY <1>1, <3>1
      <4> QED BY <1>1, <4>1
    <3>2. CASE ~Primed(l)
      <4>1. Primed(l) = FALSE
          BY <1>1, <3>2
      <4> QED BY <1>1, <4>1
    <3> QED BY <3>1, <3>2
  <2>2. primed \in [Link -> BOOLEAN]
      BY DEF ToggleInv, BoardType
  <2> QED BY <2>1, <2>2
<1>3. CASE ~primed[l] /\ ~LastTry(l) /\ known[l] = 0 /\ medium[l] = "live"
  <2>1. cmds' = [cmds EXCEPT ![l] = Append(@, "v")]
      BY <1>3 DEF PollTurn, Write
  <2>2. Primed(l)
      BY <1>3 DEF Primed, Unknown
  <2>3. cmds[l] \in Seq(Command) /\ "v" \in Command
      BY DEF ToggleInv, BoardType, Command
  <2>4. Append(cmds[l], "v") \in Seq(Command) /\ OneToggle(Append(cmds[l], "v"))
    <3>1. NoToggle(cmds[l]) /\ OneToggle(cmds[l])
        BY <1>3 DEF ToggleInv, PrimingInv
    <3> QED BY <2>3, <3>1, AppendToggle
  <2>5. BoardType'
      BY <1>1, <1>2, <2>1, <2>4 DEF ToggleInv, BoardType
  <2>6. ASSUME NEW m \in Link PROVE PrimingInv!(m)'
    <3>1. CASE m = l
        BY <1>1, <1>3, <2>1, <2>2, <2>4, <3>1 DEF ToggleInv, BoardType, PrimingInv
    <3>2. CASE m # l
        BY <1>1, <2>1, <3>2 DEF ToggleInv, BoardType, PrimingInv
    <3> QED BY <3>1, <3>2
  <2>7. PrimingInv'
      BY <2>6 DEF PrimingInv
  <2> QED BY <2>5, <2>7 DEF ToggleInv
<1>4. CASE ~(~primed[l] /\ ~LastTry(l) /\ known[l] = 0 /\ medium[l] = "live")
  <2>1. Write(l, "r", "wait") \/ UNCHANGED cmds
      BY <1>4 DEF PollTurn, AskAgain, Write
  <2> QED BY <1>1, <1>2, <2>1, WriteAsk
<1> QED BY <1>3, <1>4

\* The board takes a command off the queue and carries it out, or misses it.
LEMMA BoardToggle ==
    ASSUME ToggleInv, NEW l \in Link, BoardMisses(l) \/ BoardAnswers(l)
    PROVE  ToggleInv' /\ \A m \in Link : verbose[m] = 1 => verbose'[m] = 1
<1>1. /\ cmds[l] # <<>> /\ cmds' = [cmds EXCEPT ![l] = Tail(@)] /\ UNCHANGED primed
      /\ \/ UNCHANGED verbose
         \/ verbose' = [verbose EXCEPT ![l] =
                            IF Head(cmds[l]) = "v" THEN 1 - verbose[l] ELSE verbose[l]]
    BY DEF BoardMisses, BoardAnswers, asking
<1>2. cmds[l] \in Seq(Command)
    BY DEF ToggleInv, BoardType
<1>3. /\ Tail(cmds[l]) \in Seq(Command)
      /\ NoToggle(cmds[l]) => NoToggle(Tail(cmds[l])) /\ Head(cmds[l]) = "r"
      /\ OneToggle(cmds[l]) => OneToggle(Tail(cmds[l]))
      /\ OneToggle(cmds[l]) /\ Head(cmds[l]) = "v" => NoToggle(Tail(cmds[l]))
    BY <1>1, <1>2, TailToggle
<1>4. /\ ~primed[l] => NoToggle(cmds[l]) /\ verbose[l] = 0
      /\ OneToggle(cmds[l])
      /\ verbose[l] = 1 => NoToggle(cmds[l])
      /\ verbose[l] \in {0, 1}
    BY DEF ToggleInv, BoardType, PrimingInv
<1>5. BoardType'
    BY SMTT(30), <1>1, <1>3, <1>4 DEF ToggleInv, BoardType
<1>6. /\ cmds'[l] = Tail(cmds[l]) /\ verbose'[l] \in {0, 1}
      /\ verbose[l] = 1 => verbose'[l] = 1
      /\ verbose'[l] # verbose[l] => Head(cmds[l]) = "v"
      /\ \A m \in Link \ {l} : cmds'[m] = cmds[m] /\ verbose'[m] = verbose[m]
    BY <1>1, <1>3, <1>4 DEF ToggleInv, BoardType
<1>7. PrimingInv!(l)'
    BY <1>1, <1>3, <1>4, <1>6
<1>8. ASSUME NEW m \in Link \ {l} PROVE PrimingInv!(m)'
    BY <1>1, <1>6, <1>8 DEF ToggleInv, PrimingInv
<1>9. PrimingInv'
    BY <1>7, <1>8 DEF PrimingInv
<1>10. \A m \in Link : verbose[m] = 1 => verbose'[m] = 1
    BY <1>6
<1> QED BY <1>5, <1>9, <1>10 DEF ToggleInv

LEMMA NextToggle ==
    ToggleInv /\ [Next]_vars => ToggleInv' /\ \A m \in Link : verbose[m] = 1 => verbose'[m] = 1
<1> SUFFICES ASSUME ToggleInv, [Next]_vars
             PROVE  ToggleInv' /\ \A m \in Link : verbose[m] = 1 => verbose'[m] = 1
    OBVIOUS
<1>1. ASSUME UNCHANGED <<primed, cmds, verbose>>
      PROVE  ToggleInv' /\ \A m \in Link : verbose[m] = 1 => verbose'[m] = 1
    BY <1>1 DEF ToggleInv, BoardType, PrimingInv
<1>2. ASSUME NEW l \in Link, Opened(l)
      PROVE  ToggleInv' /\ \A m \in Link : verbose[m] = 1 => verbose'[m] = 1
    <2>1. /\ UNCHANGED <<cmds, verbose>>
          /\ primed' \in {primed, [primed EXCEPT ![l] = TRUE]}
        BY <1>2 DEF Opened, board
    <2> QED BY <2>1 DEF ToggleInv, BoardType, PrimingInv
<1>3. ASSUME NEW l \in Link, PollFirst(l) \/ PollCheck(l)
      PROVE  ToggleInv' /\ \A m \in Link : verbose[m] = 1 => verbose'[m] = 1
  <2>1. /\ UNCHANGED <<primed, verbose>>
        /\ Write(l, "r", "wait") \/ UNCHANGED cmds
      BY <1>3 DEF PollFirst, PollCheck, AskAgain
  <2>2. primed' \in [Link -> BOOLEAN]
      BY <2>1 DEF ToggleInv, BoardType
  <2> QED BY <2>1, <2>2, WriteAsk
<1>4. ASSUME NEW l \in Link, PollTurn(l)
      PROVE  ToggleInv' /\ \A m \in Link : verbose[m] = 1 => verbose'[m] = 1
    BY <1>4, PollTurnToggle DEF PollTurn
<1>5. ASSUME NEW l \in Link, BoardMisses(l) \/ BoardAnswers(l)
      PROVE  ToggleInv' /\ \A m \in Link : verbose[m] = 1 => verbose'[m] = 1
    BY <1>5, BoardToggle
<1>6. ASSUME NEW l \in Link,
             \/ \E k \in Kinds[l] : Attach(l, k)
             \/ OpenFails(l) \/ Pump(l) \/ PollCancelled(l) \/ BoardBoots(l)
             \/ MediumEnds(l) \/ MediumBreaks(l) \/ Detach(l) \/ Closed(l) \/ ShutdownLink(l)
      PROVE  UNCHANGED <<primed, cmds, verbose>>
    BY <1>6 DEF Attach, OpenFails, Pump, PumpFrame, PumpSent, PumpLine, PumpEnds, PumpFails,
                PumpStops, PumpCancelled, PollCancelled, BoardBoots, MediumEnds,
                MediumBreaks, Detach, Closed, ShutdownLink, asking, board
<1>7. CASE Shutdown \/ UNCHANGED vars
    BY <1>7, <1>1 DEF Shutdown, vars, asking, board
<1> QED BY <1>1, <1>2, <1>3, <1>4, <1>5, <1>6, <1>7 DEF Next, Poll, Board

\* 'v' toggles the mode of the board, so a second one would switch it off again, and
\* so would a first one that meets a mode that is on.  Neither is ever carried out,
\* however late the answers to 'r' come and whatever the board missed while booting.
THEOREM Priming == Spec => PrimingSticks
<1>1. ToggleInv /\ [Next]_vars => [\A l \in Link : verbose[l] = 1 => verbose'[l] = 1]_verbose
    BY NextToggle
<1>2. Spec => []ToggleInv
    BY InitToggle, NextToggle, PTL DEF Spec
<1> QED BY <1>1, <1>2, PTL DEF Spec, PrimingSticks
-----------------------------------------------------------------------------
(* Types.                                                                  *)

\* A poll that is not over has a try left, and a board that boots has said nothing.
TypeInv ==
    /\ TypeOK
    /\ \A l \in Link : (~primed[l] => tries_left[l] >= 1) /\ (~booted[l] => lines[l] = <<>>)

\* The id of a Morse source is one of those there are, taken or not.
LEMMA NodeIdType == ASSUME NEW l \in Link PROVE NodeId(l) \in 0 .. IdSpace - 1
<1> DEFINE taken == {node_id[m] : m \in Registered}
           free == {d \in 0 .. IdSpace - 1 : (Base(l) + d) % IdSpace \notin taken}
<1>1. IdSpace \in Nat \ {0} /\ Base(l) \in 0 .. IdSpace - 1
    BY LinksAssumption
<1>2. CASE free = {}
    BY <1>1, <1>2 DEF NodeId
<1>3. CASE free # {}
  <2> DEFINE first == CHOOSE d \in free : \A e \in free : d <= e
  <2>1. free \subseteq Nat
      BY <1>1
  <2>2. PICK d \in free : \A e \in free : ~(<<e, d>> \in OpToRel(<, Nat))
    <3> HIDE DEF free
    <3> QED BY <1>3, <2>1, WFMin, NatLessThanWellFounded
  <2>3. ASSUME NEW e \in free PROVE d <= e
    <3>1. e \in Nat /\ d \in Nat
        BY <2>1
    <3>2. e < d => <<e, d>> \in OpToRel(<, Nat)
        BY <3>1 DEF OpToRel
    <3>3. ~(<<e, d>> \in OpToRel(<, Nat))
      <4> HIDE DEF free
      <4> QED BY <2>2
    <3>4. ~(e < d)
        BY <3>2, <3>3, Zenon
    <3> QED BY <3>1, <3>4
  <2>4. first \in free
    <3> HIDE DEF free
    <3> QED BY <2>2, <2>3
  <2>5. first \in 0 .. IdSpace - 1
      BY <2>4
  <2>6. NodeId(l) = (Base(l) + first) % IdSpace
      BY <1>3 DEF NodeId
  <2> HIDE DEF first
  <2> QED BY <1>1, <2>5, <2>6
<1> QED BY <1>2, <1>3

LEMMA InitType == Init => TypeInv
<1> SUFFICES ASSUME Init PROVE TypeInv
    OBVIOUS
<1>1. MaxQueue \in Nat /\ Tries \in Nat /\ Tries >= 1
    BY LinksAssumption
<1>2. <<>> \in Seq(Command) /\ <<>> \in Seq({0, 1}) /\ Len(<<>>) = 0
    OBVIOUS
<1>3. /\ cmds \in [Link -> Seq(Command)] /\ lines \in [Link -> Seq({0, 1})]
      /\ \A l \in Link : Len(cmds[l]) <= MaxQueue /\ Len(lines[l]) <= MaxQueue
    BY <1>1, <1>2 DEF Init
<1>4. /\ tries_left \in [Link -> 0 .. Tries] /\ known \in [Link -> {Unknown, 0, 1}]
      /\ \A l \in Link : tries_left[l] >= 1 /\ lines[l] = <<>>
      /\ node_id \in [Link -> (0 .. IdSpace - 1) \cup {NoId}]
    BY <1>1 DEF Init
<1> QED BY <1>3, <1>4 DEF Init, TypeInv, TypeOK, Command

\* What the poll writes fits in the queue.
LEMMA WriteType ==
    ASSUME TypeInv, NEW l \in Link, NEW c \in Command, NEW next \in {"wait", "check"},
           Write(l, c, next)
    PROVE  /\ cmds' \in [Link -> Seq(Command)] /\ \A m \in Link : Len(cmds'[m]) <= MaxQueue
           /\ poll' \in [Link -> {"none", "boot", "wait", "check", "cancelled", "done"}]
<1>1. /\ cmds \in [Link -> Seq(Command)] /\ \A m \in Link : Len(cmds[m]) <= MaxQueue
      /\ poll \in [Link -> {"none", "boot", "wait", "check", "cancelled", "done"}]
      /\ MaxQueue \in Nat
    BY LinksAssumption DEF TypeInv, TypeOK, Command
<1>2. CASE UNCHANGED cmds /\ poll' = [poll EXCEPT ![l] = "done"]
    BY <1>1, <1>2
<1>3. CASE Len(cmds[l]) < MaxQueue /\ cmds' = [cmds EXCEPT ![l] = Append(@, c)]
           /\ poll' = [poll EXCEPT ![l] = next]
  <2>1. Append(cmds[l], c) \in Seq(Command) /\ Len(Append(cmds[l], c)) = Len(cmds[l]) + 1
        /\ Len(cmds[l]) \in Nat
      BY <1>1
  <2> QED BY <1>1, <1>3, <2>1
<1> QED BY <1>2, <1>3 DEF Write

LEMMA AskAgainType ==
    ASSUME TypeInv, NEW l \in Link, AskAgain(l)
    PROVE  /\ cmds' \in [Link -> Seq(Command)] /\ \A m \in Link : Len(cmds'[m]) <= MaxQueue
           /\ poll' \in [Link -> {"none", "boot", "wait", "check", "cancelled", "done"}]
<1>1. CASE Write(l, "r", "wait")
    BY <1>1, WriteType DEF Command
<1>2. CASE poll' = [poll EXCEPT ![l] = "done"] /\ UNCHANGED cmds
    BY <1>2 DEF TypeInv, TypeOK, Command
<1> QED BY <1>1, <1>2 DEF AskAgain

LEMMA PollType ==
    ASSUME TypeInv, NEW l \in Link, Poll(l)
    PROVE  TypeInv'
<1>1. CASE PollFirst(l)
  <2>1. Write(l, "r", "wait")
      BY <1>1 DEF PollFirst
  <2> QED BY <1>1, <2>1, WriteType DEF PollFirst, life, TypeInv, TypeOK, Command
<1>2. CASE PollTurn(l)
  <2>1. /\ cmds' \in [Link -> Seq(Command)] /\ \A m \in Link : Len(cmds'[m]) <= MaxQueue
        /\ poll' \in [Link -> {"none", "boot", "wait", "check", "cancelled", "done"}]
      BY <1>2, WriteType, AskAgainType DEF PollTurn, Command
  <2>2. /\ tries_left' = [tries_left EXCEPT ![l] = IF primed[l] THEN @ ELSE @ - 1]
        /\ primed' = [primed EXCEPT ![l] = Primed(l)]
        /\ UNCHANGED <<life, known, lines, booted, verbose>>
      BY <1>2 DEF PollTurn
  <2>3. /\ tries_left \in [Link -> 0 .. Tries] /\ primed \in [Link -> BOOLEAN] /\ Tries \in Nat
        /\ \A m \in Link : ~primed[m] => tries_left[m] >= 1
      BY LinksAssumption DEF TypeInv, TypeOK
  <2>4. tries_left' \in [Link -> 0 .. Tries]
      BY <2>2, <2>3
  <2>5. ~Primed(l) => ~primed[l] /\ tries_left[l] > 1
      BY <2>3 DEF Primed, LastTry
  <2>6. primed' \in [Link -> BOOLEAN] /\ \A m \in Link : ~primed'[m] => tries_left'[m] >= 1
    <3>1. CASE Primed(l)
      <4>1. primed' = [primed EXCEPT ![l] = TRUE]
          BY <2>2, <3>1 DEF Primed
      <4> QED BY <2>2, <2>3, <4>1
    <3>2. CASE ~Primed(l)
      <4>1. primed' = [primed EXCEPT ![l] = FALSE]
          BY <2>2, <3>2 DEF Primed
      <4>2. tries_left' = [tries_left EXCEPT ![l] = tries_left[l] - 1] /\ tries_left[l] > 1
          BY <2>2, <2>3, <2>5, <3>2
      <4> QED BY <2>3, <4>1, <4>2
    <3> QED BY <3>1, <3>2
  <2> QED BY <2>1, <2>2, <2>4, <2>6 DEF life, TypeInv, TypeOK, Command
<1>3. CASE PollCheck(l)
    BY <1>3, AskAgainType DEF PollCheck, life, TypeInv, TypeOK, Command
<1>4. CASE PollCancelled(l)
    BY <1>4 DEF PollCancelled, life, board, TypeInv, TypeOK
<1> QED BY <1>1, <1>2, <1>3, <1>4 DEF Poll

LEMMA BoardStepType ==
    ASSUME TypeInv, NEW l \in Link, Board(l) \/ PumpLine(l)
    PROVE  TypeInv'
<1>1. /\ cmds \in [Link -> Seq(Command)] /\ lines \in [Link -> Seq({0, 1})]
      /\ \A m \in Link : Len(cmds[m]) <= MaxQueue /\ Len(lines[m]) <= MaxQueue
      /\ verbose \in [Link -> {0, 1}] /\ known \in [Link -> {Unknown, 0, 1}]
      /\ booted \in [Link -> BOOLEAN] /\ MaxQueue \in Nat \ {0}
      /\ \A m \in Link : ~booted[m] => lines[m] = <<>>
    BY LinksAssumption DEF TypeInv, TypeOK, Command
<1>2. /\ \A v \in {0, 1} : /\ Append(lines[l], v) \in Seq({0, 1})
                           /\ Len(Append(lines[l], v)) = Len(lines[l]) + 1
      /\ Len(lines[l]) \in Nat /\ Len(cmds[l]) \in Nat
      /\ cmds[l] # <<>> => Tail(cmds[l]) \in Seq(Command) /\ Len(Tail(cmds[l])) = Len(cmds[l]) - 1
      /\ lines[l] # <<>> => /\ Tail(lines[l]) \in Seq({0, 1}) /\ Head(lines[l]) \in {0, 1}
                            /\ Len(Tail(lines[l])) = Len(lines[l]) - 1
      /\ Len(<<>>) = 0
    BY <1>1
<1>3. /\ cmds' \in [Link -> Seq(Command)] /\ lines' \in [Link -> Seq({0, 1})]
      /\ \A m \in Link : Len(cmds'[m]) <= MaxQueue /\ Len(lines'[m]) <= MaxQueue
      /\ verbose' \in [Link -> {0, 1}] /\ known' \in [Link -> {Unknown, 0, 1}]
      /\ booted' \in [Link -> BOOLEAN]
      /\ \A m \in Link : ~booted'[m] => lines'[m] = <<>>
      /\ UNCHANGED <<life, poll, primed, tries_left>>
  <2>1. CASE BoardBoots(l)
    <3>1. lines[l] = <<>> /\ verbose[l] \in {0, 1}
        BY <1>1, <2>1 DEF BoardBoots
    <3>2. /\ lines' = [lines EXCEPT ![l] = Append(lines[l], verbose[l])]
          /\ booted' = [booted EXCEPT ![l] = TRUE]
          /\ UNCHANGED <<life, asking, cmds, verbose>>
        BY <2>1 DEF BoardBoots
    <3>3. Append(lines[l], verbose[l]) \in Seq({0, 1}) /\ Len(Append(lines[l], verbose[l])) = 1
        BY <1>2, <3>1
    <3> QED BY <1>1, <3>2, <3>3 DEF asking
  <2>2. CASE BoardMisses(l)
      BY <1>1, <1>2, <2>2 DEF BoardMisses, asking
  <2>3. CASE BoardAnswers(l)
    <3>1. (IF Head(cmds[l]) = "v" THEN 1 - verbose[l] ELSE verbose[l]) \in {0, 1}
        BY <1>1
    <3> QED BY <1>1, <1>2, <2>3, <3>1 DEF BoardAnswers, asking
  <2>4. CASE PumpLine(l)
      BY <1>1, <1>2, <2>4 DEF PumpLine
  <2> QED BY <2>1, <2>2, <2>3, <2>4 DEF Board
<1> QED BY <1>3 DEF TypeInv, TypeOK, life, Command

\* Steps of links that leave the poll's variables and the board alone.
LifeOK ==
    /\ kind \in [Link -> Kind] /\ LifeType
    /\ medium \in [Link -> {"closed", "live", "ended", "broken"}]
    /\ node_id \in [Link -> (0 .. IdSpace - 1) \cup {NoId}] /\ down \in BOOLEAN
    /\ poll \in [Link -> {"none", "boot", "wait", "check", "cancelled", "done"}]

LEMMA TypedLife == TypeInv => LifeOK
BY DEF TypeInv, TypeOK, LifeOK, LifeType, Kind

LEMMA LifeStepType ==
    ASSUME TypeInv, LifeOK', UNCHANGED <<primed, tries_left, known, board>>
    PROVE  TypeInv'
BY DEF TypeInv, TypeOK, LifeOK, LifeType, Kind, board

LEMMA NextType == TypeInv /\ [Next]_vars => TypeInv'
<1> SUFFICES ASSUME TypeInv, [Next]_vars PROVE TypeInv'
    OBVIOUS
<1>1. ASSUME NEW l \in Link, NEW k \in Kinds[l], Attach(l, k) PROVE TypeInv'
  <2>1. k \in Kind /\ NodeId(l) \in 0 .. IdSpace - 1
      BY NodeIdType, LinksAssumption DEF Kind
  <2>2. /\ kind' = [kind EXCEPT ![l] = k]
        /\ stage' = [stage EXCEPT ![l] = "opening"]
        /\ UNCHANGED <<connected, pump, medium, told, down, asking, board>>
        /\ \/ node_id' = [node_id EXCEPT ![l] = NodeId(l)]
           \/ node_id' = [node_id EXCEPT ![l] = NoId]
      BY <1>1 DEF Attach
  <2> HIDE DEF NodeId
  <2> QED BY ZenonT(30), <2>1, <2>2 DEF TypeInv, TypeOK, asking, board, Kind
<1>2. ASSUME NEW l \in Link, Opened(l) \/ OpenFails(l) PROVE TypeInv'
  <2>1. CASE Opened(l)
      BY ZenonT(30), <2>1 DEF Opened, board, TypeInv, TypeOK
  <2>2. CASE OpenFails(l)
      BY <2>2 DEF OpenFails, asking, board, TypeInv, TypeOK
  <2> QED BY <1>2, <2>1, <2>2
<1>3. ASSUME NEW l \in Link, Pump(l) PROVE TypeInv'
  <2>1. CASE PumpLine(l)
      BY <2>1, BoardStepType
  <2>2. CASE ~PumpLine(l)
    <3>1. LifeOK' /\ UNCHANGED <<primed, tries_left, known, board>>
        BY ZenonT(30), <1>3, <2>2, TypedLife
        DEF Pump, PumpFrame, PumpSent, PumpEnds, PumpFails, PumpStops, PumpCancelled, asking,
            LifeOK, LifeType
    <3> QED BY <3>1, LifeStepType
  <2> QED BY <2>1, <2>2
<1>4. ASSUME NEW l \in Link, Poll(l) \/ Board(l) PROVE TypeInv'
    BY <1>4, PollType, BoardStepType
<1>5. ASSUME NEW l \in Link, MediumEnds(l) \/ MediumBreaks(l) PROVE TypeInv'
  <2>1. LifeOK' /\ UNCHANGED <<primed, tries_left, known, board>>
      BY <1>5, TypedLife DEF MediumEnds, MediumBreaks, asking, LifeOK, LifeType
  <2> QED BY <2>1, LifeStepType
<1>6. ASSUME NEW l \in Link, Detach(l) \/ ShutdownLink(l) \/ Closed(l) PROVE TypeInv'
  <2>1. LifeOK' /\ UNCHANGED <<primed, tries_left, known, board>>
    <3>1. CASE Closed(l)
        BY <3>1, TypedLife DEF Closed, asking, LifeOK, LifeType
    <3>2. CASE Detach(l) \/ ShutdownLink(l)
      <4>1. /\ stage' = [stage EXCEPT ![l] = "stopping"]
            /\ connected' = [connected EXCEPT ![l] = FALSE]
            /\ pump' = [pump EXCEPT ![l] = Cancelled(pump[l])]
            /\ UNCHANGED <<kind, medium, told, node_id, down, primed, tries_left, known, board>>
            /\ \/ UNCHANGED poll
               \/ poll' = [poll EXCEPT ![l] = Cancelled(poll[l])]
          BY <3>2 DEF Detach, ShutdownLink, Stop, asking
      <4> QED BY <4>1, TypedLife DEF Cancelled, LifeOK, LifeType
    <3> QED BY <1>6, <3>1, <3>2
  <2> QED BY <2>1, LifeStepType
<1>7. CASE Shutdown
    BY <1>7 DEF Shutdown, Cancelled, board, TypeInv, TypeOK
<1>8. CASE UNCHANGED vars
    BY <1>8 DEF vars, life, asking, board, TypeInv, TypeOK
<1> QED BY <1>1, <1>2, <1>3, <1>4, <1>5, <1>6, <1>7, <1>8 DEF Next

\* Every variable keeps its type: no queue outgrows its bound, and a poll that is
\* still asking has a try left.
THEOREM TypeCorrect == Spec => []TypeOK
<1>1. TypeInv => TypeOK
    BY DEF TypeInv
<1> QED BY <1>1, InitType, NextType, PTL DEF Spec

-----------------------------------------------------------------------------
(* Recursion, upwards and downwards.                                       *)

\* What holds of 0 and passes from each number to the next holds of all.
LEMMA Induct ==
    ASSUME NEW k \in Nat, NEW S, 0 \in S, \A i \in 1 .. k : i - 1 \in S => i \in S
    PROVE  0 .. k \subseteq S
<1> SUFFICES ASSUME ~(0 .. k \subseteq S) PROVE FALSE
    OBVIOUS
<1> DEFINE bad == {i \in 0 .. k : i \notin S}
<1>1. bad \subseteq Nat /\ bad # {}
    OBVIOUS
<1>2. PICK i \in bad : \A j \in bad : ~(<<j, i>> \in OpToRel(<, Nat))
  <2> HIDE DEF bad
  <2> QED BY <1>1, WFMin, NatLessThanWellFounded
<1>3. i \in 0 .. k /\ i \notin S /\ i # 0
    OBVIOUS
<1>4. i \in 1 .. k /\ i - 1 \in 0 .. k
    BY <1>3
<1>5. i - 1 \in bad
    BY <1>3, <1>4
<1>6. <<i - 1, i>> \in OpToRel(<, Nat)
    BY <1>4 DEF OpToRel
<1> QED BY <1>2, <1>5, <1>6

\* What holds of a position when it holds of the later ones holds of all.
LEMMA Backwards ==
    ASSUME NEW m \in Nat, NEW S,
           \A i \in 1 .. m : (\A j \in i + 1 .. m : j \in S) => i \in S
    PROVE  1 .. m \subseteq S
<1> DEFINE H == {k \in 0 .. m : \A j \in (m + 1) - k .. m : j \in S}
<1>1. 0 \in H
    OBVIOUS
<1>2. ASSUME NEW k \in 1 .. m, k - 1 \in H PROVE k \in H
  <2>1. (m + 1) - k \in 1 .. m /\ (m + 1) - (k - 1) = ((m + 1) - k) + 1
      OBVIOUS
  <2>2. \A j \in ((m + 1) - k) + 1 .. m : j \in S
      BY <1>2, <2>1
  <2>3. (m + 1) - k \in S
      BY <2>1, <2>2
  <2>4. \A j \in (m + 1) - k .. m : j = (m + 1) - k \/ j \in ((m + 1) - k) + 1 .. m
      BY <2>1
  <2>5. \A j \in (m + 1) - k .. m : j \in S
      BY <2>2, <2>3, <2>4
  <2> QED BY <2>5
<1>3. 0 .. m \subseteq H
  <2> HIDE DEF H
  <2> QED BY <1>1, <1>2, Induct
<1>4. m \in H
    BY <1>3
<1> QED BY <1>4

\* A rule that makes a function of a function, and looks at later positions
\* only, has a fixed point.
Looks(m, V, F) ==
    /\ F \in [[1 .. m -> V] -> [1 .. m -> V]]
    /\ \A g, h \in [1 .. m -> V] : \A i \in 1 .. m :
          (\A j \in i + 1 .. m : g[j] = h[j]) => F[g][i] = F[h][i]

LEMMA FixedPoint ==
    ASSUME NEW m \in Nat, NEW V, NEW v \in V, NEW F, Looks(m, V, F)
    PROVE  \E g \in [1 .. m -> V] : g = F[g]
<1> DEFINE G == [1 .. m -> V]
           H == {k \in 0 .. m : \E g \in G : \A i \in (m + 1) - k .. m : g[i] = F[g][i]}
<1>1. 0 \in H
  <2>1. [i \in 1 .. m |-> v] \in G
      OBVIOUS
  <2>2. (m + 1) - 0 .. m = {}
      OBVIOUS
  <2>3. \E g \in G : \A i \in (m + 1) - 0 .. m : g[i] = F[g][i]
    <3> HIDE DEF G
    <3> QED BY <2>1, <2>2
  <2> HIDE DEF G
  <2> QED BY <2>3
<1>2. ASSUME NEW k \in 1 .. m, k - 1 \in H PROVE k \in H
  <2>1. PICK g \in G : \A i \in (m + 1) - (k - 1) .. m : g[i] = F[g][i]
      BY <1>2
  <2> DEFINE h == F[g]
  <2>2. h \in G /\ F[h] \in G
      BY <2>1 DEF Looks
  <2>3. ASSUME NEW i \in (m + 1) - k .. m PROVE h[i] = F[h][i]
    <3>1. i \in 1 .. m /\ \A j \in i + 1 .. m : j \in (m + 1) - (k - 1) .. m
        BY <2>3
    <3>2. \A j \in i + 1 .. m : g[j] = h[j]
        BY <2>1, <3>1
    <3>3. F[g][i] = F[h][i]
      <4> HIDE DEF h
      <4> QED BY <2>1, <2>2, <3>1, <3>2 DEF Looks
    <3> QED BY <3>3
  <2> HIDE DEF h, G
  <2> QED BY <2>2, <2>3
<1>3. 0 .. m \subseteq H
  <2> HIDE DEF H
  <2> QED BY <1>1, <1>2, Induct
<1>4. PICK g \in G : \A i \in (m + 1) - m .. m : g[i] = F[g][i]
    BY <1>3
<1>5. F[g] \in G /\ \A i \in 1 .. m : g[i] = F[g][i]
    BY <1>4 DEF Looks
<1>6. g = F[g]
  <2> DEFINE h == F[g]
  <2>1. h \in G /\ \A i \in 1 .. m : g[i] = h[i]
      BY <1>5
  <2> HIDE DEF h
  <2>2. g = h
      BY <2>1
  <2> QED BY <2>2 DEF h
<1> QED BY <1>6

\* A function that looks at the position before only.
Steps(k, D) == [1 .. k -> [D -> D]]

Unfolded(g, k, D, s, step) ==
    /\ g \in [0 .. k -> D] /\ g[0] = s
    /\ \A i \in 1 .. k : g[i] = step[i][g[i - 1]]

LEMMA Unfold ==
    ASSUME NEW k \in Nat, NEW D, NEW s \in D, NEW step \in Steps(k, D)
    PROVE  \E g : Unfolded(g, k, D, s, step)
<1> USE DEF Steps
<1> DEFINE Done(g, j) == Unfolded(g, j, D, s, step)
           S == {j \in 0 .. k : \E g : Done(g, j)}
<1>1. 0 \in S
  <2>1. Done([i \in 0 .. 0 |-> s], 0)
      BY DEF Unfolded
  <2> HIDE DEF Done
  <2> QED BY <2>1
<1>2. ASSUME NEW j \in 1 .. k, j - 1 \in S PROVE j \in S
  <2>1. PICK g : Done(g, j - 1)
      BY <1>2
  <2> DEFINE h == [i \in 0 .. j |-> IF i = j THEN step[j][g[j - 1]] ELSE g[i]]
  <2>2. step[j] \in [D -> D] /\ g[j - 1] \in D /\ step[j][g[j - 1]] \in D
    <3>1. step[j] \in [D -> D] /\ j - 1 \in 0 .. j - 1
        OBVIOUS
    <3> QED BY <2>1, <3>1 DEF Unfolded
  <2>3. h \in [0 .. j -> D] /\ h[0] = s
      BY <2>1, <2>2 DEF Unfolded
  <2>4. ASSUME NEW i \in 1 .. j PROVE h[i] = step[i][h[i - 1]]
    <3>1. h[i - 1] = g[i - 1] /\ (i # j => h[i] = g[i]) /\ (i = j => h[i] = step[j][g[j - 1]])
        OBVIOUS
    <3> HIDE DEF h
    <3>2. CASE i = j
        BY <3>1, <3>2
    <3>3. CASE i # j
      <4>1. i \in 1 .. j - 1
          BY <3>3
      <4> QED BY <2>1, <3>1, <3>3, <4>1 DEF Unfolded
    <3> QED BY <3>2, <3>3
  <2>5. Done(h, j)
      BY <2>3, <2>4 DEF Unfolded
  <2> HIDE DEF Done, h
  <2> QED BY <2>5
<1>3. k \in S
  <2> HIDE DEF S
  <2>1. 0 .. k \subseteq S
      BY <1>1, <1>2, Induct
  <2> QED BY <2>1
<1> QED BY <1>3

-----------------------------------------------------------------------------
(* Sequences.                                                              *)

\* A sequence cut in two ways.
Same(A, B, C, D) == A \o B = C \o D
Between(T, A, B, C, D) == \E M \in Seq(T) : C = A \o M /\ B = M \o D

\* Associativity under a name, so that the provers do not rewrite its sides.
Reassoc(s, t, u) == (s \o t) \o u = s \o (t \o u)

LEMMA Levi ==
    ASSUME NEW T, NEW A \in Seq(T), NEW B \in Seq(T), NEW C \in Seq(T), NEW D \in Seq(T),
           Same(A, B, C, D), Len(A) <= Len(C)
    PROVE  Between(T, A, B, C, D)
<1> DEFINE M == SubSeq(C, Len(A) + 1, Len(C))
<1>1. Len(A) \in Nat /\ Len(B) \in Nat /\ Len(C) \in Nat /\ Len(D) \in Nat
    BY LenProperties
<1>2. /\ M \in Seq(T) /\ Len(M) = Len(C) - Len(A)
      /\ \A i \in 1 .. Len(C) - Len(A) : M[i] = C[Len(A) + i]
  <2>1. \A i \in Len(A) + 1 .. Len(C) : C[i] \in T
      BY <1>1, ElementOfSeq
  <2>2. /\ M \in Seq(T)
        /\ Len(M) = IF Len(A) + 1 <= Len(C) THEN Len(C) - (Len(A) + 1) + 1 ELSE 0
        /\ \A i \in 1 .. Len(C) - (Len(A) + 1) + 1 : M[i] = C[(Len(A) + 1) + i - 1]
      BY <1>1, <2>1, SubSeqProperties
  <2> HIDE DEF M
  <2>3. \A i \in 1 .. Len(C) - Len(A) : i \in 1 .. Len(C) - (Len(A) + 1) + 1 /\ (Len(A) + 1) + i - 1 = Len(A) + i
      BY <1>1
  <2>4. Len(M) = Len(C) - Len(A)
      BY <1>1, <2>2
  <2>5. ASSUME NEW i \in 1 .. Len(C) - Len(A) PROVE M[i] = C[Len(A) + i]
    <3>1. i \in 1 .. Len(C) - (Len(A) + 1) + 1 /\ (Len(A) + 1) + i - 1 = Len(A) + i
        BY <2>3
    <3>2. M[i] = C[(Len(A) + 1) + i - 1]
        BY <2>2, <3>1
    <3> QED BY <3>1, <3>2, Zenon
  <2> QED BY <2>2, <2>4, <2>5, Zenon
<1> HIDE DEF M
<1>3. /\ Len(A \o B) = Len(A) + Len(B)
      /\ \A i \in 1 .. Len(A) + Len(B) : (A \o B)[i] = IF i <= Len(A) THEN A[i] ELSE B[i - Len(A)]
    BY ConcatProperties
<1>4. /\ Len(C \o D) = Len(C) + Len(D)
      /\ \A i \in 1 .. Len(C) + Len(D) : (C \o D)[i] = IF i <= Len(C) THEN C[i] ELSE D[i - Len(C)]
    BY ConcatProperties
<1>0. A \o B = C \o D
    BY DEF Same
<1>5. C = A \o M
  <2>1. /\ A \o M \in Seq(T) /\ Len(A \o M) = Len(A) + Len(M)
        /\ \A i \in 1 .. Len(A) + Len(M) : (A \o M)[i] = IF i <= Len(A) THEN A[i] ELSE M[i - Len(A)]
      BY <1>2, ConcatProperties
  <2>2. ASSUME NEW i \in 1 .. Len(C) PROVE C[i] = (A \o M)[i]
    <3>1. CASE i <= Len(A)
        BY <1>0, <1>1, <1>3, <1>4, <2>1, <3>1, <1>2
    <3>2. CASE i > Len(A)
      <4>1. /\ i - Len(A) \in 1 .. Len(C) - Len(A) /\ Len(A) + (i - Len(A)) = i
            /\ i \in 1 .. Len(A) + Len(M) /\ i \in 1 .. Len(C) + Len(D) /\ ~(i <= Len(A))
          BY <1>1, <1>2, <3>2
      <4>2. (A \o M)[i] = M[i - Len(A)] /\ M[i - Len(A)] = C[i]
          BY <1>2, <2>1, <4>1
      <4> QED BY <4>2
    <3>3. i <= Len(A) \/ i > Len(A)
        BY <1>1
    <3> QED BY <3>1, <3>2, <3>3
  <2>3. Len(C) = Len(A \o M)
      BY <1>1, <1>2, <2>1
  <2> QED BY <2>1, <2>2, <2>3, SeqEqual
<1>6. B = M \o D
  <2>1. /\ M \o D \in Seq(T) /\ Len(M \o D) = Len(M) + Len(D)
        /\ \A i \in 1 .. Len(M) + Len(D) : (M \o D)[i] = IF i <= Len(M) THEN M[i] ELSE D[i - Len(M)]
      BY <1>2, ConcatProperties
  <2>2. Len(B) = Len(M) + Len(D)
      BY <1>0, <1>1, <1>2, <1>3, <1>4
  <2>3. ASSUME NEW i \in 1 .. Len(B) PROVE B[i] = (M \o D)[i]
    <3>1. /\ i + Len(A) \in 1 .. Len(A) + Len(B) /\ ~(i + Len(A) <= Len(A)) /\ (i + Len(A)) - Len(A) = i
          /\ i + Len(A) \in 1 .. Len(C) + Len(D)
        BY <1>1, <1>2, <2>2
    <3>2. B[i] = (C \o D)[i + Len(A)]
        BY <1>0, <1>3, <3>1
    <3>3. CASE i <= Len(M)
      <4>1. i + Len(A) <= Len(C) /\ i \in 1 .. Len(C) - Len(A) /\ i \in 1 .. Len(M) + Len(D)
          BY <1>1, <1>2, <3>3
      <4> QED BY <1>2, <1>4, <2>1, <3>1, <3>2, <3>3, <4>1
    <3>4. CASE i > Len(M)
      <4>1. ~(i + Len(A) <= Len(C)) /\ i \in 1 .. Len(M) + Len(D) /\ (i + Len(A)) - Len(C) = i - Len(M)
          BY <1>1, <1>2, <2>2, <3>4
      <4> QED BY <1>2, <1>4, <2>1, <3>1, <3>2, <3>4, <4>1
    <3>5. Len(M) \in Nat /\ i \in Nat
        BY <1>1, <1>2
    <3>6. i <= Len(M) \/ i > Len(M)
        BY <3>5
    <3> QED BY <3>3, <3>4, <3>6
  <2> QED BY <2>1, <2>2, <2>3, SeqEqual
<1> QED BY <1>2, <1>5, <1>6 DEF Between

LEMMA One == ASSUME NEW T, NEW x \in T PROVE <<x>> \in Seq(T) /\ Len(<<x>>) = 1 /\ <<x>>[1] = x
OBVIOUS

\* Everything about a concatenation that the proofs below use.
LEMMA Cat ==
    ASSUME NEW T, NEW s \in Seq(T), NEW t \in Seq(T)
    PROVE  /\ s \o t \in Seq(T) /\ Len(s) \in Nat /\ Len(t) \in Nat
           /\ Len(s \o t) = Len(s) + Len(t)
           /\ \A i \in 1 .. Len(s) : (s \o t)[i] = s[i]
           /\ \A i \in 1 .. Len(t) : (s \o t)[Len(s) + i] = t[i]
<1>1. Len(s) \in Nat /\ Len(t) \in Nat
    BY LenProperties
<1>2. /\ s \o t \in Seq(T) /\ Len(s \o t) = Len(s) + Len(t)
      /\ \A i \in 1 .. Len(s) + Len(t) : (s \o t)[i] = IF i <= Len(s) THEN s[i] ELSE t[i - Len(s)]
    BY ConcatProperties
<1>3. \A i \in 1 .. Len(s) : (s \o t)[i] = s[i]
    BY <1>1, <1>2
<1>4. ASSUME NEW i \in 1 .. Len(t) PROVE (s \o t)[Len(s) + i] = t[i]
  <2>1. Len(s) + i \in 1 .. Len(s) + Len(t) /\ ~(Len(s) + i <= Len(s)) /\ (Len(s) + i) - Len(s) = i
      BY <1>1
  <2> QED BY <1>2, <2>1
<1> QED BY <1>1, <1>2, <1>3, <1>4

\* Everything about a part of a sequence.
LEMMA Part ==
    ASSUME NEW T, NEW s \in Seq(T), NEW i \in 1 .. Len(s) + 1, NEW e \in i - 1 .. Len(s)
    PROVE  /\ SubSeq(s, i, e) \in Seq(T) /\ Len(SubSeq(s, i, e)) = (e - i) + 1
           /\ \A j \in 1 .. (e - i) + 1 : SubSeq(s, i, e)[j] = s[(i + j) - 1]
<1>1. Len(s) \in Nat
    BY LenProperties
<1>2. \A j \in i .. e : s[j] \in T
    BY <1>1, ElementOfSeq
<1>3. /\ SubSeq(s, i, e) \in Seq(T)
      /\ Len(SubSeq(s, i, e)) = IF i <= e THEN e - i + 1 ELSE 0
      /\ \A j \in 1 .. e - i + 1 : SubSeq(s, i, e)[j] = s[i + j - 1]
    BY <1>1, <1>2, SubSeqProperties
<1> QED BY <1>1, <1>3

\* Two adjacent parts, with an element between them or not.
LEMMA Adjacent ==
    ASSUME NEW T, NEW s \in Seq(T), NEW i \in 1 .. Len(s) + 1,
           NEW k \in i - 1 .. Len(s), NEW n \in k .. Len(s)
    PROVE  SubSeq(s, i, n) = SubSeq(s, i, k) \o SubSeq(s, k + 1, n)
BY ConcatAdjacentSubSeq

LEMMA AdjacentOne ==
    ASSUME NEW T, NEW s \in Seq(T), NEW i \in 1 .. Len(s) + 1, NEW d \in i .. Len(s)
    PROVE  SubSeq(s, i, Len(s)) = SubSeq(s, i, d - 1) \o (<<s[d]>> \o SubSeq(s, d + 1, Len(s)))
<1>1. Len(s) \in Nat /\ d - 1 \in i - 1 .. Len(s) /\ Len(s) \in d - 1 .. Len(s) /\ d \in 1 .. Len(s) /\ (d - 1) + 1 = d
      /\ Len(s) \in d .. Len(s)
    BY LenProperties
<1>2. SubSeq(s, i, Len(s)) = SubSeq(s, i, d - 1) \o SubSeq(s, (d - 1) + 1, Len(s))
    BY <1>1, Adjacent
<1>3. SubSeq(s, d, Len(s)) = <<s[d]>> \o SubSeq(s, d + 1, Len(s))
    BY <1>1, SubSeqRecursiveFirst
<1> QED BY <1>1, <1>2, <1>3

-----------------------------------------------------------------------------
(* What a COBS block stands for.                                           *)

LEMMA ByteSizes ==
    /\ MaxRun \in Nat /\ MaxRun >= 1 /\ MaxByte \in Nat
    /\ FullCode \in Nat /\ FullCode = MaxRun + 1 /\ FullCode <= MaxByte
    /\ RawCap \in Nat /\ RawCap >= 1
    /\ 0 \in Byte /\ Byte \subseteq Nat
    /\ \A c \in Nat : c <= FullCode => c \in Byte
BY CodecAssumption DEF FullCode, Byte

\* The bodies from position i on, when g tells them for the later ones.
StandsFor(b, g, i) ==
    LET n == Len(b)
    IN  IF i > n THEN {<<>>}
            ELSE LET next == i + b[i]
                     zero == IF HidesZero(b[i], next <= n) THEN <<0>> ELSE <<>>
                 IN  IF b[i] = 0 \/ next > n + 1 THEN {}
                     ELSE {SubSeq(b, i + 1, next - 1) \o zero \o rest : rest \in g[next]}

UncobsFrom(b, g) == g = [i \in 1 .. Len(b) + 1 |-> StandsFor(b, g, i)]

LEMMA HiddenZero ==
    ASSUME NEW c, NEW more
    PROVE  (IF HidesZero(c, more) THEN <<0>> ELSE <<>>) \in Seq(Byte)
<1>1. <<0>> \in Seq(Byte) /\ <<>> \in Seq(Byte)
    BY ByteSizes, One, EmptySeq
<1> QED BY <1>1

LEMMA BodiesLater ==
    ASSUME NEW b \in Seq(Byte), NEW V, V = SUBSET Seq(Byte), NEW i \in 1 .. Len(b) + 1,
           NEW g \in [1 .. Len(b) + 1 -> V]
    PROVE  /\ StandsFor(b, g, i) \in V
           /\ \A h \in [1 .. Len(b) + 1 -> V] :
                 (\A j \in i + 1 .. Len(b) + 1 : g[j] = h[j]) => StandsFor(b, g, i) = StandsFor(b, h, i)
<1> DEFINE n == Len(b)
           next == i + b[i]
           zero == IF HidesZero(b[i], next <= n) THEN <<0>> ELSE <<>>
<1>1. n \in Nat
    BY LenProperties
<1>2. CASE i > n
  <2>1. <<>> \in Seq(Byte)
      BY EmptySeq
  <2>2. \A h : StandsFor(b, h, i) = {<<>>}
      BY <1>2 DEF StandsFor
  <2> QED BY <2>1, <2>2
<1>3. CASE ~(i > n) /\ (b[i] = 0 \/ next > n + 1)
  <2>1. \A h : StandsFor(b, h, i) = {}
      BY <1>3 DEF StandsFor
  <2> QED BY <2>1
<1>4. CASE ~(i > n) /\ ~(b[i] = 0 \/ next > n + 1)
  <2>1. i \in 1 .. n /\ b[i] \in Byte
      BY <1>1, <1>4, ElementOfSeq
  <2>2. b[i] \in Nat \ {0}
      BY <1>4, <2>1, ByteSizes
  <2>3. next \in i + 1 .. n + 1 /\ next \in 1 .. n + 1
      BY <1>1, <1>4, <2>1, <2>2
  <2>4. zero \in Seq(Byte)
      BY HiddenZero
  <2>5. SubSeq(b, i + 1, next - 1) \in Seq(Byte)
      BY <1>1, <2>1, <2>3, Part
  <2>6. \A h : StandsFor(b, h, i) = {SubSeq(b, i + 1, next - 1) \o zero \o rest : rest \in h[next]}
      BY <1>4 DEF StandsFor
  <2> HIDE DEF zero, next
  <2>7. \A r \in Seq(Byte) : SubSeq(b, i + 1, next - 1) \o zero \o r \in Seq(Byte)
      BY <2>4, <2>5, ConcatProperties
  <2>8. g[next] \subseteq Seq(Byte)
      BY <2>3
  <2>9. {SubSeq(b, i + 1, next - 1) \o zero \o rest : rest \in g[next]} \subseteq Seq(Byte)
      BY <2>7, <2>8
  <2>10. StandsFor(b, g, i) \in V
      BY <2>6, <2>9
  <2>11. ASSUME NEW h \in [1 .. n + 1 -> V], \A j \in i + 1 .. n + 1 : g[j] = h[j]
         PROVE  StandsFor(b, g, i) = StandsFor(b, h, i)
    <3>1. g[next] = h[next]
        BY <2>3, <2>11
    <3> QED BY <2>6, <3>1
  <2> QED BY <2>10, <2>11
<1> QED BY <1>2, <1>3, <1>4

LEMMA UncobsExists ==
    ASSUME NEW b \in Seq(Byte)
    PROVE  \E g : UncobsFrom(b, g)
<1> DEFINE m == Len(b) + 1
           V == SUBSET Seq(Byte)
           G == [1 .. m -> V]
           F == [g \in G |-> [i \in 1 .. m |-> StandsFor(b, g, i)]]
<1>1. m \in Nat
    BY LenProperties
<1>2. \A g \in G : \A i \in 1 .. m : StandsFor(b, g, i) \in V
    BY BodiesLater
<1>3. \A g, h \in G : \A i \in 1 .. m :
          (\A j \in i + 1 .. m : g[j] = h[j]) => StandsFor(b, g, i) = StandsFor(b, h, i)
  <2> SUFFICES ASSUME NEW g \in G, NEW h \in G, NEW i \in 1 .. m
               PROVE  (\A j \in i + 1 .. m : g[j] = h[j]) => StandsFor(b, g, i) = StandsFor(b, h, i)
      OBVIOUS
  <2>1. \A k \in [1 .. Len(b) + 1 -> V] :
           (\A j \in i + 1 .. Len(b) + 1 : g[j] = k[j]) => StandsFor(b, g, i) = StandsFor(b, k, i)
    <3>1. V = SUBSET Seq(Byte)
        OBVIOUS
    <3> HIDE DEF V
    <3> QED BY <3>1, BodiesLater
  <2> QED BY <2>1
<1> HIDE DEF V
<1>4. Looks(m, V, F)
  <2> HIDE DEF m
  <2>1. F \in [G -> G]
      BY <1>2
  <2> QED BY <1>3, <2>1 DEF Looks
<1>5. {} \in V
    BY DEF V
<1> HIDE DEF F, m, V
<1>6. PICK g \in G : g = F[g]
    BY <1>1, <1>4, <1>5, FixedPoint
<1>7. UncobsFrom(b, g)
    BY <1>6 DEF F, UncobsFrom, m
<1> QED BY <1>7

LEMMA UncobsAs ==
    ASSUME NEW b \in Seq(Byte)
    PROVE  \E g : UncobsFrom(b, g) /\ Uncobs(b) = g[1]
<1> DEFINE g == CHOOSE h : UncobsFrom(b, h)
<1>1. UncobsFrom(b, g)
    BY UncobsExists
<1>2. Uncobs(b) = g[1]
    BY DEF Uncobs, UncobsFrom, StandsFor
<1> QED BY <1>1, <1>2

\* A part of the second of two sequences.
LEMMA PartOfSecond ==
    ASSUME NEW T, NEW s \in Seq(T), NEW t \in Seq(T),
           NEW i \in 1 .. Len(t) + 1, NEW e \in i - 1 .. Len(t)
    PROVE  SubSeq(s \o t, Len(s) + i, Len(s) + e) = SubSeq(t, i, e)
<1>1. Len(s) \in Nat /\ Len(t) \in Nat
    BY LenProperties
<1>2. CASE e < i
  <2>1. Len(s) + e < Len(s) + i /\ Len(s) + e \in Int /\ Len(s) + i \in Int /\ e \in Int /\ i \in Int
      BY <1>1, <1>2
  <2>2. SubSeq(t, i, e) = <<>>
      BY <1>2, <2>1, SubSeqEmpty
  <2>3. SubSeq(s \o t, Len(s) + i, Len(s) + e) = <<>>
    <3> DEFINE a == Len(s) + i
               b == Len(s) + e
               u == s \o t
    <3>1. a \in Int /\ b \in Int /\ b < a
        BY <2>1
    <3> HIDE DEF a, b, u
    <3>2. SubSeq(u, a, b) = <<>>
        BY <3>1, SubSeqEmpty
    <3> QED BY <3>2 DEF a, b, u
  <2> QED BY <2>2, <2>3
<1>3. CASE e >= i
  <2>1. /\ Len(s) + i \in Len(s) + 1 .. Len(s) + Len(t) /\ Len(s) + e \in Len(s) + 1 .. Len(s) + Len(t)
        /\ (Len(s) + i) - Len(s) = i /\ (Len(s) + e) - Len(s) = e
      BY <1>1, <1>3
  <2> QED BY <2>1, SubSeqOfConcat2
<1> QED BY <1>1, <1>2, <1>3

\* What follows a block decodes as it does alone.
LEMMA Shifted ==
    ASSUME NEW s \in Seq(Byte), NEW X \in Seq(Byte), NEW f, NEW g,
           UncobsFrom(s \o X, f), UncobsFrom(X, g)
    PROVE  \A i \in 1 .. Len(X) + 1 : f[Len(s) + i] = g[i]
<1> DEFINE Y == s \o X
           c == Len(s)
           m == Len(X) + 1
           S == {i \in 1 .. m : f[c + i] = g[i]}
<1>1. /\ Y \in Seq(Byte) /\ c \in Nat /\ Len(X) \in Nat /\ Len(Y) = c + Len(X)
      /\ \A i \in 1 .. Len(X) : Y[c + i] = X[i]
    BY Cat
<1>2. ASSUME NEW i \in 1 .. m, \A j \in i + 1 .. m : j \in S
      PROVE  i \in S
  <2>1. c + i \in 1 .. Len(Y) + 1 /\ (c + i > Len(Y) <=> i > Len(X))
      BY <1>1
  <2>2. f[c + i] = StandsFor(Y, f, c + i) /\ g[i] = StandsFor(X, g, i)
      BY <2>1 DEF UncobsFrom
  <2>3. CASE i > Len(X)
    <3> HIDE DEF Y, c
    <3> QED BY <2>1, <2>2, <2>3 DEF StandsFor
  <2>4. CASE ~(i > Len(X))
    <3>1. i \in 1 .. Len(X) /\ Y[c + i] = X[i] /\ X[i] \in Byte /\ X[i] \in Nat
      <4> HIDE DEF Y, c
      <4>1. i \in 1 .. Len(X)
          BY <1>1, <2>4
      <4>2. X[i] \in Byte
          BY <4>1, ElementOfSeq
      <4> QED BY <1>1, <4>1, <4>2, ByteSizes
    <3> DEFINE next == i + X[i]
    <3>2. next \in Nat /\ (c + i) + Y[c + i] = c + next
        BY <1>1, <3>1
    <3>3. /\ (c + next <= Len(Y) <=> next <= Len(X))
          /\ (c + next > Len(Y) + 1 <=> next > Len(X) + 1)
        BY <1>1, <3>2
    <3>4. CASE X[i] = 0 \/ next > Len(X) + 1
      <4>1. StandsFor(X, g, i) = {}
          BY <2>4, <3>4 DEF StandsFor
      <4>2. StandsFor(Y, f, c + i) = {}
        <5> HIDE DEF Y, c, next
        <5>1. (c + i) + Y[c + i] > Len(Y) + 1 \/ Y[c + i] = 0
            BY <3>1, <3>2, <3>3, <3>4
        <5>2. ~(c + i > Len(Y))
            BY <2>1, <2>4
        <5> QED BY <5>1, <5>2 DEF StandsFor
      <4> QED BY <2>2, <4>1, <4>2
    <3>5. CASE ~(X[i] = 0 \/ next > Len(X) + 1)
      <4>1. next \in i + 1 .. m
          BY <1>1, <3>1, <3>5
      <4>2. f[c + next] = g[next]
          BY <1>2, <4>1
      <4>3. SubSeq(Y, (c + i) + 1, (c + next) - 1) = SubSeq(X, i + 1, next - 1)
        <5>1. i + 1 \in 1 .. Len(X) + 1 /\ next - 1 \in (i + 1) - 1 .. Len(X)
            BY <1>1, <3>1, <4>1
        <5>2. SubSeq(s \o X, Len(s) + (i + 1), Len(s) + (next - 1)) = SubSeq(X, i + 1, next - 1)
            BY <5>1, PartOfSecond
        <5>3. (c + i) + 1 = Len(s) + (i + 1) /\ (c + next) - 1 = Len(s) + (next - 1)
            BY <1>1, <3>2
        <5> QED BY <5>2, <5>3
      <4>4. StandsFor(X, g, i)
               = {SubSeq(X, i + 1, next - 1) \o (IF HidesZero(X[i], next <= Len(X)) THEN <<0>> ELSE <<>>) \o rest
                    : rest \in g[next]}
          BY <2>4, <3>5 DEF StandsFor
      <4>5. StandsFor(Y, f, c + i)
               = {SubSeq(Y, (c + i) + 1, (c + next) - 1)
                      \o (IF HidesZero(Y[c + i], c + next <= Len(Y)) THEN <<0>> ELSE <<>>) \o rest
                    : rest \in f[c + next]}
        <5> HIDE DEF Y, c, next
        <5>1. ~(c + i > Len(Y)) /\ ~((c + i) + Y[c + i] > Len(Y) + 1 \/ Y[c + i] = 0)
            BY <2>1, <2>4, <3>1, <3>2, <3>3, <3>5
        <5> QED BY <5>1, <3>2 DEF StandsFor
      <4>6. (IF HidesZero(Y[c + i], c + next <= Len(Y)) THEN <<0>> ELSE <<>>)
               = (IF HidesZero(X[i], next <= Len(X)) THEN <<0>> ELSE <<>>)
        <5> HIDE DEF Y, c, next
        <5> QED BY <3>1, <3>3 DEF HidesZero
      <4> HIDE DEF Y, c, next
      <4> QED BY <2>2, <4>2, <4>3, <4>4, <4>5, <4>6
    <3> QED BY <3>4, <3>5
  <2> QED BY <2>3, <2>4
<1>3. m \in Nat
    BY <1>1
<1>4. 1 .. m \subseteq S
  <2> HIDE DEF S, m
  <2> QED BY <1>2, <1>3, Backwards
<1> QED BY <1>4

\* One block, then the rest.
LEMMA UncobsCons ==
    ASSUME NEW d \in Seq(Byte), NEW X \in Seq(Byte), Len(d) <= MaxRun
    PROVE  Uncobs(<<Len(d) + 1>> \o d \o X)
              = {d \o (IF X # <<>> /\ Len(d) < MaxRun THEN <<0>> ELSE <<>>) \o r : r \in Uncobs(X)}
<1> DEFINE s == <<Len(d) + 1>> \o d
           Y == s \o X
           c == Len(d) + 1
<1>1. Len(d) \in Nat /\ c \in Byte /\ c \in Nat /\ c # 0 /\ (c < FullCode <=> Len(d) < MaxRun)
    BY LenProperties, ByteSizes
<1>2. <<c>> \in Seq(Byte) /\ Len(<<c>>) = 1 /\ <<c>>[1] = c
    BY <1>1, One
<1>3. /\ s \in Seq(Byte) /\ Len(s) = 1 + Len(d) /\ s[1] = c
      /\ \A i \in 1 .. Len(d) : s[1 + i] = d[i]
  <2> HIDE DEF c
  <2>1. /\ <<c>> \o d \in Seq(Byte) /\ Len(<<c>> \o d) = Len(<<c>>) + Len(d)
        /\ \A i \in 1 .. Len(<<c>>) : (<<c>> \o d)[i] = <<c>>[i]
        /\ \A i \in 1 .. Len(d) : (<<c>> \o d)[Len(<<c>>) + i] = d[i]
      BY <1>2, Cat
  <2>2. s = <<c>> \o d
      BY DEF c
  <2> HIDE DEF s
  <2> QED BY <1>2, <2>1, <2>2
<1>4. /\ Y \in Seq(Byte) /\ Len(X) \in Nat /\ Len(Y) = c + Len(X)
      /\ \A i \in 1 .. Len(s) : Y[i] = s[i]
      /\ Len(s) = c
  <2> HIDE DEF s
  <2>1. /\ s \o X \in Seq(Byte) /\ Len(s) \in Nat /\ Len(X) \in Nat
        /\ Len(s \o X) = Len(s) + Len(X)
        /\ \A i \in 1 .. Len(s) : (s \o X)[i] = s[i]
    <3>1. s \in Seq(Byte)
        BY <1>3
    <3> QED BY <3>1, Cat
  <2> QED BY <1>1, <1>3, <2>1
<1>5. PICK f : UncobsFrom(Y, f) /\ Uncobs(Y) = f[1]
  <2> HIDE DEF Y
  <2> QED BY <1>4, UncobsAs
<1>6. PICK g : UncobsFrom(X, g) /\ Uncobs(X) = g[1]
    BY UncobsAs
<1>7. f[c + 1] = g[1]
  <2> HIDE DEF s
  <2>1. \A i \in 1 .. Len(X) + 1 : f[Len(s) + i] = g[i]
    <3>1. UncobsFrom(s \o X, f) /\ UncobsFrom(X, g) /\ s \in Seq(Byte)
        BY <1>3, <1>5, <1>6
    <3> HIDE DEF Y
    <3> QED BY <3>1, Shifted
  <2>2. 1 \in 1 .. Len(X) + 1
      BY <1>4
  <2> QED BY <1>4, <2>1, <2>2
<1>8. Y[1] = c
  <2>1. 1 \in 1 .. Len(s)
      BY <1>1, <1>4
  <2> QED BY <1>3, <1>4, <2>1
<1>9. SubSeq(Y, 2, c) = d
  <2> HIDE DEF s
  <2>1. 2 \in 1 .. Len(Y) + 1 /\ c \in 2 - 1 .. Len(Y)
      BY <1>1, <1>4
  <2>2. /\ SubSeq(Y, 2, c) \in Seq(Byte) /\ Len(SubSeq(Y, 2, c)) = (c - 2) + 1
        /\ \A j \in 1 .. (c - 2) + 1 : SubSeq(Y, 2, c)[j] = Y[(2 + j) - 1]
    <3> HIDE DEF Y, c
    <3> QED BY <1>4, <2>1, Part
  <2>3. Len(d) = (c - 2) + 1
      BY <1>1
  <2>4. ASSUME NEW j \in 1 .. Len(d) PROVE SubSeq(Y, 2, c)[j] = d[j]
    <3>1. j \in 1 .. (c - 2) + 1 /\ (2 + j) - 1 = 1 + j /\ 1 + j \in 1 .. Len(s)
        BY <1>1, <1>4, <2>3
    <3> QED BY <1>3, <1>4, <2>2, <3>1
  <2> DEFINE p == SubSeq(Y, 2, c)
  <2>5. p \in Seq(Byte) /\ Len(p) = Len(d) /\ \A j \in 1 .. Len(p) : p[j] = d[j]
    <3> HIDE DEF Y, c
    <3> QED BY <2>2, <2>3, <2>4
  <2> HIDE DEF p
  <2>6. p = d
      BY <2>5, SeqEqual
  <2> QED BY <2>6 DEF p
<1>10. f[1] = StandsFor(Y, f, 1)
  <2>1. 1 \in 1 .. Len(Y) + 1
      BY <1>1, <1>4
  <2> HIDE DEF Y
  <2> QED BY <1>5, <2>1 DEF UncobsFrom
<1>11. X # <<>> <=> 1 + c <= Len(Y)
  <2>1. X # <<>> <=> Len(X) >= 1
      BY <1>4, EmptySeq
  <2> HIDE DEF Y, c
  <2> QED BY <1>1, <1>4, <2>1
<1>12. (IF HidesZero(Y[1], 1 + Y[1] <= Len(Y)) THEN <<0>> ELSE <<>>)
          = (IF X # <<>> /\ Len(d) < MaxRun THEN <<0>> ELSE <<>>)
  <2> HIDE DEF Y, c
  <2> QED BY <1>1, <1>8, <1>11 DEF HidesZero
<1>13. StandsFor(Y, f, 1)
          = {SubSeq(Y, 1 + 1, (1 + Y[1]) - 1)
                \o (IF HidesZero(Y[1], 1 + Y[1] <= Len(Y)) THEN <<0>> ELSE <<>>) \o rest
             : rest \in f[1 + Y[1]]}
  <2> HIDE DEF Y, c
  <2>1. ~(1 > Len(Y)) /\ ~(Y[1] = 0 \/ 1 + Y[1] > Len(Y) + 1)
      BY <1>1, <1>4, <1>8
  <2> QED BY <2>1 DEF StandsFor
<1>14. 1 + 1 = 2 /\ (1 + c) - 1 = c /\ 1 + c = c + 1
    BY <1>1
<1>15. Uncobs(Y) = {d \o (IF X # <<>> /\ Len(d) < MaxRun THEN <<0>> ELSE <<>>) \o r : r \in Uncobs(X)}
  <2> HIDE DEF Y, c
  <2> QED BY <1>5, <1>6, <1>7, <1>8, <1>9, <1>10, <1>12, <1>13, <1>14
<1> QED BY <1>15

LEMMA UncobsNone == Uncobs(<<>>) = {<<>>}
<1>1. <<>> \in Seq(Byte) /\ Len(<<>>) = 0
    BY EmptySeq
<1>2. PICK f : UncobsFrom(<<>>, f) /\ Uncobs(<<>>) = f[1]
    BY <1>1, UncobsAs
<1>3. 1 \in 1 .. 0 + 1 /\ 1 > 0
    OBVIOUS
<1> QED BY <1>1, <1>2, <1>3 DEF UncobsFrom, StandsFor

-----------------------------------------------------------------------------
(* The board's encoder.                                                    *)

ZeroFree(s) == \A i \in 1 .. Len(s) : s[i] # 0

LEMMA ByteAssoc == \A s, t, u \in Seq(Byte) : (s \o t) \o u = s \o (t \o u)
<1> SUFFICES ASSUME NEW s \in Seq(Byte), NEW t \in Seq(Byte), NEW u \in Seq(Byte)
             PROVE  (s \o t) \o u = s \o (t \o u)
    OBVIOUS
<1> QED BY ConcatAssociative

LEMMA ByteRegroup == \A s, t, u \in Seq(Byte) : Reassoc(s, t, u)
BY ByteAssoc DEF Reassoc

LEMMA ZeroFreeCat ==
    ASSUME NEW s \in Seq(Byte), NEW t \in Seq(Byte), ZeroFree(s), ZeroFree(t)
    PROVE  s \o t \in Seq(Byte) /\ ZeroFree(s \o t) /\ Len(s \o t) = Len(s) + Len(t)
<1>1. /\ s \o t \in Seq(Byte) /\ Len(s) \in Nat /\ Len(t) \in Nat
      /\ Len(s \o t) = Len(s) + Len(t)
      /\ \A i \in 1 .. Len(s) : (s \o t)[i] = s[i]
      /\ \A i \in 1 .. Len(t) : (s \o t)[Len(s) + i] = t[i]
    BY Cat
<1>2. ASSUME NEW i \in 1 .. Len(s \o t) PROVE (s \o t)[i] # 0
  <2>1. CASE i \in 1 .. Len(s)
      BY <1>1, <2>1 DEF ZeroFree
  <2>2. CASE i \notin 1 .. Len(s)
    <3>1. i - Len(s) \in 1 .. Len(t) /\ Len(s) + (i - Len(s)) = i
        BY <1>1, <2>2
    <3> QED BY <1>1, <3>1 DEF ZeroFree
  <2> QED BY <2>1, <2>2
<1> QED BY <1>1, <1>2 DEF ZeroFree

LEMMA ZeroFreeOne ==
    ASSUME NEW b \in Byte, b # 0
    PROVE  <<b>> \in Seq(Byte) /\ ZeroFree(<<b>>) /\ Len(<<b>>) = 1
<1>1. <<b>> \in Seq(Byte) /\ Len(<<b>>) = 1 /\ <<b>>[1] = b
    BY One
<1> QED BY <1>1 DEF ZeroFree

LEMMA ZeroFreeNone == <<>> \in Seq(Byte) /\ ZeroFree(<<>>) /\ Len(<<>>) = 0
<1>1. <<>> \in Seq(Byte) /\ Len(<<>>) = 0
    BY EmptySeq
<1> QED BY <1>1 DEF ZeroFree

\* P is what the closed blocks stand for, whatever follows them.
StandFor(blocks, P) ==
    \A X \in Seq(Byte) : X # <<>> => Uncobs(blocks \o X) = {P \o r : r \in Uncobs(X)}

HiddenByte(block) == IF Len(block) < MaxRun THEN <<0>> ELSE <<>>

LEMMA HiddenType == ASSUME NEW block PROVE HiddenByte(block) \in Seq(Byte)
<1>1. <<0>> \in Seq(Byte) /\ <<>> \in Seq(Byte)
    BY ByteSizes, One, EmptySeq
<1> QED BY <1>1 DEF HiddenByte

LEMMA UncobsType == ASSUME NEW X \in Seq(Byte) PROVE Uncobs(X) \subseteq Seq(Byte)
<1> DEFINE V == SUBSET Seq(Byte)
<1>1. PICK g : UncobsFrom(X, g) /\ Uncobs(X) = g[1]
    BY UncobsAs
<1>2. Len(X) \in Nat /\ 1 \in 1 .. Len(X) + 1
    BY LenProperties
<1> DEFINE m == Len(X) + 1
           S == {i \in 1 .. m : g[i] \in V}
<1>3. ASSUME NEW i \in 1 .. m, \A j \in i + 1 .. m : j \in S
      PROVE  i \in S
  <2> DEFINE h == [j \in 1 .. m |-> IF j > i THEN g[j] ELSE {}]
  <2>1. h \in [1 .. m -> V]
    <3>1. \A j \in 1 .. m : j > i => j \in i + 1 .. m
        BY <1>2
    <3> QED BY <1>3, <3>1
  <2>2. \A j \in i + 1 .. m : h[j] = g[j]
      BY <1>2
  <2>3. StandsFor(X, h, i) \in V
    <3> HIDE DEF h
    <3>1. V = SUBSET Seq(Byte)
        OBVIOUS
    <3> HIDE DEF V
    <3> QED BY <2>1, <3>1, BodiesLater
  <2>4. StandsFor(X, g, i) = StandsFor(X, h, i)
    <3>1. CASE i > Len(X)
        BY <3>1 DEF StandsFor
    <3>2. CASE ~(i > Len(X)) /\ (X[i] = 0 \/ i + X[i] > Len(X) + 1)
        BY <3>2 DEF StandsFor
    <3>3. CASE ~(i > Len(X)) /\ ~(X[i] = 0 \/ i + X[i] > Len(X) + 1)
      <4>1. X[i] \in Byte
          BY <1>2, <3>3, ElementOfSeq
      <4>2. X[i] \in Nat /\ X[i] # 0 /\ i \in Nat /\ Len(X) \in Nat
        <5>1. i \in Nat
            BY <1>2, <1>3
        <5>2. X[i] \in Nat
            BY <4>1, ByteSizes
        <5> QED BY <1>2, <3>3, <5>1, <5>2
      <4>4. i + X[i] \in i + 1 .. m
          BY <3>3, <4>2
      <4>3. h[i + X[i]] = g[i + X[i]]
          BY <2>2, <4>4
      <4> HIDE DEF h
      <4> QED BY <3>3, <4>3 DEF StandsFor
    <3> QED BY <3>1, <3>2, <3>3
  <2>5. g[i] = StandsFor(X, g, i)
      BY <1>1 DEF UncobsFrom
  <2> QED BY <2>3, <2>4, <2>5
<1>4. 1 .. m \subseteq S
  <2>1. m \in Nat
      BY <1>2
  <2> HIDE DEF m, S
  <2> QED BY <1>3, <2>1, Backwards
<1> QED BY <1>1, <1>2, <1>4

LEMMA CloseStands ==
    ASSUME NEW done \in Seq(Byte), NEW block \in Seq(Byte), NEW P \in Seq(Byte),
           Len(block) <= MaxRun, StandFor(done, P)
    PROVE  StandFor(done \o <<Len(block) + 1>> \o block, P \o (block \o HiddenByte(block)))
<1> DEFINE c == Len(block) + 1
           z == HiddenByte(block)
<1>1. c \in Byte /\ Len(block) \in Nat
    BY LenProperties, ByteSizes
<1>2. <<c>> \in Seq(Byte) /\ z \in Seq(Byte)
    BY <1>1, One, HiddenType
<1>3. ASSUME NEW X \in Seq(Byte), X # <<>>
      PROVE  Uncobs((done \o <<c>> \o block) \o X) = {(P \o (block \o z)) \o r : r \in Uncobs(X)}
  <2> DEFINE Y == <<c>> \o block \o X
  <2>1. <<c>> \o block \in Seq(Byte) /\ Y \in Seq(Byte) /\ done \o <<c>> \in Seq(Byte) /\ block \o z \in Seq(Byte)
    <3> HIDE DEF c, z
    <3>1. <<c>> \o block \in Seq(Byte)
        BY <1>2, ConcatProperties
    <3> QED BY <1>2, <3>1, ConcatProperties
  <2>2. (done \o <<c>> \o block) \o X = done \o Y
    <3> HIDE DEF c, z
    <3>1. done \o <<c>> \o block = done \o (<<c>> \o block)
        BY <1>2, ConcatAssociative
    <3>2. (done \o (<<c>> \o block)) \o X = done \o ((<<c>> \o block) \o X)
      <4> DEFINE u == <<c>> \o block
      <4>1. u \in Seq(Byte) /\ X \in Seq(Byte)
          BY <1>3, <2>1
      <4> HIDE DEF u
      <4>2. Reassoc(done, u, X)
          BY <4>1, ByteRegroup
      <4> QED BY <4>2 DEF u, Reassoc
    <3> QED BY <3>1, <3>2
  <2>3. Y # <<>>
    <3>1. Len(Y) = Len(<<c>> \o block) + Len(X) /\ Len(<<c>> \o block) = Len(<<c>>) + Len(block) /\ Len(X) \in Nat
      <4> HIDE DEF c, z
      <4> QED BY <1>2, <2>1, Cat
    <3>2. Len(<<c>>) = 1
        OBVIOUS
    <3> HIDE DEF Y, c
    <3> QED BY <1>1, <3>1, <3>2, EmptySeq
  <2>4. Uncobs(Y) = {block \o z \o r : r \in Uncobs(X)}
    <3>1. Uncobs(Y) = {block \o (IF X # <<>> /\ Len(block) < MaxRun THEN <<0>> ELSE <<>>) \o r : r \in Uncobs(X)}
        BY UncobsCons
    <3>2. (IF X # <<>> /\ Len(block) < MaxRun THEN <<0>> ELSE <<>>) = z
        BY <1>3 DEF HiddenByte
    <3> HIDE DEF Y, z
    <3> QED BY <3>1, <3>2
  <2>5. Uncobs(done \o Y) = {P \o q : q \in Uncobs(Y)}
    <3> HIDE DEF Y
    <3> QED BY <2>1, <2>3 DEF StandFor
  <2>6. \A r \in Uncobs(X) : P \o (block \o z \o r) = (P \o (block \o z)) \o r
    <3> SUFFICES ASSUME NEW r \in Uncobs(X) PROVE P \o (block \o z \o r) = (P \o (block \o z)) \o r
        OBVIOUS
    <3> DEFINE w == block \o z
    <3>1. r \in Seq(Byte) /\ w \in Seq(Byte)
        BY <2>1, UncobsType
    <3> HIDE DEF w
    <3>2. Reassoc(P, w, r)
        BY <3>1, ByteRegroup
    <3> QED BY <3>2 DEF w, Reassoc
  <2>7. Uncobs(done \o Y) = {P \o (block \o z \o r) : r \in Uncobs(X)}
    <3> HIDE DEF Y, z
    <3> QED BY <2>4, <2>5
  <2>8. {P \o (block \o z \o r) : r \in Uncobs(X)} = {(P \o (block \o z)) \o r : r \in Uncobs(X)}
    <3> HIDE DEF Y, z
    <3> QED BY <2>6
  <2> HIDE DEF Y, z, c
  <2> QED BY <2>2, <2>7, <2>8
<1> QED BY <1>3 DEF StandFor

\* The encoder after the first bytes of the data.
Taking(acc, done, block) ==
    /\ acc = [done |-> done, block |-> block]
    /\ done \in Seq(Byte) /\ ZeroFree(done)
    /\ block \in Seq(Byte) /\ ZeroFree(block) /\ Len(block) < MaxRun

Encoded(acc, p) ==
    \E done, block, P \in Seq(Byte) :
        Taking(acc, done, block) /\ StandFor(done, P) /\ P \o block = p

LEMMA EncodedIs ==
    ASSUME NEW acc, NEW done \in Seq(Byte), NEW block \in Seq(Byte), NEW P \in Seq(Byte),
           Taking(acc, done, block), StandFor(done, P)
    PROVE  Encoded(acc, P \o block)
BY DEF Encoded

LEMMA CloseTaking ==
    ASSUME NEW done \in Seq(Byte), NEW block \in Seq(Byte),
           ZeroFree(done), ZeroFree(block), Len(block) <= MaxRun
    PROVE  /\ done \o <<Len(block) + 1>> \o block \in Seq(Byte)
           /\ ZeroFree(done \o <<Len(block) + 1>> \o block)
<1> DEFINE c == Len(block) + 1
<1>1. c \in Byte /\ c # 0
    BY LenProperties, ByteSizes
<1>2. <<c>> \in Seq(Byte) /\ ZeroFree(<<c>>)
  <2> HIDE DEF c
  <2> QED BY <1>1, ZeroFreeOne
<1> HIDE DEF c
<1>3. done \o <<c>> \in Seq(Byte) /\ ZeroFree(done \o <<c>>)
    BY <1>2, ZeroFreeCat
<1>4. done \o <<c>> \o block \in Seq(Byte) /\ ZeroFree(done \o <<c>> \o block)
    BY <1>3, ZeroFreeCat
<1> QED BY <1>4 DEF c

LEMMA TakeByteAs ==
    ASSUME NEW done, NEW block, NEW b
    PROVE  TakeByte([done |-> done, block |-> block], b)
              = IF b = 0 THEN [done |-> done \o <<Len(block) + 1>> \o block, block |-> <<>>]
                ELSE IF Len(Append(block, b)) = MaxRun
                THEN [done |-> done \o <<FullCode>> \o Append(block, b), block |-> <<>>]
                ELSE [done |-> done, block |-> Append(block, b)]
<1>1. [[done |-> done, block |-> block] EXCEPT !.block = Append(@, b)] = [done |-> done, block |-> Append(block, b)]
    OBVIOUS
<1> QED BY <1>1 DEF TakeByte, CloseBlock

LEMMA TakeByteEncoded ==
    ASSUME NEW acc, NEW p \in Seq(Byte), NEW b \in Byte, Encoded(acc, p)
    PROVE  Encoded(TakeByte(acc, b), Append(p, b))
<1>1. PICK done, block, P \in Seq(Byte) :
          Taking(acc, done, block) /\ StandFor(done, P) /\ P \o block = p
    BY DEF Encoded
<1>2. Len(block) \in Nat /\ Len(block) < MaxRun /\ ZeroFree(done) /\ ZeroFree(block)
    BY <1>1, LenProperties DEF Taking
<1>3. <<b>> \in Seq(Byte) /\ Append(block, b) = block \o <<b>> /\ Append(p, b) = p \o <<b>>
    BY One, AppendIsConcat
<1>4. Append(p, b) = P \o (block \o <<b>>)
  <2>1. <<b>> \in Seq(Byte) /\ block \in Seq(Byte)
      BY <1>1, <1>3 DEF Taking
  <2>2. Reassoc(P, block, <<b>>)
      BY <2>1, ByteRegroup
  <2> QED BY <1>1, <1>3, <2>2 DEF Reassoc
<1>5. CASE b = 0
  <2> DEFINE done2 == done \o <<Len(block) + 1>> \o block
             P2 == P \o (block \o HiddenByte(block))
  <2>1. TakeByte(acc, b) = [done |-> done2, block |-> <<>>]
      BY <1>1, <1>5, TakeByteAs DEF Taking
  <2>2. done2 \in Seq(Byte) /\ ZeroFree(done2)
      BY <1>1, <1>2, CloseTaking, ByteSizes
  <2>3. HiddenByte(block) = <<b>>
      BY <1>2, <1>5 DEF HiddenByte
  <2>4. P2 = Append(p, b) /\ P2 \in Seq(Byte)
    <3>1. Append(p, b) \in Seq(Byte)
        BY AppendProperties
    <3> QED BY <1>4, <2>3, <3>1
  <2>5. StandFor(done2, P2)
      BY <1>1, <1>2, CloseStands, ByteSizes
  <2> HIDE DEF done2, P2
  <2>6. P2 \o <<>> = Append(p, b)
      BY <2>4, ConcatEmptySeq
  <2>7. Taking(TakeByte(acc, b), done2, <<>>) /\ <<>> \in Seq(Byte)
      BY <2>1, <2>2, ZeroFreeNone, ByteSizes DEF Taking
  <2> QED BY <2>2, <2>4, <2>5, <2>6, <2>7 DEF Encoded
<1>6. CASE b # 0
  <2> DEFINE grown == Append(block, b)
  <2>1. grown \in Seq(Byte) /\ ZeroFree(grown) /\ Len(grown) = Len(block) + 1
    <3>1. <<b>> \in Seq(Byte) /\ ZeroFree(<<b>>) /\ Len(<<b>>) = 1
        BY <1>6, ZeroFreeOne
    <3>2. block \o <<b>> \in Seq(Byte) /\ ZeroFree(block \o <<b>>) /\ Len(block \o <<b>>) = Len(block) + Len(<<b>>)
        BY <1>2, <3>1, ZeroFreeCat
    <3> QED BY <1>3, <3>1, <3>2
  <2>2. P \o grown = Append(p, b)
      BY <1>3, <1>4
  <2>3. CASE Len(grown) = MaxRun
    <3> DEFINE done2 == done \o <<Len(grown) + 1>> \o grown
               P2 == P \o (grown \o HiddenByte(grown))
    <3>1. Len(grown) + 1 = FullCode
        BY <2>3, ByteSizes
    <3>2. TakeByte(acc, b) = [done |-> done2, block |-> <<>>]
      <4>1. TakeByte(acc, b) = [done |-> done \o <<FullCode>> \o grown, block |-> <<>>]
          BY <1>1, <1>6, <2>3, TakeByteAs DEF Taking
      <4> HIDE DEF grown
      <4> QED BY <3>1, <4>1
    <3> HIDE DEF grown
    <3>3. done2 \in Seq(Byte) /\ ZeroFree(done2)
        BY <1>1, <1>2, <2>1, <2>3, CloseTaking, ByteSizes
    <3>4. HiddenByte(grown) = <<>>
        BY <2>3, ByteSizes DEF HiddenByte
    <3>5. P2 = Append(p, b) /\ P2 \in Seq(Byte)
      <4>1. grown \o <<>> = grown
          BY <2>1, ConcatEmptySeq
      <4>2. Append(p, b) \in Seq(Byte)
          BY AppendProperties
      <4> QED BY <2>2, <3>4, <4>1, <4>2
    <3>6. StandFor(done2, P2)
        BY <1>1, <2>1, <2>3, CloseStands, ByteSizes
    <3> HIDE DEF done2, P2
    <3>7. P2 \o <<>> = Append(p, b)
        BY <3>5, ConcatEmptySeq
    <3>8. Taking(TakeByte(acc, b), done2, <<>>) /\ <<>> \in Seq(Byte)
        BY <3>2, <3>3, ZeroFreeNone, ByteSizes DEF Taking
    <3> QED BY <3>3, <3>5, <3>6, <3>7, <3>8 DEF Encoded
  <2>4. CASE Len(grown) # MaxRun
    <3>1. TakeByte(acc, b) = [done |-> done, block |-> grown]
        BY <1>1, <1>6, <2>4, TakeByteAs DEF Taking
    <3> HIDE DEF grown
    <3>2. Taking(TakeByte(acc, b), done, grown)
        BY <1>1, <1>2, <2>1, <2>4, <3>1, ByteSizes DEF Taking
    <3> QED BY <1>1, <2>1, <2>2, <3>2 DEF Encoded
  <2> QED BY <2>3, <2>4
<1> QED BY <1>5, <1>6

BoardFrom(data, g) ==
    g = [i \in 0 .. Len(data) |->
            IF i = 0 THEN [done |-> <<>>, block |-> <<>>] ELSE TakeByte(g[i - 1], data[i])]

LEMMA BoardExists ==
    ASSUME NEW data \in Seq(Byte)
    PROVE  \E g : BoardFrom(data, g)
<1> DEFINE D == [done : Seq(Nat), block : Seq(Nat)]
           n == Len(data)
           s == [done |-> <<>>, block |-> <<>>]
           step == [i \in 1 .. n |-> [a \in D |-> TakeByte(a, data[i])]]
<1>1. n \in Nat
    BY LenProperties
<1>2. s \in D
    BY EmptySeq
<1>3. ASSUME NEW a \in D, NEW i \in 1 .. n PROVE TakeByte(a, data[i]) \in D
  <2> DEFINE b == data[i]
             done == a.done
             block == a.block
  <2>1. b \in Nat
      BY <1>1, ElementOfSeq, ByteSizes
  <2>2. done \in Seq(Nat) /\ block \in Seq(Nat) /\ a = [done |-> done, block |-> block]
      OBVIOUS
  <2>3. TakeByte([done |-> done, block |-> block], b)
              = IF b = 0 THEN [done |-> done \o <<Len(block) + 1>> \o block, block |-> <<>>]
                ELSE IF Len(Append(block, b)) = MaxRun
                THEN [done |-> done \o <<FullCode>> \o Append(block, b), block |-> <<>>]
                ELSE [done |-> done, block |-> Append(block, b)]
    <3> HIDE DEF b, done, block
    <3> QED BY TakeByteAs
  <2> HIDE DEF b, done, block
  <2>4. Append(block, b) \in Seq(Nat) /\ <<Len(block) + 1>> \in Seq(Nat) /\ <<FullCode>> \in Seq(Nat) /\ <<>> \in Seq(Nat)
    <3>1. Len(block) \in Nat
        BY <2>2, LenProperties
    <3>2. FullCode \in Nat
        BY ByteSizes
    <3> QED BY <2>1, <2>2, <3>1, <3>2, AppendProperties, One, EmptySeq
  <2>5. \A t \in Seq(Nat), u \in Seq(Nat) : done \o t \o u \in Seq(Nat)
      BY <2>2, ConcatProperties
  <2>6. done \o <<Len(block) + 1>> \o block \in Seq(Nat) /\ done \o <<FullCode>> \o Append(block, b) \in Seq(Nat)
      BY <2>2, <2>4, <2>5
  <2>7. TakeByte(a, b) \in D
    <3>1. \A x \in Seq(Nat), y \in Seq(Nat) : [done |-> x, block |-> y] \in D
        OBVIOUS
    <3> HIDE DEF D
    <3> QED BY <2>2, <2>3, <2>4, <2>6, <3>1
  <2> QED BY <2>7 DEF b
<1>4. step \in Steps(n, D)
    BY <1>3 DEF Steps
<1>5. \A i \in 1 .. n : \A a \in D : step[i][a] = TakeByte(a, data[i])
    OBVIOUS
<1> HIDE DEF step, D, n, s
<1>6. PICK f : Unfolded(f, n, D, s, step)
    BY <1>1, <1>2, <1>4, Unfold
<1>7. ASSUME NEW i \in 1 .. n PROVE f[i] = TakeByte(f[i - 1], data[i])
  <2>1. f[i - 1] \in D
      BY <1>1, <1>6 DEF Unfolded
  <2> QED BY <1>5, <1>6, <2>1 DEF Unfolded
<1>8. BoardFrom(data, f)
  <2>1. f \in [0 .. n -> D] /\ f[0] = s
      BY <1>6 DEF Unfolded
  <2>2. \A i \in 0 .. n : i # 0 => i \in 1 .. n
      BY <1>1
  <2> QED BY <1>7, <2>1, <2>2 DEF BoardFrom, n, s
<1> QED BY <1>8

\* What an encoder must do: no zero in the encoding, and one decoding.
RoundTrip(code, data) ==
    code \in Seq(Byte) /\ ZeroFree(code) /\ code # <<>> /\ Uncobs(code) = {data}

LEMMA BoardRoundTrip ==
    ASSUME NEW data \in Seq(Byte)
    PROVE  RoundTrip(BoardCobs(data), data)
<1> DEFINE g == CHOOSE h : BoardFrom(data, h)
           n == Len(data)
           last == g[n]
<1>1. BoardFrom(data, g)
    BY BoardExists
<1>2. BoardCobs(data) = CloseBlock(last, Len(last.block) + 1).done
    BY DEF BoardCobs, BoardFrom
<1>3. n \in Nat
    BY LenProperties
<1> HIDE DEF g
<1> DEFINE Q(i) == Encoded(g[i], SubSeq(data, 1, i))
           S == {i \in 0 .. n : Q(i)}
<1>4. 0 \in S
  <2>1. g[0] = [done |-> <<>>, block |-> <<>>]
      BY <1>1, <1>3 DEF BoardFrom
  <2>2. SubSeq(data, 1, 0) = <<>>
      BY SubSeqEmpty
  <2>3. StandFor(<<>>, <<>>)
    <3> SUFFICES ASSUME NEW X \in Seq(Byte) PROVE Uncobs(<<>> \o X) = {<<>> \o r : r \in Uncobs(X)}
        BY DEF StandFor
    <3>1. <<>> \o X = X /\ \A r \in Uncobs(X) : <<>> \o r = r
        BY UncobsType, ConcatEmptySeq
    <3> QED BY <3>1
  <2>4. Taking(g[0], <<>>, <<>>) /\ <<>> \in Seq(Byte) /\ <<>> \o <<>> = <<>>
    <3>1. <<>> \o <<>> = <<>>
        BY ZeroFreeNone, ConcatEmptySeq
    <3> QED BY <2>1, <3>1, ZeroFreeNone, ByteSizes DEF Taking
  <2>5. Encoded(g[0], <<>>)
    <3>1. Encoded(g[0], <<>> \o <<>>)
        BY <2>3, <2>4, EncodedIs
    <3> QED BY <2>4, <3>1
  <2>6. Q(0)
      BY <2>2, <2>5
  <2> HIDE DEF Q
  <2> QED BY <1>3, <2>6
<1>5. ASSUME NEW i \in 1 .. n, i - 1 \in S PROVE i \in S
  <2>1. data[i] \in Byte /\ g[i] = TakeByte(g[i - 1], data[i])
    <3>1. g[i] = TakeByte(g[i - 1], data[i])
        BY <1>1, <1>3 DEF BoardFrom
    <3> QED BY <1>3, <3>1, ElementOfSeq
  <2>2. SubSeq(data, 1, i) = Append(SubSeq(data, 1, i - 1), data[i]) /\ SubSeq(data, 1, i - 1) \in Seq(Byte)
    <3>1. 1 \in 1 .. Len(data) /\ i \in 1 .. Len(data)
        BY <1>3
    <3>2. SubSeq(data, 1, i) = SubSeq(data, 1, i - 1) \o <<data[i]>>
        BY <3>1, SubSeqRecursiveSecond
    <3>3. SubSeq(data, 1, i - 1) \in Seq(Byte)
        BY <1>3, <3>1, Part
    <3> QED BY <2>1, <3>2, <3>3, AppendIsConcat
  <2>3. Encoded(g[i - 1], SubSeq(data, 1, i - 1))
      BY <1>5
  <2>4. Encoded(TakeByte(g[i - 1], data[i]), Append(SubSeq(data, 1, i - 1), data[i]))
    <3> DEFINE acc == g[i - 1]
               p == SubSeq(data, 1, i - 1)
               b == data[i]
    <3>1. Encoded(acc, p) /\ p \in Seq(Byte) /\ b \in Byte
        BY <2>1, <2>2, <2>3
    <3> HIDE DEF acc, p, b
    <3>2. Encoded(TakeByte(acc, b), Append(p, b))
        BY <3>1, TakeByteEncoded
    <3> QED BY <3>2 DEF acc, p, b
  <2>5. Q(i)
      BY <2>1, <2>2, <2>4
  <2>6. i \in 0 .. n
      BY <1>3
  <2> HIDE DEF Q
  <2> QED BY <2>5, <2>6
<1>6. n \in S
  <2>1. 0 .. n \subseteq S
    <3> HIDE DEF S, n
    <3> QED BY <1>3, <1>4, <1>5, Induct
  <2>2. n \in 0 .. n
      BY <1>3
  <2> HIDE DEF S, n
  <2> QED BY <2>1, <2>2
<1>7. SubSeq(data, 1, n) = data
    BY SubSeqFull
<1>8. PICK done, block, P \in Seq(Byte) :
          Taking(last, done, block) /\ StandFor(done, P) /\ P \o block = data
    BY <1>6, <1>7 DEF Encoded
<1> DEFINE c == Len(block) + 1
           X == <<c>> \o block
<1>9. BoardCobs(data) = done \o <<c>> \o block
  <2> HIDE DEF last
  <2> QED BY <1>2, <1>8 DEF CloseBlock, Taking
<1>10. Len(block) \in Nat /\ Len(block) < MaxRun /\ ZeroFree(done) /\ ZeroFree(block) /\ Len(block) <= MaxRun
    BY <1>8, LenProperties, ByteSizes DEF Taking
<1>11. done \o <<c>> \o block \in Seq(Byte) /\ ZeroFree(done \o <<c>> \o block)
    BY <1>10, CloseTaking
<1>12. c \in Byte /\ <<c>> \in Seq(Byte) /\ Len(<<c>>) = 1
  <2>1. c \in Byte
      BY <1>10, ByteSizes
  <2> HIDE DEF c
  <2> QED BY <2>1, One
<1>13. done \o <<c>> \o block = done \o X
  <2> HIDE DEF c
  <2> QED BY <1>12, ConcatAssociative
<1>14. X \in Seq(Byte) /\ Len(X) = 1 + Len(block)
  <2> HIDE DEF c
  <2> QED BY <1>12, Cat
<1>15. Uncobs(X) = {block}
  <2>1. X \o <<>> = X /\ <<>> \in Seq(Byte)
    <3> HIDE DEF X
    <3> QED BY <1>14, ConcatEmptySeq, EmptySeq
  <2>2. Uncobs(<<c>> \o block \o <<>>)
          = {block \o (IF <<>> # <<>> /\ Len(block) < MaxRun THEN <<0>> ELSE <<>>) \o r : r \in Uncobs(<<>>)}
      BY <1>10, <2>1, UncobsCons
  <2>3. block \o <<>> \o <<>> = block
      BY ConcatEmptySeq
  <2> QED BY <2>1, <2>2, <2>3, UncobsNone
<1>16. X # <<>> /\ done \o X # <<>>
  <2> HIDE DEF X
  <2>1. Len(done \o X) = Len(done) + Len(X) /\ Len(done) \in Nat
      BY <1>14, Cat
  <2> QED BY <1>10, <1>14, <2>1, EmptySeq
<1>17. Uncobs(done \o X) = {P \o r : r \in Uncobs(X)}
  <2> HIDE DEF X
  <2> QED BY <1>8, <1>14, <1>16 DEF StandFor
<1>18. Uncobs(done \o X) = {data}
  <2> HIDE DEF X
  <2> QED BY <1>8, <1>15, <1>17
<1> QED BY <1>9, <1>11, <1>13, <1>16, <1>18 DEF RoundTrip

-----------------------------------------------------------------------------
(* The gateway's encoder.                                                  *)

LEMMA FirstIs ==
    ASSUME NEW S \in SUBSET Nat, S # {}
    PROVE  First(S) \in S /\ \A j \in S : First(S) <= j
<1>1. PICK i \in S : \A j \in S : ~(<<j, i>> \in OpToRel(<, Nat))
    BY WFMin, NatLessThanWellFounded
<1>2. ASSUME NEW j \in S PROVE i <= j
  <2>1. ~(j < i)
      BY <1>1 DEF OpToRel
  <2> QED BY <2>1
<1>3. \E k \in S : \A j \in S : k <= j
    BY <1>1, <1>2
<1> QED BY <1>3 DEF First

LEMMA Quotients ==
    ASSUME NEW M \in Nat, M >= 1, NEW a \in Nat
    PROVE  /\ a \div M \in Nat /\ (a + M) \div M = (a \div M) + 1 /\ (a + M) % M = a % M
           /\ M % M = 0
           /\ \A b \in Nat : a <= b => a \div M <= b \div M
<1> DEFINE q == a \div M
           r == a % M
<1>1. q \in Nat /\ r \in 0 .. M - 1 /\ a = (M * q) + r
    OBVIOUS
<1>2. \A k \in Nat, y \in 0 .. M - 1 : ((M * k) + y) \div M = k /\ ((M * k) + y) % M = y
    OBVIOUS
<1>3. \A k \in Nat : M * k \in Nat /\ M * (k + 1) = (M * k) + M
    OBVIOUS
<1>4. (a + M) \div M = q + 1 /\ (a + M) % M = r
  <2> HIDE DEF q, r
  <2>1. q + 1 \in Nat /\ a + M = (M * (q + 1)) + r
      BY <1>1, <1>3
  <2> QED BY <1>1, <1>2, <2>1
<1>5. M % M = 0
  <2>1. ((M * 1) + 0) % M = 0 /\ (M * 1) + 0 = M
      BY <1>2
  <2> QED BY <2>1
<1>6. ASSUME NEW b \in Nat, a <= b PROVE q <= b \div M
  <2> DEFINE p == b \div M
             s == b % M
  <2>1. p \in Nat /\ s \in 0 .. M - 1 /\ b = (M * p) + s
      OBVIOUS
  <2>2. \A k \in Nat : k >= p + 1 => M * k >= M * (p + 1)
    <3> HIDE DEF p, s, q, r
    <3>1. \A d \in Nat : M * (p + 1 + d) = (M * (p + 1)) + (M * d) /\ M * d \in Nat
        BY <2>1
    <3>2. ASSUME NEW k \in Nat, k >= p + 1 PROVE M * k >= M * (p + 1)
      <4>1. k - (p + 1) \in Nat /\ k = p + 1 + (k - (p + 1))
          BY <2>1, <3>2
      <4>2. M * (p + 1) \in Nat
          BY <1>3, <2>1
      <4> QED BY <3>1, <4>1, <4>2
    <3> QED BY <3>2
  <2> HIDE DEF p, s, q, r
  <2>3. SUFFICES ASSUME ~(q <= p) PROVE FALSE
      BY DEF p
  <2>4. q >= p + 1
      BY <1>1, <2>1, <2>3
  <2>5. M * q >= M * (p + 1) /\ M * (p + 1) = (M * p) + M /\ M * p \in Nat /\ M * q \in Nat
      BY <1>1, <1>3, <2>1, <2>2, <2>4
  <2> QED BY <1>1, <1>6, <2>1, <2>5
<1> QED BY <1>1, <1>4, <1>5, <1>6

\* Where a block that starts at i ends.
StopAt(data, i) ==
    LET z == ZerosFrom(data, i) \cup {Len(data) + 1}
    IN  IF First(z) - i > MaxRun THEN i + MaxRun ELSE First(z)

LEMMA StopFacts ==
    ASSUME NEW data \in Seq(Byte), NEW i \in 1 .. Len(data) + 1
    PROVE  /\ StopAt(data, i) \in i .. Len(data) + 1 /\ StopAt(data, i) - i <= MaxRun
           /\ \A j \in i .. StopAt(data, i) - 1 : data[j] # 0
           /\ StopAt(data, i) <= Len(data) /\ data[StopAt(data, i)] # 0 => StopAt(data, i) = i + MaxRun
<1> DEFINE z == ZerosFrom(data, i) \cup {Len(data) + 1}
           f == First(z)
<1>1. Len(data) \in Nat /\ i \in Nat /\ MaxRun \in Nat
    BY LenProperties, ByteSizes
<1>2. z \in SUBSET Nat /\ z # {}
    BY <1>1 DEF ZerosFrom
<1>3. f \in z /\ \A j \in z : f <= j
  <2> HIDE DEF z
  <2> QED BY <1>2, FirstIs
<1>4. f \in i .. Len(data) + 1
  <2> HIDE DEF f
  <2> QED BY <1>1, <1>3 DEF ZerosFrom
<1>5. \A j \in i .. Len(data) : j < f => data[j] # 0
  <2> SUFFICES ASSUME NEW j \in i .. Len(data), j < f, data[j] = 0 PROVE FALSE
      OBVIOUS
  <2>1. j \in z
      BY DEF ZerosFrom
  <2> HIDE DEF f, z
  <2> QED BY <1>1, <1>3, <1>4, <2>1
<1>6. f <= Len(data) => data[f] = 0
  <2> HIDE DEF f
  <2> QED BY <1>1, <1>3 DEF ZerosFrom
<1>7. StopAt(data, i) = IF f - i > MaxRun THEN i + MaxRun ELSE f
    BY DEF StopAt
<1> HIDE DEF f, z
<1>8. StopAt(data, i) \in i .. Len(data) + 1 /\ StopAt(data, i) - i <= MaxRun /\ StopAt(data, i) <= f
    BY <1>1, <1>4, <1>7
<1>9. \A j \in i .. StopAt(data, i) - 1 : j \in i .. Len(data) /\ j < f
    BY <1>1, <1>4, <1>8
<1>10. StopAt(data, i) <= Len(data) /\ data[StopAt(data, i)] # 0 => StopAt(data, i) = i + MaxRun
    BY <1>6, <1>7
<1> QED BY <1>5, <1>8, <1>9, <1>10

\* The blocks from position i on, when g tells them for the later ones.
Blocks(data, g, i) ==
    LET n == Len(data)
        e == StopAt(data, i)
        block == <<e - i + 1>> \o SubSeq(data, i, e - 1)
    IN  IF e > n THEN block
                ELSE IF data[e] # 0 THEN block \o g[e]
                ELSE IF e = n THEN block \o <<1>>
                ELSE block \o g[e + 1]

GatewayFrom(data, g) == g = [i \in 1 .. Len(data) + 1 |-> Blocks(data, g, i)]

LEMMA BlocksLater ==
    ASSUME NEW data \in Seq(Byte), NEW V, V = Seq(Nat), NEW i \in 1 .. Len(data) + 1,
           NEW g \in [1 .. Len(data) + 1 -> V]
    PROVE  /\ Blocks(data, g, i) \in V
           /\ \A h \in [1 .. Len(data) + 1 -> V] :
                 (\A j \in i + 1 .. Len(data) + 1 : g[j] = h[j]) => Blocks(data, g, i) = Blocks(data, h, i)
<1> DEFINE n == Len(data)
           e == StopAt(data, i)
           block == <<e - i + 1>> \o SubSeq(data, i, e - 1)
<1>1. n \in Nat /\ i \in Nat
    BY LenProperties
<1>2. /\ e \in i .. n + 1 /\ e - i <= MaxRun
      /\ e <= n /\ data[e] # 0 => e = i + MaxRun
    BY StopFacts
<1>3. block \in Seq(Nat)
  <2> HIDE DEF e
  <2>1. e - i + 1 \in Nat /\ e - 1 \in i - 1 .. Len(data)
      BY <1>1, <1>2
  <2>2. SubSeq(data, i, e - 1) \in Seq(Byte)
      BY <2>1, Part
  <2>3. SubSeq(data, i, e - 1) \in Seq(Nat)
      BY <2>2, ByteSizes, SeqMonotonic
  <2>4. <<e - i + 1>> \in Seq(Nat)
      BY <2>1, One
  <2> QED BY <2>3, <2>4, ConcatProperties
<1>4. \A s \in Seq(Nat) : block \o s \in Seq(Nat)
  <2> HIDE DEF block
  <2> QED BY <1>3, ConcatProperties
<1>5. <<1>> \in Seq(Nat)
    BY One
<1>6. \A h : Blocks(data, h, i) = IF e > n THEN block
                ELSE IF data[e] # 0 THEN block \o h[e]
                ELSE IF e = n THEN block \o <<1>>
                ELSE block \o h[e + 1]
    BY DEF Blocks
<1>7. (e <= n /\ data[e] # 0) => e \in i + 1 .. n + 1
    BY <1>1, <1>2, ByteSizes
<1>8. (e <= n /\ e # n) => e + 1 \in i + 1 .. n + 1
    BY <1>1, <1>2
<1>9. e > n \/ e <= n
    BY <1>1, <1>2
<1> HIDE DEF block, e
<1>10. \A j \in i + 1 .. n + 1 : j \in 1 .. n + 1
    BY <1>1
<1>11. Blocks(data, g, i) \in V
    BY <1>3, <1>4, <1>5, <1>6, <1>7, <1>8, <1>9, <1>10
<1>12. ASSUME NEW h \in [1 .. n + 1 -> V], \A j \in i + 1 .. n + 1 : g[j] = h[j]
       PROVE  Blocks(data, g, i) = Blocks(data, h, i)
    BY <1>6, <1>7, <1>8, <1>9, <1>12
<1> QED BY <1>11, <1>12

LEMMA GatewayExists ==
    ASSUME NEW data \in Seq(Byte)
    PROVE  \E g : GatewayFrom(data, g)
<1> DEFINE m == Len(data) + 1
           V == Seq(Nat)
           G == [1 .. m -> V]
           F == [g \in G |-> [i \in 1 .. m |-> Blocks(data, g, i)]]
<1>1. m \in Nat
    BY LenProperties
<1>2. \A g \in G : \A i \in 1 .. m : Blocks(data, g, i) \in V
    BY BlocksLater
<1>3. \A g, h \in G : \A i \in 1 .. m :
          (\A j \in i + 1 .. m : g[j] = h[j]) => Blocks(data, g, i) = Blocks(data, h, i)
  <2> SUFFICES ASSUME NEW g \in G, NEW h \in G, NEW i \in 1 .. m
               PROVE  (\A j \in i + 1 .. m : g[j] = h[j]) => Blocks(data, g, i) = Blocks(data, h, i)
      OBVIOUS
  <2>1. \A k \in [1 .. Len(data) + 1 -> V] :
           (\A j \in i + 1 .. Len(data) + 1 : g[j] = k[j]) => Blocks(data, g, i) = Blocks(data, k, i)
    <3>1. V = Seq(Nat)
        OBVIOUS
    <3> HIDE DEF V
    <3> QED BY <3>1, BlocksLater
  <2> QED BY <2>1
<1>4. <<>> \in V
    BY EmptySeq
<1> HIDE DEF V
<1>5. Looks(m, V, F)
  <2> HIDE DEF m
  <2>1. F \in [G -> G]
      BY <1>2
  <2> QED BY <1>3, <2>1 DEF Looks
<1> HIDE DEF F, m, V
<1>6. PICK g \in G : g = F[g]
    BY <1>1, <1>4, <1>5, FixedPoint
<1>7. GatewayFrom(data, g)
    BY <1>6 DEF F, GatewayFrom, m
<1> QED BY <1>7

LEMMA GatewayAs ==
    ASSUME NEW data \in Seq(Byte)
    PROVE  \E g : GatewayFrom(data, g) /\ GatewayCobs(data) = g[1]
<1> DEFINE g == CHOOSE h : GatewayFrom(data, h)
<1>1. GatewayFrom(data, g)
    BY GatewayExists
<1>2. GatewayCobs(data) = g[1]
    BY DEF GatewayCobs, GatewayFrom, Blocks, StopAt
<1> QED BY <1>1, <1>2

\* From i on, no zero ends a run whose length is a multiple of the longest block.
SafeFrom(data, i) ==
    \A z \in i .. Len(data) :
        data[z] = 0 /\ z # i /\ (\A j \in i .. z - 1 : data[j] # 0) => (z - i) % MaxRun # 0

\* The bodies that the gateway's encoder carries: no zero follows a run of other
\* bytes whose length is a multiple of MaxRun.
Survivable(data) ==
    \A i \in 1 .. Len(data) + 1 : i = 1 \/ data[i - 1] = 0 => SafeFrom(data, i)

\* What the encoding of the bytes from i on must be.
GoodBlocks(code, data, i) ==
    /\ RoundTrip(code, SubSeq(data, i, Len(data)))
    /\ Len(code) <= ((Len(data) + 1) - i) + (((Len(data) + 1) - i) \div MaxRun) + 1

\* One block and what follows it.
LEMMA BlockThen ==
    ASSUME NEW d \in Seq(Byte), NEW X \in Seq(Byte), NEW q \in Seq(Byte),
           ZeroFree(d), Len(d) <= MaxRun, ZeroFree(X), Uncobs(X) = {q}
    PROVE  /\ <<Len(d) + 1>> \o d \in Seq(Byte)
           /\ Len(<<Len(d) + 1>> \o d) = Len(d) + 1
           /\ Len((<<Len(d) + 1>> \o d) \o X) = Len(d) + 1 + Len(X)
           /\ RoundTrip((<<Len(d) + 1>> \o d) \o X,
                        (d \o (IF X # <<>> /\ Len(d) < MaxRun THEN <<0>> ELSE <<>>)) \o q)
<1> DEFINE c == Len(d) + 1
           blk == <<c>> \o d
<1>1. c \in Byte /\ c # 0 /\ Len(d) \in Nat /\ Len(X) \in Nat
    BY LenProperties, ByteSizes
<1>2. <<c>> \in Seq(Byte) /\ ZeroFree(<<c>>) /\ Len(<<c>>) = 1
  <2> HIDE DEF c
  <2> QED BY <1>1, ZeroFreeOne
<1>3. blk \in Seq(Byte) /\ ZeroFree(blk) /\ Len(blk) = 1 + Len(d)
  <2> HIDE DEF c
  <2> QED BY <1>2, ZeroFreeCat
<1>4. blk \o X \in Seq(Byte) /\ ZeroFree(blk \o X) /\ Len(blk \o X) = Len(blk) + Len(X)
  <2> HIDE DEF blk
  <2> QED BY <1>3, ZeroFreeCat
<1>5. Uncobs(blk \o X)
          = {d \o (IF X # <<>> /\ Len(d) < MaxRun THEN <<0>> ELSE <<>>) \o r : r \in Uncobs(X)}
    BY UncobsCons
<1>6. blk \o X # <<>>
  <2> HIDE DEF blk
  <2> QED BY <1>1, <1>3, <1>4, EmptySeq
<1>7. Uncobs(blk \o X) = {(d \o (IF X # <<>> /\ Len(d) < MaxRun THEN <<0>> ELSE <<>>)) \o q}
  <2> HIDE DEF blk
  <2> QED BY <1>5
<1>8. Len(blk) = Len(d) + 1 /\ Len(blk \o X) = Len(d) + 1 + Len(X)
  <2> HIDE DEF blk, c
  <2> QED BY <1>1, <1>3, <1>4
<1> QED BY <1>3, <1>4, <1>6, <1>7, <1>8 DEF RoundTrip

LEMMA SafeAfterFull ==
    ASSUME NEW data \in Seq(Byte), NEW i \in 1 .. Len(data) + 1, NEW e \in 1 .. Len(data),
           SafeFrom(data, i), e = i + MaxRun, data[e] # 0, \A j \in i .. e - 1 : data[j] # 0
    PROVE  SafeFrom(data, e)
<1>1. Len(data) \in Nat /\ i \in Nat /\ MaxRun \in Nat /\ MaxRun >= 1
    BY LenProperties, ByteSizes
<1>2. SUFFICES ASSUME NEW z \in e .. Len(data), data[z] = 0, z # e, \A j \in e .. z - 1 : data[j] # 0
               PROVE  (z - e) % MaxRun # 0
    BY DEF SafeFrom
<1>3. z \in i .. Len(data) /\ z # i /\ z - e \in Nat /\ z - i = (z - e) + MaxRun
    BY <1>1, <1>2
<1>4. \A j \in i .. z - 1 : data[j] # 0
  <2>1. \A j \in i .. z - 1 : j \in i .. e - 1 \/ j \in e .. z - 1
      BY <1>1, <1>2
  <2> QED BY <1>2, <2>1
<1>5. (z - i) % MaxRun # 0
    BY <1>2, <1>3, <1>4 DEF SafeFrom
<1>6. ((z - e) + MaxRun) % MaxRun = (z - e) % MaxRun
    BY <1>1, <1>3, Quotients
<1>7. (z - i) % MaxRun = (z - e) % MaxRun
    BY <1>3, <1>6, Zenon
<1> QED BY <1>5, <1>7, Zenon

LEMMA GoodBlocksAll ==
    ASSUME NEW data \in Seq(Byte), Survivable(data), NEW g, GatewayFrom(data, g),
           NEW i \in 1 .. Len(data) + 1, SafeFrom(data, i),
           \A j \in i + 1 .. Len(data) + 1 : SafeFrom(data, j) => GoodBlocks(g[j], data, j)
    PROVE  GoodBlocks(g[i], data, i)
<1> DEFINE n == Len(data)
           e == StopAt(data, i)
           d == SubSeq(data, i, e - 1)
           block == <<e - i + 1>> \o d
           left == (n + 1) - i
<1>1. n \in Nat /\ i \in Nat /\ left \in Nat /\ MaxRun \in Nat /\ MaxRun >= 1
    BY LenProperties, ByteSizes
<1>2. /\ e \in i .. n + 1 /\ e - i <= MaxRun /\ e \in Nat
      /\ \A j \in i .. e - 1 : data[j] # 0
      /\ e <= n /\ data[e] # 0 => e = i + MaxRun
  <2>1. /\ e \in i .. Len(data) + 1 /\ e - i <= MaxRun
        /\ \A j \in i .. e - 1 : data[j] # 0
        /\ e <= Len(data) /\ data[e] # 0 => e = i + MaxRun
      BY StopFacts, Zenon
  <2> HIDE DEF e
  <2> QED BY <1>1, <2>1
<1>3. /\ d \in Seq(Byte) /\ Len(d) = e - i /\ ZeroFree(d) /\ Len(d) <= MaxRun
  <2> HIDE DEF e
  <2>1. e - 1 \in i - 1 .. Len(data) /\ (e - 1 - i) + 1 = e - i
      BY <1>1, <1>2
  <2>2. /\ d \in Seq(Byte) /\ Len(d) = (e - 1 - i) + 1
        /\ \A j \in 1 .. (e - 1 - i) + 1 : d[j] = data[(i + j) - 1]
      BY <2>1, Part
  <2>3. \A j \in 1 .. Len(d) : (i + j) - 1 \in i .. e - 1 /\ j \in 1 .. (e - 1 - i) + 1
      BY <1>1, <1>2, <2>1, <2>2
  <2>4. ZeroFree(d)
    <3> HIDE DEF d
    <3> QED BY <1>2, <2>2, <2>3 DEF ZeroFree
  <2> HIDE DEF d
  <2> QED BY <1>2, <2>1, <2>2, <2>4
<1>4. g[i] = IF e > n THEN block
                ELSE IF data[e] # 0 THEN block \o g[e]
                ELSE IF e = n THEN block \o <<1>>
                ELSE block \o g[e + 1]
  <2>1. g[i] = Blocks(data, g, i)
      BY <1>1 DEF GatewayFrom
  <2> QED BY <2>1 DEF Blocks
<1>5. block = <<Len(d) + 1>> \o d
  <2> HIDE DEF d, e
  <2> QED BY <1>3
<1>6. left \div MaxRun \in Nat /\ \A b \in Nat : b <= left => b \div MaxRun <= left \div MaxRun
  <2>1. \A b \in Nat : b \div MaxRun \in Nat /\ (b <= left => b \div MaxRun <= left \div MaxRun)
    <3> HIDE DEF left
    <3> QED BY <1>1, Quotients
  <2> HIDE DEF left
  <2> QED BY <1>1, <2>1
<1>7. SubSeq(data, i, n) = d \o SubSeq(data, e, n) /\ SubSeq(data, e, n) \in Seq(Byte)
  <2> HIDE DEF e
  <2>1. e - 1 \in i - 1 .. Len(data) /\ n \in e - 1 .. Len(data) /\ (e - 1) + 1 = e /\ e \in 1 .. Len(data) + 1
      BY <1>1, <1>2
  <2>2. SubSeq(data, i, n) = SubSeq(data, i, e - 1) \o SubSeq(data, (e - 1) + 1, n)
      BY <2>1, Adjacent
  <2>3. SubSeq(data, e, n) \in Seq(Byte)
      BY <2>1, Part
  <2> QED BY <2>1, <2>2, <2>3
<1>8. CASE e > n
  <2>1. e = n + 1
      BY <1>1, <1>2, <1>8
  <2>2. SubSeq(data, e, n) = <<>>
    <3> HIDE DEF e
    <3> QED BY <1>1, <2>1, SubSeqEmpty
  <2>3. SubSeq(data, i, n) = d
    <3> HIDE DEF d, e, n
    <3> QED BY <1>3, <1>7, <2>2, ConcatEmptySeq
  <2> HIDE DEF d
  <2>4. /\ <<Len(d) + 1>> \o d \in Seq(Byte)
        /\ Len((<<Len(d) + 1>> \o d) \o <<>>) = Len(d) + 1 + Len(<<>>)
        /\ RoundTrip((<<Len(d) + 1>> \o d) \o <<>>,
                     (d \o (IF <<>> # <<>> /\ Len(d) < MaxRun THEN <<0>> ELSE <<>>)) \o <<>>)
      BY <1>3, ZeroFreeNone, UncobsNone, BlockThen
  <2>5. (d \o (IF <<>> # <<>> /\ Len(d) < MaxRun THEN <<0>> ELSE <<>>)) \o <<>> = d
      BY <1>3, ConcatEmptySeq
  <2>6. (<<Len(d) + 1>> \o d) \o <<>> = <<Len(d) + 1>> \o d
      BY <2>4, ConcatEmptySeq
  <2>7. g[i] = <<Len(d) + 1>> \o d
      BY <1>4, <1>5, <1>8
  <2>8. RoundTrip(g[i], SubSeq(data, i, n))
      BY <2>3, <2>4, <2>5, <2>6, <2>7
  <2>9. Len(g[i]) = left + 1
    <3>1. Len(<<>>) = 0 /\ Len(g[i]) = Len(d) + 1 + Len(<<>>)
        BY <2>4, <2>6, <2>7
    <3> HIDE DEF e
    <3> QED BY <1>1, <1>3, <2>1, <3>1
  <2>10. Len(g[i]) <= left + (left \div MaxRun) + 1
    <3> HIDE DEF left
    <3> QED BY <1>1, <1>6, <2>9
  <2> QED BY <2>8, <2>10 DEF GoodBlocks
<1>9. CASE e <= n /\ data[e] # 0
  <2>1. e = i + MaxRun /\ e \in 1 .. n /\ e \in i + 1 .. n + 1
      BY <1>1, <1>2, <1>9
  <2>2. SafeFrom(data, e)
    <3> HIDE DEF e
    <3> QED BY <1>2, <1>9, <2>1, SafeAfterFull
  <2> DEFINE X == g[e]
             q == SubSeq(data, e, n)
  <2>3. GoodBlocks(X, data, e)
    <3> HIDE DEF e
    <3> QED BY <2>1, <2>2
  <2>4. /\ X \in Seq(Byte) /\ ZeroFree(X) /\ X # <<>> /\ Uncobs(X) = {q}
        /\ Len(X) <= ((n + 1) - e) + (((n + 1) - e) \div MaxRun) + 1 /\ Len(X) \in Nat
    <3> HIDE DEF X, e
    <3>1. X \in Seq(Byte)
        BY <2>3 DEF GoodBlocks, RoundTrip
    <3> QED BY <2>3, <3>1, LenProperties DEF GoodBlocks, RoundTrip
  <2>5. Len(d) = MaxRun
    <3> HIDE DEF d, e
    <3> QED BY <1>1, <1>3, <2>1
  <2> HIDE DEF d, X, q
  <2>6. /\ <<Len(d) + 1>> \o d \in Seq(Byte)
        /\ Len((<<Len(d) + 1>> \o d) \o X) = Len(d) + 1 + Len(X)
        /\ RoundTrip((<<Len(d) + 1>> \o d) \o X,
                     (d \o (IF X # <<>> /\ Len(d) < MaxRun THEN <<0>> ELSE <<>>)) \o q)
      BY <1>3, <1>7, <2>4, BlockThen DEF q
  <2>7. (d \o (IF X # <<>> /\ Len(d) < MaxRun THEN <<0>> ELSE <<>>)) \o q = SubSeq(data, i, n)
    <3>1. (IF X # <<>> /\ Len(d) < MaxRun THEN <<0>> ELSE <<>>) = <<>>
        BY <1>1, <2>5
    <3>2. d \o <<>> = d
        BY <1>3, ConcatEmptySeq
    <3> QED BY <1>7, <3>1, <3>2 DEF q
  <2>8. g[i] = (<<Len(d) + 1>> \o d) \o X
    <3> HIDE DEF e, block
    <3>1. g[i] = block \o X
        BY <1>1, <1>2, <1>4, <1>9 DEF X
    <3> QED BY <1>5, <3>1
  <2>9. RoundTrip(g[i], SubSeq(data, i, n))
      BY <2>6, <2>7, <2>8
  <2>10. Len(g[i]) <= left + (left \div MaxRun) + 1
    <3> DEFINE b == (n + 1) - e
    <3>1. b \in Nat /\ left = b + MaxRun
      <4> HIDE DEF e
      <4> QED BY <1>1, <2>1
    <3>2. b \div MaxRun \in Nat /\ left \div MaxRun = (b \div MaxRun) + 1
      <4> HIDE DEF b, left
      <4> QED BY <1>1, <3>1, Quotients
    <3>3. Len(g[i]) = MaxRun + 1 + Len(X) /\ Len(X) <= b + (b \div MaxRun) + 1
        BY <2>4, <2>5, <2>6, <2>8
    <3> DEFINE x == b \div MaxRun
               y == left \div MaxRun
    <3> HIDE DEF b, left
    <3> HIDE DEF x, y
    <3>4. x \in Nat /\ y = x + 1 /\ Len(X) <= b + x + 1
        BY <3>2, <3>3 DEF x, y
    <3>5. Len(g[i]) <= left + y + 1
        BY <1>1, <2>4, <3>1, <3>3, <3>4
    <3> QED BY <3>5 DEF y
  <2> QED BY <2>9, <2>10 DEF GoodBlocks
<1>10. CASE e <= n /\ data[e] = 0
  <2>1. e \in 1 .. n /\ e \in i .. n
      BY <1>1, <1>2, <1>10
  <2>2. Len(d) < MaxRun
    <3> HIDE DEF e, d
    <3>1. CASE e = i
        BY <1>1, <1>3, <3>1
    <3>2. CASE e # i
      <4>1. (e - i) % MaxRun # 0
          BY <1>2, <1>10, <2>1, <3>2 DEF SafeFrom
      <4>2. MaxRun % MaxRun = 0
          BY <1>1, Quotients
      <4>3. e - i # MaxRun
          BY <4>1, <4>2
      <4> QED BY <1>1, <1>2, <1>3, <4>3
    <3> QED BY <3>1, <3>2
  <2>3. SubSeq(data, e, n) = <<0>> \o SubSeq(data, e + 1, n) /\ SubSeq(data, e + 1, n) \in Seq(Byte)
    <3> HIDE DEF e
    <3>1. n \in e .. Len(data) /\ e + 1 \in 1 .. Len(data) + 1 /\ n \in (e + 1) - 1 .. Len(data)
        BY <1>1, <2>1
    <3>2. SubSeq(data, e, n) = <<data[e]>> \o SubSeq(data, e + 1, n)
        BY <2>1, <3>1, SubSeqRecursiveFirst
    <3>3. SubSeq(data, e + 1, n) \in Seq(Byte)
        BY <3>1, Part
    <3> QED BY <1>10, <3>2, <3>3
  <2> DEFINE q == SubSeq(data, e + 1, n)
  <2>4. SubSeq(data, i, n) = (d \o <<0>>) \o q
    <3>1. <<0>> \in Seq(Byte)
        BY ByteSizes, One
    <3> HIDE DEF d, q
    <3>2. (d \o <<0>>) \o q = d \o (<<0>> \o q)
        BY <1>3, <2>3, <3>1, ByteAssoc DEF q
    <3> QED BY <1>7, <2>3, <3>2 DEF q
  <2>5. CASE e = n
    <3> DEFINE X == <<1>>
    <3>1. 1 \in Byte
        BY ByteSizes
    <3>2. X \in Seq(Byte) /\ ZeroFree(X) /\ Len(X) = 1 /\ X # <<>>
      <4>1. X \in Seq(Byte) /\ ZeroFree(X) /\ Len(X) = 1
          BY <3>1, ZeroFreeOne
      <4> QED BY <4>1, EmptySeq
    <3>3. Uncobs(X) = {<<>>}
      <4>1. Uncobs(<<Len(<<>>) + 1>> \o <<>> \o <<>>)
              = {<<>> \o (IF <<>> # <<>> /\ Len(<<>>) < MaxRun THEN <<0>> ELSE <<>>) \o r : r \in Uncobs(<<>>)}
        <5> DEFINE z == <<>>
        <5>1. z \in Seq(Byte) /\ Len(z) <= MaxRun
            BY <1>1, ZeroFreeNone
        <5> HIDE DEF z
        <5>2. Uncobs(<<Len(z) + 1>> \o z \o z)
                 = {z \o (IF z # <<>> /\ Len(z) < MaxRun THEN <<0>> ELSE <<>>) \o r : r \in Uncobs(z)}
            BY <5>1, UncobsCons
        <5> QED BY <5>2 DEF z
      <4>2. <<Len(<<>>) + 1>> = X
          BY ZeroFreeNone
      <4>3. X \o <<>> = X /\ <<>> \o <<>> = <<>>
          BY <3>2, ZeroFreeNone, ConcatEmptySeq
      <4> HIDE DEF X
      <4> QED BY <4>1, <4>2, <4>3, UncobsNone
    <3>4. q = <<>>
      <4> HIDE DEF e
      <4> QED BY <1>1, <2>5, SubSeqEmpty
    <3> HIDE DEF d, X, q
    <3>5. /\ <<Len(d) + 1>> \o d \in Seq(Byte)
          /\ Len((<<Len(d) + 1>> \o d) \o X) = Len(d) + 1 + Len(X)
          /\ RoundTrip((<<Len(d) + 1>> \o d) \o X,
                       (d \o (IF X # <<>> /\ Len(d) < MaxRun THEN <<0>> ELSE <<>>)) \o <<>>)
        BY <1>3, <3>2, <3>3, ZeroFreeNone, BlockThen
    <3>6. (d \o (IF X # <<>> /\ Len(d) < MaxRun THEN <<0>> ELSE <<>>)) \o <<>> = SubSeq(data, i, n)
      <4>1. (IF X # <<>> /\ Len(d) < MaxRun THEN <<0>> ELSE <<>>) = <<0>>
          BY <2>2, <3>2
      <4> QED BY <2>4, <3>4, <4>1
    <3>7. g[i] = (<<Len(d) + 1>> \o d) \o X
      <4> HIDE DEF e
      <4> QED BY <1>1, <1>2, <1>4, <1>5, <1>10, <2>5 DEF X
    <3>8. RoundTrip(g[i], SubSeq(data, i, n))
        BY <3>5, <3>6, <3>7
    <3>9. Len(g[i]) <= left + (left \div MaxRun) + 1
      <4>1. Len(g[i]) = (e - i) + 1 + 1
        <5> HIDE DEF e
        <5> QED BY <1>3, <3>2, <3>5, <3>7
      <4>2. Len(g[i]) = left + 1
        <5> HIDE DEF e
        <5> QED BY <1>1, <2>5, <4>1
      <4> HIDE DEF left
      <4> QED BY <1>1, <1>6, <4>2
    <3> QED BY <3>8, <3>9 DEF GoodBlocks
  <2>6. CASE e # n
    <3> DEFINE X == g[e + 1]
    <3>1. e + 1 \in i + 1 .. n + 1 /\ e + 1 \in 1 .. n + 1 /\ (e + 1) - 1 = e
        BY <1>1, <1>2, <2>1, <2>6
    <3>2. SafeFrom(data, e + 1)
      <4> HIDE DEF e
      <4> QED BY <1>10, <3>1 DEF Survivable
    <3>3. GoodBlocks(X, data, e + 1)
      <4> HIDE DEF e
      <4> QED BY <3>1, <3>2
    <3>4. /\ X \in Seq(Byte) /\ ZeroFree(X) /\ X # <<>> /\ Uncobs(X) = {q}
          /\ Len(X) <= ((n + 1) - (e + 1)) + (((n + 1) - (e + 1)) \div MaxRun) + 1 /\ Len(X) \in Nat
      <4> HIDE DEF X, e
      <4>1. X \in Seq(Byte)
          BY <3>3 DEF GoodBlocks, RoundTrip
      <4> QED BY <3>3, <4>1, LenProperties DEF GoodBlocks, RoundTrip
    <3>5. q \in Seq(Byte)
        BY <2>3
    <3> HIDE DEF d, X, q
    <3>6. /\ <<Len(d) + 1>> \o d \in Seq(Byte)
          /\ Len((<<Len(d) + 1>> \o d) \o X) = Len(d) + 1 + Len(X)
          /\ RoundTrip((<<Len(d) + 1>> \o d) \o X,
                       (d \o (IF X # <<>> /\ Len(d) < MaxRun THEN <<0>> ELSE <<>>)) \o q)
        BY <1>3, <3>4, <3>5, BlockThen
    <3>7. (d \o (IF X # <<>> /\ Len(d) < MaxRun THEN <<0>> ELSE <<>>)) \o q = SubSeq(data, i, n)
      <4>1. (IF X # <<>> /\ Len(d) < MaxRun THEN <<0>> ELSE <<>>) = <<0>>
          BY <2>2, <3>4
      <4> QED BY <2>4, <4>1
    <3>8. g[i] = (<<Len(d) + 1>> \o d) \o X
      <4> HIDE DEF e, block
      <4>1. g[i] = block \o X
          BY <1>1, <1>2, <1>4, <1>10, <2>6 DEF X
      <4> QED BY <1>5, <4>1
    <3>9. RoundTrip(g[i], SubSeq(data, i, n))
        BY <3>6, <3>7, <3>8
    <3>10. Len(g[i]) <= left + (left \div MaxRun) + 1
      <4> DEFINE b == (n + 1) - (e + 1)
                 x == b \div MaxRun
                 y == left \div MaxRun
      <4>1. b \in Nat /\ b <= left /\ left = b + (e - i) + 1
        <5> HIDE DEF e
        <5> QED BY <1>1, <1>2, <3>1
      <4>2. x \in Nat /\ y \in Nat /\ x <= y
        <5>1. \A c \in Nat : c \div MaxRun \in Nat
            BY <1>1, Quotients
        <5> HIDE DEF b, left
        <5> QED BY <1>1, <1>6, <4>1, <5>1
      <4>3. Len(g[i]) = (e - i) + 1 + Len(X) /\ Len(X) <= b + x + 1
        <5> HIDE DEF e
        <5> QED BY <1>3, <3>4, <3>6, <3>8
      <4> DEFINE k == e - i
      <4>4. k \in Nat
        <5> HIDE DEF e
        <5> QED BY <1>1, <1>2
      <4>6. left = b + k + 1 /\ Len(g[i]) = k + 1 + Len(X)
          BY <4>1, <4>3
      <4> HIDE DEF b, left, x, y, k
      <4>5. Len(g[i]) <= left + y + 1
          BY <3>4, <4>1, <4>2, <4>3, <4>4, <4>6
      <4> QED BY <4>5 DEF y
    <3> QED BY <3>9, <3>10 DEF GoodBlocks
  <2> QED BY <2>5, <2>6
<1>11. e > n \/ (e <= n /\ data[e] # 0) \/ (e <= n /\ data[e] = 0)
  <2> HIDE DEF e
  <2> QED BY <1>1, <1>2
<1> HIDE DEF e, block, d, left
<1> QED BY <1>8, <1>9, <1>10, <1>11

LEMMA GatewayRoundTrip ==
    ASSUME NEW data \in Seq(Byte), Survivable(data)
    PROVE  /\ RoundTrip(GatewayCobs(data), data)
           /\ Len(GatewayCobs(data)) <= Len(data) + (Len(data) \div MaxRun) + 1
<1> DEFINE n == Len(data)
           m == n + 1
<1>1. n \in Nat /\ m \in Nat /\ 1 \in 1 .. m /\ m - 1 = n
    BY LenProperties
<1>2. PICK g : GatewayFrom(data, g) /\ GatewayCobs(data) = g[1]
    BY GatewayAs
<1> DEFINE S == {i \in 1 .. m : SafeFrom(data, i) => GoodBlocks(g[i], data, i)}
<1>3. ASSUME NEW i \in 1 .. m, \A j \in i + 1 .. m : j \in S PROVE i \in S
  <2>1. \A j \in i + 1 .. m : SafeFrom(data, j) => GoodBlocks(g[j], data, j)
      BY <1>3
  <2>2. SafeFrom(data, i) => GoodBlocks(g[i], data, i)
      BY <1>2, <1>3, <2>1, GoodBlocksAll
  <2> QED BY <1>3, <2>2
<1>4. 1 .. m \subseteq S
  <2> HIDE DEF S, m
  <2> QED BY <1>1, <1>3, Backwards
<1>5. 1 \in S
  <2> HIDE DEF S
  <2> QED BY <1>1, <1>4
<1>6. SafeFrom(data, 1)
    BY <1>1 DEF Survivable
<1>7. GoodBlocks(g[1], data, 1)
    BY <1>5, <1>6
<1>8. SubSeq(data, 1, n) = data
    BY SubSeqFull
<1> QED BY <1>1, <1>2, <1>7, <1>8 DEF GoodBlocks

-----------------------------------------------------------------------------
(* What the gateway's encoder loses.                                       *)

IsBlock(block, d) == block = <<Len(d) + 1>> \o d

\* The block from position i on: its bytes d, and the position e that stops it.
BlockAt(data, g, i, e, d, block) ==
    /\ IsBlock(block, d)
    /\ e \in i .. Len(data) + 1 /\ e - i <= MaxRun /\ e \in Nat
    /\ \A j \in i .. e - 1 : data[j] # 0
    /\ e <= Len(data) /\ data[e] # 0 => e = i + MaxRun
    /\ d \in Seq(Byte) /\ Len(d) = e - i /\ ZeroFree(d) /\ Len(d) <= MaxRun
    /\ g[i] = IF e > Len(data) THEN block
              ELSE IF data[e] # 0 THEN block \o g[e]
              ELSE IF e = Len(data) THEN block \o <<1>>
              ELSE block \o g[e + 1]

LEMMA BlockFound ==
    ASSUME NEW data \in Seq(Byte), NEW g, GatewayFrom(data, g), NEW i \in 1 .. Len(data) + 1
    PROVE  \E e, d, block : BlockAt(data, g, i, e, d, block)
<1> DEFINE e == StopAt(data, i)
           d == SubSeq(data, i, e - 1)
           block == <<Len(d) + 1>> \o d
<1>1. Len(data) \in Nat /\ i \in Nat
    BY LenProperties
<1>2. /\ e \in i .. Len(data) + 1 /\ e - i <= MaxRun
      /\ \A j \in i .. e - 1 : data[j] # 0
      /\ e <= Len(data) /\ data[e] # 0 => e = i + MaxRun
    BY StopFacts, Zenon
<1> HIDE DEF e
<1>3. e \in Nat /\ e - 1 \in i - 1 .. Len(data) /\ (e - 1 - i) + 1 = e - i
  <2>1. e \in i .. Len(data) + 1
      BY <1>2
  <2> QED BY <1>1, <2>1
<1>4. /\ d \in Seq(Byte) /\ Len(d) = e - i
      /\ \A j \in 1 .. e - i : d[j] = data[(i + j) - 1]
  <2> DEFINE f == e - 1
  <2>1. f \in i - 1 .. Len(data) /\ (f - i) + 1 = e - i
      BY <1>3
  <2> HIDE DEF f
  <2>2. /\ SubSeq(data, i, f) \in Seq(Byte) /\ Len(SubSeq(data, i, f)) = (f - i) + 1
        /\ \A j \in 1 .. (f - i) + 1 : SubSeq(data, i, f)[j] = data[(i + j) - 1]
      BY <2>1, Part
  <2> QED BY <2>1, <2>2 DEF f
<1>5. ZeroFree(d)
  <2> HIDE DEF d
  <2>1. \A j \in 1 .. Len(d) : (i + j) - 1 \in i .. e - 1 /\ j \in 1 .. e - i
      BY <1>1, <1>3, <1>4
  <2> QED BY <1>2, <1>4, <2>1 DEF ZeroFree
<1>6. block = <<e - i + 1>> \o d
  <2> HIDE DEF d
  <2> QED BY <1>4
<1>7. g[i] = Blocks(data, g, i)
    BY <1>1 DEF GatewayFrom
<1>8. g[i] = IF e > Len(data) THEN block
             ELSE IF data[e] # 0 THEN block \o g[e]
             ELSE IF e = Len(data) THEN block \o <<1>>
             ELSE block \o g[e + 1]
  <2> HIDE DEF block
  <2> QED BY <1>6, <1>7 DEF Blocks, e, d
<1>9. IsBlock(block, d)
    BY DEF IsBlock
<1> HIDE DEF d, block
<1>10. BlockAt(data, g, i, e, d, block)
    BY <1>2, <1>3, <1>4, <1>5, <1>8, <1>9 DEF BlockAt
<1> QED BY <1>10

\* No zero from i on is one that the encoder loses.
KeptFrom(data, i) ==
    SafeFrom(data, i) /\ \A j \in i + 1 .. Len(data) + 1 : data[j - 1] = 0 => SafeFrom(data, j)

LEMMA KeptEnd ==
    ASSUME NEW data \in Seq(Byte), NEW i \in 1 .. Len(data) + 1, \A j \in i .. Len(data) : data[j] # 0
    PROVE  KeptFrom(data, i)
<1>1. Len(data) \in Nat
    BY LenProperties
<1>2. SafeFrom(data, i)
    BY <1>1 DEF SafeFrom
<1>3. \A j \in i + 1 .. Len(data) + 1 : data[j - 1] # 0
    BY <1>1
<1> QED BY <1>2, <1>3 DEF KeptFrom

LEMMA KeptFull ==
    ASSUME NEW data \in Seq(Byte), NEW i \in 1 .. Len(data) + 1, NEW e \in 1 .. Len(data),
           e = i + MaxRun, data[e] # 0, \A j \in i .. e - 1 : data[j] # 0, KeptFrom(data, e)
    PROVE  KeptFrom(data, i)
<1>1. Len(data) \in Nat /\ i \in Nat /\ e \in Nat /\ MaxRun \in Nat /\ MaxRun >= 1
    BY LenProperties, ByteSizes
<1>2. SafeFrom(data, i)
  <2> SUFFICES ASSUME NEW z \in i .. Len(data), data[z] = 0, z # i, \A j \in i .. z - 1 : data[j] # 0
               PROVE  (z - i) % MaxRun # 0
      BY DEF SafeFrom
  <2>1. z \in e .. Len(data) /\ z # e /\ z - e \in Nat /\ z - i = (z - e) + MaxRun
    <3>1. z \notin i .. e - 1 /\ z # e
        OBVIOUS
    <3> QED BY <1>1, <3>1
  <2>2. \A j \in e .. z - 1 : data[j] # 0
      BY <1>1
  <2>3. (z - e) % MaxRun # 0
      BY <2>1, <2>2 DEF KeptFrom, SafeFrom
  <2>4. ((z - e) + MaxRun) % MaxRun = (z - e) % MaxRun
      BY <1>1, <2>1, Quotients
  <2>5. (z - i) % MaxRun = (z - e) % MaxRun
      BY <2>1, <2>4, Zenon
  <2> QED BY <2>3, <2>5, Zenon
<1>3. ASSUME NEW j \in i + 1 .. Len(data) + 1, data[j - 1] = 0 PROVE SafeFrom(data, j)
  <2>1. j - 1 \notin i .. e - 1 /\ j - 1 # e
      BY <1>3
  <2>2. j \in e + 1 .. Len(data) + 1
      BY <1>1, <1>3, <2>1
  <2> QED BY <1>3, <2>2 DEF KeptFrom
<1> QED BY <1>2, <1>3 DEF KeptFrom

LEMMA SmallRest == ASSUME NEW M \in Nat, NEW x \in 0 .. M - 1 PROVE x % M = x
OBVIOUS

LEMMA KeptZero ==
    ASSUME NEW data \in Seq(Byte), NEW i \in 1 .. Len(data) + 1, NEW e \in i .. Len(data),
           e - i < MaxRun, data[e] = 0, \A j \in i .. e - 1 : data[j] # 0, KeptFrom(data, e + 1)
    PROVE  KeptFrom(data, i)
<1>1. Len(data) \in Nat /\ i \in Nat /\ e \in Nat /\ MaxRun \in Nat /\ MaxRun >= 1
    BY LenProperties, ByteSizes
<1>2. SafeFrom(data, i)
  <2> SUFFICES ASSUME NEW z \in i .. Len(data), data[z] = 0, z # i, \A j \in i .. z - 1 : data[j] # 0
               PROVE  (z - i) % MaxRun # 0
      BY DEF SafeFrom
  <2>1. e \notin i .. z - 1 /\ z \notin i .. e - 1
      OBVIOUS
  <2>2. z = e
      BY <1>1, <2>1
  <2>3. z - i \in 1 .. MaxRun - 1
      BY <1>1, <2>2
  <2> DEFINE x == z - i
  <2>4. x \in 1 .. MaxRun - 1 /\ x \in 0 .. MaxRun - 1 /\ x # 0
      BY <1>1, <2>3
  <2> HIDE DEF x
  <2>5. x % MaxRun = x
      BY <1>1, <2>4, SmallRest
  <2>6. x % MaxRun # 0
      BY <2>4, <2>5
  <2> QED BY <2>6 DEF x
<1>3. ASSUME NEW j \in i + 1 .. Len(data) + 1, data[j - 1] = 0 PROVE SafeFrom(data, j)
  <2>1. j - 1 \notin i .. e - 1
      BY <1>3
  <2>2. j = e + 1 \/ j \in (e + 1) + 1 .. Len(data) + 1
      BY <1>1, <1>3, <2>1
  <2> QED BY <1>3, <2>2 DEF KeptFrom
<1> QED BY <1>2, <1>3 DEF KeptFrom

\* What the bytes from i on are decoded to: shorter than they are, unless none of
\* their zeros is lost.
Shortened(code, data, i) ==
    \E q \in Seq(Byte) :
        /\ RoundTrip(code, q)
        /\ Len(q) <= (Len(data) + 1) - i
        /\ Len(q) = (Len(data) + 1) - i => KeptFrom(data, i)

LEMMA ShortenedBy ==
    ASSUME NEW code, NEW data, NEW i, NEW q \in Seq(Byte), RoundTrip(code, q),
           Len(q) <= (Len(data) + 1) - i, Len(q) = (Len(data) + 1) - i => KeptFrom(data, i)
    PROVE  Shortened(code, data, i)
BY DEF Shortened

LEMMA Alone == RoundTrip(<<1>>, <<>>)
<1> DEFINE X == <<1>>
           z == <<>>
<1>1. X \in Seq(Byte) /\ ZeroFree(X) /\ Len(X) = 1
  <2>1. 1 \in Byte
      BY ByteSizes
  <2> QED BY <2>1, ZeroFreeOne
<1>2. z \in Seq(Byte) /\ Len(z) = 0 /\ Len(z) <= MaxRun /\ Uncobs(z) = {z}
    BY ZeroFreeNone, ByteSizes, UncobsNone
<1>3. <<Len(z) + 1>> = X /\ \A s \in Seq(Byte) : s \o z = s
    BY <1>2, ConcatEmptySeq
<1>4. X # <<>>
    BY <1>1, EmptySeq
<1> HIDE DEF X, z
<1>5. Uncobs(<<Len(z) + 1>> \o z \o z) = {z \o (IF z # <<>> /\ Len(z) < MaxRun THEN <<0>> ELSE <<>>) \o r : r \in Uncobs(z)}
    BY <1>2, UncobsCons
<1>6. <<Len(z) + 1>> \o z \o z = X
    BY <1>1, <1>3
<1>7. (IF z # <<>> /\ Len(z) < MaxRun THEN <<0>> ELSE <<>>) = z
    BY DEF z
<1>8. z \o z \o z = z
    BY <1>2, <1>3
<1>9. Uncobs(X) = {z \o z \o r : r \in Uncobs(z)}
    BY <1>5, <1>6, <1>7
<1>10. Uncobs(X) = {z}
    BY <1>2, <1>8, <1>9
<1> QED BY <1>1, <1>4, <1>10 DEF RoundTrip, X, z

\* What a block of the bytes d stands for, with X after it.
Before(block, d, X, q) ==
    \E p \in Seq(Byte) :
        /\ RoundTrip(block \o X, p)
        /\ Len(p) = IF Len(d) < MaxRun THEN Len(d) + 1 + Len(q) ELSE Len(d) + Len(q)

LEMMA BlockBefore ==
    ASSUME NEW d \in Seq(Byte), ZeroFree(d), Len(d) <= MaxRun, NEW block, IsBlock(block, d),
           NEW X, NEW q \in Seq(Byte), RoundTrip(X, q)
    PROVE  Before(block, d, X, q)
<1> DEFINE z == IF X # <<>> /\ Len(d) < MaxRun THEN <<0>> ELSE <<>>
           p == (d \o z) \o q
<1>1. X \in Seq(Byte) /\ ZeroFree(X) /\ X # <<>> /\ Uncobs(X) = {q}
    BY DEF RoundTrip
<1>2. RoundTrip(block \o X, p)
    BY <1>1, BlockThen DEF IsBlock
<1>3. z \in Seq(Byte) /\ Len(z) = IF Len(d) < MaxRun THEN 1 ELSE 0
  <2>1. <<0>> \in Seq(Byte) /\ Len(<<0>>) = 1 /\ <<>> \in Seq(Byte) /\ Len(<<>>) = 0
      BY ByteSizes, One, ZeroFreeNone
  <2> QED BY <1>1, <2>1
<1>4. Len(d) \in Nat /\ Len(q) \in Nat /\ MaxRun \in Nat
    BY LenProperties, ByteSizes
<1> HIDE DEF z
<1>5. d \o z \in Seq(Byte) /\ Len(d \o z) = Len(d) + Len(z)
    BY <1>3, Cat
<1>6. p \in Seq(Byte) /\ Len(p) = Len(d \o z) + Len(q)
  <2> DEFINE u == d \o z
  <2>1. u \in Seq(Byte)
      BY <1>5
  <2> HIDE DEF u
  <2>2. u \o q \in Seq(Byte) /\ Len(u \o q) = Len(u) + Len(q)
      BY <2>1, Cat
  <2> QED BY <2>2 DEF u
<1> HIDE DEF p
<1>7. Len(p) = IF Len(d) < MaxRun THEN Len(d) + 1 + Len(q) ELSE Len(d) + Len(q)
    BY <1>3, <1>4, <1>5, <1>6
<1> QED BY <1>2, <1>6, <1>7 DEF Before

\* The block ends at the zero in e, and X stands for what follows it.
AfterZero(code, block, data, e) ==
    \E X, q \in Seq(Byte) :
        /\ code = block \o X /\ RoundTrip(X, q) /\ Len(q) <= Len(data) - e
        /\ Len(q) = Len(data) - e => KeptFrom(data, e + 1)

LEMMA AfterZeroBy ==
    ASSUME NEW code, NEW block, NEW data, NEW e, NEW X, NEW q \in Seq(Byte), RoundTrip(X, q),
           code = block \o X, Len(q) <= Len(data) - e, Len(q) = Len(data) - e => KeptFrom(data, e + 1)
    PROVE  AfterZero(code, block, data, e)
<1>1. X \in Seq(Byte)
    BY DEF RoundTrip
<1> QED BY <1>1 DEF AfterZero

LEMMA ShortenedAll ==
    ASSUME NEW data \in Seq(Byte), NEW g, GatewayFrom(data, g), NEW i \in 1 .. Len(data) + 1,
           \A j \in i + 1 .. Len(data) + 1 : Shortened(g[j], data, j)
    PROVE  Shortened(g[i], data, i)
<1>0. PICK e, d, block : BlockAt(data, g, i, e, d, block)
    BY BlockFound
<1>1. /\ e \in i .. Len(data) + 1 /\ e - i <= MaxRun /\ e \in Nat
      /\ \A j \in i .. e - 1 : data[j] # 0
      /\ e <= Len(data) /\ data[e] # 0 => e = i + MaxRun
      /\ d \in Seq(Byte) /\ Len(d) = e - i /\ ZeroFree(d) /\ Len(d) <= MaxRun
      /\ g[i] = IF e > Len(data) THEN block
                ELSE IF data[e] # 0 THEN block \o g[e]
                ELSE IF e = Len(data) THEN block \o <<1>>
                ELSE block \o g[e + 1]
    BY <1>0 DEF BlockAt
<1>7. IsBlock(block, d)
    BY <1>0 DEF BlockAt
<1>8. g[i] = IF e > Len(data) THEN block
             ELSE IF data[e] # 0 THEN block \o g[e]
             ELSE IF e = Len(data) THEN block \o <<1>>
             ELSE block \o g[e + 1]
    BY <1>1
<1>2. Len(data) \in Nat /\ i \in Nat /\ e \in Nat /\ MaxRun \in Nat /\ MaxRun >= 1
    BY <1>1, LenProperties, ByteSizes
<1>3. CASE e > Len(data)
  <2>1. RoundTrip(block, d)
    <3>1. /\ <<Len(d) + 1>> \o d \in Seq(Byte)
          /\ RoundTrip((<<Len(d) + 1>> \o d) \o <<>>,
                       (d \o (IF <<>> # <<>> /\ Len(d) < MaxRun THEN <<0>> ELSE <<>>)) \o <<>>)
        BY <1>1, ZeroFreeNone, UncobsNone, BlockThen
    <3>2. (d \o (IF <<>> # <<>> /\ Len(d) < MaxRun THEN <<0>> ELSE <<>>)) \o <<>> = d
        BY <1>1, ConcatEmptySeq
    <3>3. (<<Len(d) + 1>> \o d) \o <<>> = <<Len(d) + 1>> \o d
        BY <3>1, ConcatEmptySeq
    <3> QED BY <1>7, <3>1, <3>2, <3>3 DEF IsBlock
  <2>2. e = Len(data) + 1
      BY <1>1, <1>2, <1>3
  <2>3. KeptFrom(data, i)
    <3>1. \A j \in i .. Len(data) : data[j] # 0
        BY <1>1, <1>2, <2>2
    <3> QED BY <3>1, KeptEnd
  <2>4. Len(d) <= (Len(data) + 1) - i
      BY <1>1, <1>2, <2>2
  <2>5. g[i] = block
      BY <1>1, <1>3
  <2>6. d \in Seq(Byte)
      BY <1>1
  <2> QED BY <2>1, <2>3, <2>4, <2>5, <2>6, ShortenedBy
<1>4. CASE e <= Len(data) /\ data[e] # 0
  <2>1. e = i + MaxRun /\ e \in 1 .. Len(data) /\ e \in i + 1 .. Len(data) + 1
      BY <1>1, <1>2, <1>4
  <2>2. PICK q \in Seq(Byte) :
           /\ RoundTrip(g[e], q) /\ Len(q) <= (Len(data) + 1) - e
           /\ Len(q) = (Len(data) + 1) - e => KeptFrom(data, e)
      BY <2>1 DEF Shortened
  <2>3. PICK p \in Seq(Byte) :
           /\ RoundTrip(block \o g[e], p)
           /\ Len(p) = IF Len(d) < MaxRun THEN Len(d) + 1 + Len(q) ELSE Len(d) + Len(q)
    <3>1. d \in Seq(Byte) /\ ZeroFree(d) /\ Len(d) <= MaxRun
        BY <1>1
    <3>2. RoundTrip(g[e], q)
        BY <2>2
    <3>3. Before(block, d, g[e], q)
        BY <1>7, <3>1, <3>2, BlockBefore
    <3> QED BY <3>3 DEF Before
  <2>4. Len(q) \in Nat /\ Len(p) = MaxRun + Len(q)
      BY <1>1, <1>2, <2>1, <2>3, LenProperties
  <2>5. Len(p) <= (Len(data) + 1) - i /\ (Len(p) = (Len(data) + 1) - i => Len(q) = (Len(data) + 1) - e)
      BY <1>2, <2>1, <2>2, <2>4
  <2>6. KeptFrom(data, e) => KeptFrom(data, i)
      BY <1>1, <1>4, <2>1, KeptFull
  <2>7. g[i] = block \o g[e]
    <3>1. ~ (e > Len(data))
        BY <1>2, <1>4
    <3> QED BY <1>4, <1>8, <3>1, Zenon
  <2> QED BY <2>2, <2>3, <2>5, <2>6, <2>7, ShortenedBy
<1>5. CASE e <= Len(data) /\ data[e] = 0
  <2>1. e \in i .. Len(data) /\ e + 1 \in i + 1 .. Len(data) + 1 /\ e \in 1 .. Len(data)
      BY <1>1, <1>2, <1>5
  <2>0. AfterZero(g[i], block, data, e)
    <3>1. CASE e = Len(data)
      <4>1. g[i] = block \o <<1>>
        <5>1. ~ (e > Len(data))
            BY <1>2, <1>5
        <5> QED BY <1>5, <1>8, <3>1, <5>1, Zenon
      <4>2. KeptFrom(data, e + 1)
        <5>1. \A j \in e + 1 .. Len(data) : data[j] # 0
            BY <1>2, <3>1
        <5>2. e + 1 \in 1 .. Len(data) + 1
            BY <1>2, <2>1
        <5> QED BY <5>1, <5>2, KeptEnd
      <4> DEFINE Y == <<1>>
                 z == <<>>
      <4>3. z \in Seq(Byte) /\ Len(z) <= Len(data) - e
          BY <1>2, <3>1, ZeroFreeNone
      <4>4. g[i] = block \o Y /\ RoundTrip(Y, z)
          BY <4>1, Alone
      <4> HIDE DEF Y, z
      <4> QED BY <4>2, <4>3, <4>4, AfterZeroBy
    <3>2. CASE e # Len(data)
      <4>1. g[i] = block \o g[e + 1]
        <5>1. ~ (e > Len(data))
            BY <1>2, <1>5
        <5> QED BY <1>5, <1>8, <3>2, <5>1, Zenon
      <4>2. PICK q \in Seq(Byte) :
               /\ RoundTrip(g[e + 1], q) /\ Len(q) <= (Len(data) + 1) - (e + 1)
               /\ Len(q) = (Len(data) + 1) - (e + 1) => KeptFrom(data, e + 1)
          BY <2>1 DEF Shortened
      <4>3. (Len(data) + 1) - (e + 1) = Len(data) - e
          BY <1>2
      <4>4. Len(q) <= Len(data) - e /\ (Len(q) = Len(data) - e => KeptFrom(data, e + 1))
          BY <4>2, <4>3
      <4>5. RoundTrip(g[e + 1], q)
          BY <4>2
      <4> QED BY <4>1, <4>4, <4>5, AfterZeroBy
    <3> QED BY <3>1, <3>2
  <2>2. PICK X, q \in Seq(Byte) :
           /\ g[i] = block \o X /\ RoundTrip(X, q) /\ Len(q) <= Len(data) - e
           /\ Len(q) = Len(data) - e => KeptFrom(data, e + 1)
      BY <2>0 DEF AfterZero
  <2>3. PICK p \in Seq(Byte) :
           /\ RoundTrip(block \o X, p)
           /\ Len(p) = IF Len(d) < MaxRun THEN Len(d) + 1 + Len(q) ELSE Len(d) + Len(q)
    <3>1. d \in Seq(Byte) /\ ZeroFree(d) /\ Len(d) <= MaxRun
        BY <1>1
    <3>2. RoundTrip(X, q)
        BY <2>2
    <3>3. Before(block, d, X, q)
        BY <1>7, <3>1, <3>2, BlockBefore
    <3> QED BY <3>3 DEF Before
  <2>4. Len(q) \in Nat /\ Len(p) \in Nat /\ Len(d) \in Nat /\ Len(d) = e - i
      BY <1>1, LenProperties
  <2>5. Len(p) <= (Len(data) + 1) - i
      BY <1>2, <2>1, <2>2, <2>3, <2>4
  <2>6. ASSUME Len(p) = (Len(data) + 1) - i PROVE KeptFrom(data, i)
    <3>1. e - i < MaxRun /\ Len(q) = Len(data) - e
        BY <1>2, <2>1, <2>2, <2>3, <2>4, <2>6
    <3>2. KeptFrom(data, e + 1)
        BY <2>2, <3>1
    <3> QED BY <1>1, <1>5, <2>1, <3>1, <3>2, KeptZero
  <2> QED BY <2>2, <2>3, <2>5, <2>6, ShortenedBy
<1>6. e > Len(data) \/ (e <= Len(data) /\ data[e] # 0) \/ (e <= Len(data) /\ data[e] = 0)
    BY <1>2
<1> QED BY <1>3, <1>4, <1>5, <1>6

\* The COBS encoder of the gateway carries exactly the bodies in which no zero
\* follows a run of other bytes whose length is a multiple of a full block: of any
\* other it loses a zero, and the board cannot decode the frame.
THEOREM GatewayCarries ==
    \A body \in Seq(Byte) : Uncobs(GatewayCobs(body)) = {body} <=> Survivable(body)
<1> SUFFICES ASSUME NEW body \in Seq(Byte)
             PROVE  Uncobs(GatewayCobs(body)) = {body} <=> Survivable(body)
    OBVIOUS
<1>1. Survivable(body) => Uncobs(GatewayCobs(body)) = {body}
    BY GatewayRoundTrip DEF RoundTrip
<1>2. ASSUME Uncobs(GatewayCobs(body)) = {body} PROVE Survivable(body)
  <2> DEFINE m == Len(body) + 1
  <2>1. Len(body) \in Nat /\ m \in Nat /\ 1 \in 1 .. m
      BY LenProperties
  <2>2. PICK g : GatewayFrom(body, g) /\ GatewayCobs(body) = g[1]
      BY GatewayAs
  <2> DEFINE S == {i \in 1 .. m : Shortened(g[i], body, i)}
  <2>3. ASSUME NEW i \in 1 .. m, \A j \in i + 1 .. m : j \in S PROVE i \in S
    <3>1. \A j \in i + 1 .. m : Shortened(g[j], body, j)
        BY <2>3
    <3>2. Shortened(g[i], body, i)
        BY <2>2, <2>3, <3>1, ShortenedAll
    <3> QED BY <2>3, <3>2
  <2>4. 1 .. m \subseteq S
    <3> HIDE DEF S, m
    <3> QED BY <2>1, <2>3, Backwards
  <2>5. Shortened(g[1], body, 1)
      BY <2>1, <2>4
  <2>6. PICK q \in Seq(Byte) : RoundTrip(g[1], q) /\ (Len(q) = (Len(body) + 1) - 1 => KeptFrom(body, 1))
      BY <2>5 DEF Shortened
  <2>7. q = body
      BY <1>2, <2>2, <2>6 DEF RoundTrip
  <2>8. KeptFrom(body, 1)
      BY <2>1, <2>6, <2>7
  <2>9. ASSUME NEW i \in 1 .. m, i = 1 \/ body[i - 1] = 0 PROVE SafeFrom(body, i)
    <3>1. i = 1 \/ i \in 1 + 1 .. Len(body) + 1
        BY <2>1, <2>9
    <3> QED BY <2>8, <2>9, <3>1 DEF KeptFrom
  <2> QED BY <2>9 DEF Survivable
<1> QED BY <1>1, <1>2

\* The COBS encoder of the board carries every body.
THEOREM BoardCarries ==
    \A body \in Seq(Byte) : Uncobs(BoardCobs(body)) = {body}
BY BoardRoundTrip DEF RoundTrip

-----------------------------------------------------------------------------
(* Bytes with their frames, and events.                                    *)

OnLine == [byte : Byte, frame : Nat]
Event == [kind : {"frame", "raw"}, body : Seq(Byte), bytes : Seq(OnLine)]

LEMMA TagsFacts ==
    ASSUME NEW b \in Seq(Byte), NEW k \in Nat
    PROVE  /\ Tagged(b, k) \in Seq(OnLine) /\ Len(Tagged(b, k)) = Len(b)
           /\ \A i \in 1 .. Len(b) : Tagged(b, k)[i] = [byte |-> b[i], frame |-> k]
           /\ Values(Tagged(b, k)) = b
           /\ FramesOf(Tagged(b, k)) \subseteq {k}
           /\ b # <<>> => FramesOf(Tagged(b, k)) = {k}
<1> DEFINE n == Len(b)
           t == [i \in 1 .. n |-> [byte |-> b[i], frame |-> k]]
<1>1. n \in Nat /\ DOMAIN b = 1 .. n /\ \A i \in 1 .. n : b[i] \in Byte
    BY LenProperties, ElementOfSeq
<1>2. Tagged(b, k) = t
    BY <1>1 DEF Tagged
<1>3. \A i \in 1 .. n : [byte |-> b[i], frame |-> k] \in OnLine
    BY <1>1 DEF OnLine
<1>4. t \in Seq(OnLine) /\ Len(t) = n /\ DOMAIN t = 1 .. n
  <2>1. t \in [1 .. n -> OnLine]
      BY <1>3
  <2>2. t \in Seq(OnLine)
    <3> HIDE DEF t
    <3> QED BY <1>1, <2>1, SeqDef
  <2> QED BY <1>1, <2>2
<1>5. Values(t) = b
  <2>1. Values(t) = [i \in 1 .. n |-> b[i]]
      BY <1>4 DEF Values
  <2>2. b = [i \in 1 .. n |-> b[i]]
      BY <1>1, LenProperties
  <2> QED BY <2>1, <2>2
<1>6. FramesOf(t) = {t[i].frame : i \in 1 .. n}
    BY <1>4 DEF FramesOf
<1>7. \A i \in 1 .. n : t[i].frame = k
    OBVIOUS
<1>8. b # <<>> => 1 \in 1 .. n
    BY <1>1, EmptySeq
<1>9. FramesOf(t) \subseteq {k} /\ (b # <<>> => FramesOf(t) = {k})
  <2> HIDE DEF t
  <2> QED BY <1>6, <1>7, <1>8
<1>10. \A i \in 1 .. n : t[i] = [byte |-> b[i], frame |-> k]
    OBVIOUS
<1> HIDE DEF t
<1> QED BY <1>2, <1>4, <1>5, <1>9, <1>10

LEMMA FramesIn ==
    ASSUME NEW s \in Seq(OnLine), NEW k
    PROVE  /\ k \in FramesOf(s) <=> \E i \in 1 .. Len(s) : s[i].frame = k
           /\ FramesOf(s) \subseteq Nat
<1>1. DOMAIN s = 1 .. Len(s) /\ \A i \in 1 .. Len(s) : s[i] \in OnLine
    BY LenProperties, ElementOfSeq
<1> QED BY <1>1 DEF FramesOf, OnLine

LEMMA FramesCat ==
    ASSUME NEW s \in Seq(OnLine), NEW t \in Seq(OnLine)
    PROVE  FramesOf(s \o t) = FramesOf(s) \cup FramesOf(t)
<1>1. /\ s \o t \in Seq(OnLine) /\ Len(s) \in Nat /\ Len(t) \in Nat
      /\ Len(s \o t) = Len(s) + Len(t)
      /\ \A i \in 1 .. Len(s) : (s \o t)[i] = s[i]
      /\ \A i \in 1 .. Len(t) : (s \o t)[Len(s) + i] = t[i]
    BY Cat
<1> DEFINE u == s \o t
<1> HIDE DEF u
<1>2. ASSUME NEW k \in FramesOf(u) PROVE k \in FramesOf(s) \cup FramesOf(t)
  <2>1. PICK i \in 1 .. Len(u) : u[i].frame = k
      BY <1>1, <1>2, FramesIn DEF u
  <2>2. CASE i \in 1 .. Len(s)
    <3>1. u[i] = s[i]
        BY <1>1, <2>2 DEF u
    <3> QED BY <2>1, <2>2, <3>1, FramesIn
  <2>3. CASE i \notin 1 .. Len(s)
    <3>1. i - Len(s) \in 1 .. Len(t) /\ Len(s) + (i - Len(s)) = i
        BY <1>1, <2>1, <2>3 DEF u
    <3>2. u[i] = t[i - Len(s)]
        BY <1>1, <3>1 DEF u
    <3> QED BY <2>1, <3>1, <3>2, FramesIn
  <2> QED BY <2>2, <2>3
<1>3. ASSUME NEW k \in FramesOf(s) PROVE k \in FramesOf(u)
  <2>1. PICK i \in 1 .. Len(s) : s[i].frame = k
      BY <1>3, FramesIn
  <2>2. i \in 1 .. Len(u) /\ u[i] = s[i]
      BY <1>1, <2>1 DEF u
  <2> QED BY <1>1, <2>1, <2>2, FramesIn DEF u
<1>4. ASSUME NEW k \in FramesOf(t) PROVE k \in FramesOf(u)
  <2>1. PICK i \in 1 .. Len(t) : t[i].frame = k
      BY <1>4, FramesIn
  <2>2. Len(s) + i \in 1 .. Len(u) /\ u[Len(s) + i] = t[i]
      BY <1>1, <2>1 DEF u
  <2> QED BY <1>1, <2>1, <2>2, FramesIn DEF u
<1>5. FramesOf(u) = FramesOf(s) \cup FramesOf(t)
    BY <1>2, <1>3, <1>4
<1> QED BY <1>5 DEF u

LEMMA FramesOne == ASSUME NEW t \in OnLine PROVE <<t>> \in Seq(OnLine) /\ FramesOf(<<t>>) = {t.frame}
BY DEF FramesOf

LEMMA FramesNone == <<>> \in Seq(OnLine) /\ FramesOf(<<>>) = {}
<1>1. <<>> \in Seq(OnLine)
    BY EmptySeq
<1> QED BY <1>1 DEF FramesOf

LEMMA LineAssoc == \A s, t, u \in Seq(OnLine) : (s \o t) \o u = s \o (t \o u)
<1> SUFFICES ASSUME NEW s \in Seq(OnLine), NEW t \in Seq(OnLine), NEW u \in Seq(OnLine)
             PROVE  (s \o t) \o u = s \o (t \o u)
    OBVIOUS
<1> QED BY ConcatAssociative

LEMMA Regroup == \A s, t, u \in Seq(OnLine) : Reassoc(s, t, u)
BY LineAssoc DEF Reassoc

LEMMA EventAssoc == \A s, t, u \in Seq(Event) : (s \o t) \o u = s \o (t \o u)
<1> SUFFICES ASSUME NEW s \in Seq(Event), NEW t \in Seq(Event), NEW u \in Seq(Event)
             PROVE  (s \o t) \o u = s \o (t \o u)
    OBVIOUS
<1> QED BY ConcatAssociative

-----------------------------------------------------------------------------
(* What the events show, and what of a stream is visible.                  *)

Flat(o) == FlattenSeq([i \in DOMAIN o |-> o[i].bytes])

\* The bytes of the first events, one after the other.
FlatFrom(o, g) ==
    /\ g \in [0 .. Len(o) -> Seq(OnLine)] /\ g[0] = <<>>
    /\ \A i \in 1 .. Len(o) : g[i] = g[i - 1] \o o[i].bytes

LEMMA EventFacts ==
    ASSUME NEW o \in Seq(Event)
    PROVE  /\ Len(o) \in Nat /\ DOMAIN o = 1 .. Len(o)
           /\ \A i \in 1 .. Len(o) : o[i] \in Event /\ o[i].bytes \in Seq(OnLine) /\ o[i].body \in Seq(Byte)
<1>1. Len(o) \in Nat /\ DOMAIN o = 1 .. Len(o) /\ \A i \in 1 .. Len(o) : o[i] \in Event
    BY LenProperties, ElementOfSeq
<1> QED BY <1>1 DEF Event

LEMMA FlatExists ==
    ASSUME NEW o \in Seq(Event)
    PROVE  \E g : FlatFrom(o, g)
<1> DEFINE n == Len(o)
           D == Seq(OnLine)
           step == [i \in 1 .. n |-> [a \in D |-> a \o o[i].bytes]]
<1>1. n \in Nat /\ <<>> \in D
    BY EventFacts, EmptySeq
<1>2. \A i \in 1 .. n : \A a \in D : a \o o[i].bytes \in D
    BY EventFacts, ConcatProperties
<1>3. step \in Steps(n, D)
    BY <1>2 DEF Steps
<1>4. \A i \in 1 .. n : \A a \in D : step[i][a] = a \o o[i].bytes
    OBVIOUS
<1> HIDE DEF step, D
<1>5. PICK f : Unfolded(f, n, D, <<>>, step)
    BY <1>1, <1>3, Unfold
<1>6. ASSUME NEW i \in 1 .. n PROVE f[i] = f[i - 1] \o o[i].bytes
  <2>1. f[i - 1] \in D
      BY <1>1, <1>5 DEF Unfolded
  <2> QED BY <1>4, <1>5, <2>1 DEF Unfolded
<1>7. FlatFrom(o, f)
    BY <1>5, <1>6 DEF FlatFrom, Unfolded, D
<1> QED BY <1>7

FlattenFrom(seqs, g) ==
    g = [i \in 1 .. Len(seqs) |-> IF i = 1 THEN seqs[i] ELSE g[i - 1] \o seqs[i]]

LEMMA FlatAs ==
    ASSUME NEW o \in Seq(Event), NEW f, FlatFrom(o, f)
    PROVE  Flat(o) = f[Len(o)] /\ Flat(o) \in Seq(OnLine)
<1> DEFINE n == Len(o)
           seqs == [i \in DOMAIN o |-> o[i].bytes]
<1>1. n \in Nat /\ seqs = [i \in 1 .. n |-> o[i].bytes] /\ \A i \in 1 .. n : o[i].bytes \in Seq(OnLine)
    BY EventFacts
<1>2. Len(seqs) = n /\ \A i \in 1 .. n : seqs[i] = o[i].bytes
  <2>1. \A m \in Nat : \A F : Len([i \in 1 .. m |-> o[i].bytes]) = m
      OBVIOUS
  <2> QED BY <1>1, <2>1
<1>3. f \in [0 .. n -> Seq(OnLine)] /\ f[0] = <<>> /\ \A i \in 1 .. n : f[i] = f[i - 1] \o o[i].bytes
    BY DEF FlatFrom
<1>4. f[n] \in Seq(OnLine)
  <2>1. n \in 0 .. n
      BY <1>1
  <2> QED BY <1>3, <2>1
<1>5. CASE n = 0
  <2>1. seqs = <<>>
    <3>1. seqs = [i \in 1 .. 0 |-> o[i].bytes]
        BY <1>1, <1>5
    <3> QED BY <3>1
  <2>2. Flat(o) = seqs
    <3> HIDE DEF seqs
    <3>1. Flat(o) = FlattenSeq(seqs)
        BY DEF Flat, seqs
    <3> QED BY <1>2, <1>5, <3>1 DEF FlattenSeq
  <2> QED BY <1>3, <1>4, <1>5, <2>1, <2>2
<1>6. CASE n # 0
  <2> DEFINE h == [i \in 1 .. n |-> f[i]]
             g == CHOOSE e : FlattenFrom(seqs, e)
  <2>1. FlattenFrom(seqs, h)
    <3>1. ASSUME NEW i \in 1 .. n PROVE h[i] = IF i = 1 THEN seqs[i] ELSE h[i - 1] \o seqs[i]
      <4>1. f[i] = f[i - 1] \o o[i].bytes /\ h[i] = f[i]
          BY <1>3
      <4>2. CASE i = 1
        <5>1. <<>> \o o[1].bytes = o[1].bytes
            BY <1>1, <4>2, ConcatEmptySeq
        <5>2. f[1] = f[0] \o o[1].bytes /\ h[1] = f[1] /\ seqs[1] = o[1].bytes
          <6> HIDE DEF h, seqs
          <6>1. i - 1 = 0 /\ 1 \in 1 .. n
              BY <1>1, <3>1, <4>2
          <6>2. f[1] = f[0] \o o[1].bytes
              BY <4>1, <4>2, <6>1
          <6>3. h[1] = f[1]
              BY <4>1, <4>2
          <6> QED BY <1>2, <6>1, <6>2, <6>3
        <5> HIDE DEF h, seqs
        <5>3. h[1] = seqs[1]
            BY <1>3, <5>1, <5>2
        <5> QED BY <4>2, <5>3
      <4>3. CASE i # 1
        <5>1. i - 1 \in 1 .. n
            BY <1>1, <4>3
        <5>2. h[i - 1] = f[i - 1]
            BY <5>1
        <5> QED BY <1>2, <4>1, <4>3, <5>2
      <4> QED BY <4>2, <4>3
    <3>2. h = [i \in 1 .. n |-> h[i]]
        OBVIOUS
    <3> HIDE DEF h, seqs
    <3>3. h = [i \in 1 .. n |-> IF i = 1 THEN seqs[i] ELSE h[i - 1] \o seqs[i]]
        BY <3>1, <3>2
    <3> QED BY <1>2, <3>3 DEF FlattenFrom
  <2>2. FlattenFrom(seqs, g)
    <3> HIDE DEF h, seqs
    <3> QED BY <2>1
  <2>3. Flat(o) = g[n]
    <3> HIDE DEF seqs
    <3>1. Flat(o) = FlattenSeq(seqs)
        BY DEF Flat, seqs
    <3>2. FlattenSeq(seqs) = g[Len(seqs)]
        BY <1>2, <1>6 DEF FlattenSeq, FlattenFrom
    <3> QED BY <1>2, <3>1, <3>2
  <2> HIDE DEF g
  <2> DEFINE Q(i) == i = 0 \/ g[i] = f[i]
             S == {i \in 0 .. n : Q(i)}
  <2>4. ASSUME NEW i \in 1 .. n, i - 1 \in S PROVE i \in S
    <3>1. g[i] = IF i = 1 THEN seqs[i] ELSE g[i - 1] \o seqs[i]
      <4> HIDE DEF seqs
      <4> QED BY <1>2, <2>2, <2>4 DEF FlattenFrom
    <3>2. f[i] = f[i - 1] \o o[i].bytes /\ seqs[i] = o[i].bytes
        BY <1>2, <1>3, <2>4
    <3>3. CASE i = 1
      <4>1. <<>> \o o[1].bytes = o[1].bytes
          BY <1>1, <2>4, <3>3, ConcatEmptySeq
      <4>2. g[i] = f[i]
        <5> HIDE DEF seqs
        <5>1. i - 1 = 0
            BY <2>4, <3>3
        <5>2. f[1] = o[1].bytes
            BY <1>3, <3>2, <3>3, <4>1, <5>1
        <5>3. g[1] = seqs[1] /\ seqs[1] = o[1].bytes
            BY <3>1, <3>2, <3>3
        <5> QED BY <3>3, <5>2, <5>3
      <4> QED BY <2>4, <4>2
    <3>4. CASE i # 1
      <4>1. g[i - 1] = f[i - 1]
          BY <2>4, <3>4
      <4>2. g[i] = f[i]
        <5> HIDE DEF seqs
        <5> QED BY <3>1, <3>2, <3>4, <4>1
      <4> QED BY <2>4, <4>2
    <3> QED BY <3>3, <3>4
  <2>5. 0 \in S
      BY <1>1
  <2>6. 0 .. n \subseteq S
    <3> HIDE DEF S, n
    <3> QED BY <1>1, <2>4, <2>5, Induct
  <2>7. Q(n)
    <3>1. n \in 0 .. n
        BY <1>1
    <3> HIDE DEF n, Q
    <3> QED BY <2>6, <3>1
  <2> QED BY <1>4, <1>6, <2>3, <2>7
<1> QED BY <1>5, <1>6

LEMMA FlatType == ASSUME NEW o \in Seq(Event) PROVE Flat(o) \in Seq(OnLine)
<1>1. PICK f : FlatFrom(o, f)
    BY FlatExists
<1> QED BY <1>1, FlatAs

LEMMA FlatNone == <<>> \in Seq(Event) /\ Flat(<<>>) = <<>>
<1>1. <<>> \in Seq(Event) /\ Len(<<>>) = 0
    BY EmptySeq
<1>2. PICK f : FlatFrom(<<>>, f)
    BY <1>1, FlatExists
<1>3. Flat(<<>>) = f[Len(<<>>)]
    BY <1>1, <1>2, FlatAs
<1> QED BY <1>1, <1>2, <1>3 DEF FlatFrom

LEMMA FlatAppend ==
    ASSUME NEW o \in Seq(Event), NEW e \in Event
    PROVE  Flat(o \o <<e>>) = Flat(o) \o e.bytes /\ o \o <<e>> \in Seq(Event)
<1> DEFINE u == o \o <<e>>
           n == Len(o)
<1>1. <<e>> \in Seq(Event) /\ Len(<<e>>) = 1 /\ <<e>>[1] = e
    BY One
<1>2. /\ u \in Seq(Event) /\ n \in Nat /\ Len(u) = n + 1
      /\ \A i \in 1 .. n : u[i] = o[i]
      /\ u[n + 1] = e
  <2>1. /\ u \in Seq(Event) /\ Len(u) = Len(o) + Len(<<e>>) /\ Len(o) \in Nat
        /\ \A i \in 1 .. Len(o) : u[i] = o[i]
        /\ \A i \in 1 .. Len(<<e>>) : u[Len(o) + i] = <<e>>[i]
      BY <1>1, Cat
  <2> HIDE DEF u
  <2> QED BY <1>1, <2>1
<1> HIDE DEF u
<1>3. PICK f : FlatFrom(u, f)
    BY <1>2, FlatExists
<1>4. Flat(u) = f[n + 1]
    BY <1>2, <1>3, FlatAs
<1>5. f[n + 1] = f[n] \o e.bytes
  <2>1. n + 1 \in 1 .. Len(u) /\ (n + 1) - 1 = n
      BY <1>2
  <2> QED BY <1>2, <1>3, <2>1 DEF FlatFrom
<1> DEFINE h == [i \in 0 .. n |-> f[i]]
<1>6. FlatFrom(o, h)
  <2>1. \A i \in 0 .. n : i \in 0 .. Len(u) /\ h[i] = f[i]
      BY <1>2
  <2>2. h \in [0 .. n -> Seq(OnLine)] /\ h[0] = <<>>
      BY <1>2, <1>3, <2>1 DEF FlatFrom
  <2>3. ASSUME NEW i \in 1 .. n PROVE h[i] = h[i - 1] \o o[i].bytes
    <3>1. i \in 1 .. Len(u) /\ i \in 0 .. n /\ i - 1 \in 0 .. n /\ u[i] = o[i]
        BY <1>2
    <3>2. f[i] = f[i - 1] \o u[i].bytes
        BY <1>3, <3>1 DEF FlatFrom
    <3> HIDE DEF h
    <3> QED BY <2>1, <3>1, <3>2
  <2> HIDE DEF h
  <2> QED BY <2>2, <2>3 DEF FlatFrom
<1>7. Flat(o) = h[n]
  <2> HIDE DEF h
  <2> QED BY <1>6, FlatAs
<1>8. h[n] = f[n]
    BY <1>2
<1> HIDE DEF h
<1>9. Flat(u) = Flat(o) \o e.bytes
    BY <1>4, <1>5, <1>7, <1>8
<1> QED BY <1>2, <1>9 DEF u

\* A byte as the application sees it: a delimiter is not seen.
Seen(d, t) == IF d # "tcp" /\ t.byte = 0 THEN <<>> ELSE <<t>>

ShowsAlong(d, s, g) ==
    g[0] = <<>> /\ \A i \in 1 .. Len(s) : g[i] = g[i - 1] \o Seen(d, s[i])

ShownFrom(d, s, g) == g \in [0 .. Len(s) -> Seq(OnLine)] /\ ShowsAlong(d, s, g)

Shown(d, s) == (CHOOSE g : ShownFrom(d, s, g))[Len(s)]

LEMMA SeenType == ASSUME NEW d, NEW t \in OnLine PROVE Seen(d, t) \in Seq(OnLine)
BY One, EmptySeq DEF Seen

LEMMA LineFacts ==
    ASSUME NEW s \in Seq(OnLine)
    PROVE  /\ Len(s) \in Nat /\ DOMAIN s = 1 .. Len(s)
           /\ \A i \in 1 .. Len(s) : s[i] \in OnLine /\ s[i].byte \in Byte /\ s[i].frame \in Nat
<1>1. Len(s) \in Nat /\ DOMAIN s = 1 .. Len(s) /\ \A i \in 1 .. Len(s) : s[i] \in OnLine
    BY LenProperties, ElementOfSeq
<1> QED BY <1>1 DEF OnLine

LEMMA ShownExists ==
    ASSUME NEW d, NEW s \in Seq(OnLine)
    PROVE  \E g : ShownFrom(d, s, g)
<1> DEFINE n == Len(s)
           D == Seq(OnLine)
           step == [i \in 1 .. n |-> [a \in D |-> a \o Seen(d, s[i])]]
<1>1. n \in Nat /\ <<>> \in D
    BY LineFacts, EmptySeq
<1>2. \A i \in 1 .. n : \A a \in D : a \o Seen(d, s[i]) \in D
    BY LineFacts, SeenType, ConcatProperties
<1>3. step \in Steps(n, D)
    BY <1>2 DEF Steps
<1>4. \A i \in 1 .. n : \A a \in D : step[i][a] = a \o Seen(d, s[i])
    OBVIOUS
<1> HIDE DEF step, D
<1>5. PICK f : Unfolded(f, n, D, <<>>, step)
    BY <1>1, <1>3, Unfold
<1>6. ASSUME NEW i \in 1 .. n PROVE f[i] = f[i - 1] \o Seen(d, s[i])
  <2>1. f[i - 1] \in D
      BY <1>1, <1>5 DEF Unfolded
  <2> QED BY <1>4, <1>5, <2>1 DEF Unfolded
<1>7. ShownFrom(d, s, f)
    BY <1>5, <1>6 DEF ShownFrom, ShowsAlong, Unfolded, D
<1> QED BY <1>7

\* The same for the first bytes of a longer sequence.
LEMMA ShownSame ==
    ASSUME NEW d, NEW s \in Seq(OnLine), NEW f, NEW g,
           ShownFrom(d, s, f), ShowsAlong(d, s, g)
    PROVE  f[Len(s)] = g[Len(s)]
<1> DEFINE n == Len(s)
           Q(i) == f[i] = g[i]
           S == {i \in 0 .. n : Q(i)}
<1>1. n \in Nat
    BY LineFacts
<1>2. 0 \in S
    BY <1>1 DEF ShownFrom, ShowsAlong
<1>3. ASSUME NEW i \in 1 .. n, i - 1 \in S PROVE i \in S
  <2>1. f[i - 1] = g[i - 1]
      BY <1>3
  <2>2. f[i] = f[i - 1] \o Seen(d, s[i]) /\ g[i] = g[i - 1] \o Seen(d, s[i])
      BY <1>3 DEF ShownFrom, ShowsAlong
  <2>3. Q(i)
      BY <2>1, <2>2
  <2> HIDE DEF Q
  <2> QED BY <1>3, <2>3
<1>4. 0 .. n \subseteq S
  <2> HIDE DEF S, n
  <2> QED BY <1>1, <1>2, <1>3, Induct
<1>5. n \in 0 .. n
    BY <1>1
<1>6. Q(n)
  <2> HIDE DEF n, Q
  <2> QED BY <1>4, <1>5
<1> QED BY <1>6

LEMMA ShownIs ==
    ASSUME NEW d, NEW s \in Seq(OnLine), NEW g, ShowsAlong(d, s, g)
    PROVE  Shown(d, s) = g[Len(s)] /\ Shown(d, s) \in Seq(OnLine)
<1> DEFINE f == CHOOSE h : ShownFrom(d, s, h)
<1>1. ShownFrom(d, s, f)
    BY ShownExists
<1>2. Shown(d, s) = f[Len(s)]
    BY DEF Shown
<1> HIDE DEF f
<1>3. f[Len(s)] = g[Len(s)]
    BY <1>1, ShownSame
<1>4. f[Len(s)] \in Seq(OnLine)
  <2>1. Len(s) \in 0 .. Len(s)
      BY LineFacts
  <2> QED BY <1>1, <2>1 DEF ShownFrom
<1> QED BY <1>2, <1>3, <1>4

LEMMA ShownNone == \A d : Shown(d, <<>>) = <<>>
<1> SUFFICES ASSUME NEW d PROVE Shown(d, <<>>) = <<>>
    OBVIOUS
<1> DEFINE e == <<>>
<1>1. e \in Seq(OnLine) /\ Len(e) = 0
    BY EmptySeq
<1> HIDE DEF e
<1>2. PICK f : ShownFrom(d, e, f)
    BY <1>1, ShownExists
<1>3. Shown(d, e) = f[0]
    BY <1>1, <1>2, ShownIs DEF ShownFrom
<1> QED BY <1>2, <1>3 DEF ShownFrom, ShowsAlong, e

LEMMA ShownAppend ==
    ASSUME NEW d, NEW s \in Seq(OnLine), NEW t \in OnLine
    PROVE  Shown(d, s \o <<t>>) = Shown(d, s) \o Seen(d, t)
<1> DEFINE u == s \o <<t>>
           n == Len(s)
<1>1. <<t>> \in Seq(OnLine) /\ Len(<<t>>) = 1 /\ <<t>>[1] = t
    BY One
<1>2. /\ u \in Seq(OnLine) /\ n \in Nat /\ Len(u) = n + 1
      /\ \A i \in 1 .. n : u[i] = s[i]
      /\ u[n + 1] = t
  <2>1. /\ u \in Seq(OnLine) /\ Len(u) = Len(s) + Len(<<t>>) /\ Len(s) \in Nat
        /\ \A i \in 1 .. Len(s) : u[i] = s[i]
        /\ \A i \in 1 .. Len(<<t>>) : u[Len(s) + i] = <<t>>[i]
      BY <1>1, Cat
  <2> HIDE DEF u
  <2> QED BY <1>1, <2>1
<1> HIDE DEF u
<1>3. PICK f : ShownFrom(d, u, f)
    BY <1>2, ShownExists
<1>4. f[0] = <<>> /\ \A i \in 1 .. n + 1 : f[i] = f[i - 1] \o Seen(d, u[i])
    BY <1>2, <1>3 DEF ShownFrom, ShowsAlong
<1>5. Shown(d, u) = f[n + 1]
    BY <1>2, <1>3, ShownIs DEF ShownFrom
<1>6. \A i \in 1 .. n : f[i] = f[i - 1] \o Seen(d, s[i])
  <2>1. \A i \in 1 .. n : i \in 1 .. n + 1 /\ u[i] = s[i]
      BY <1>2
  <2> QED BY <1>4, <2>1
<1>7. Shown(d, s) = f[n]
  <2>1. ShowsAlong(d, s, f)
      BY <1>4, <1>6 DEF ShowsAlong
  <2> QED BY <2>1, ShownIs
<1>8. f[n + 1] = f[n] \o Seen(d, t)
  <2>1. n + 1 \in 1 .. n + 1 /\ (n + 1) - 1 = n
      BY <1>2
  <2> QED BY <1>2, <1>4, <2>1
<1> QED BY <1>5, <1>7, <1>8 DEF u

LEMMA ShownType == ASSUME NEW d, NEW s \in Seq(OnLine) PROVE Shown(d, s) \in Seq(OnLine)
<1>1. PICK f : ShownFrom(d, s, f)
    BY ShownExists
<1> QED BY <1>1, ShownIs DEF ShownFrom

LEMMA ShownCat ==
    ASSUME NEW d, NEW s \in Seq(OnLine), NEW t \in Seq(OnLine)
    PROVE  Shown(d, s \o t) = Shown(d, s) \o Shown(d, t)
<1> DEFINE n == Len(t)
           p(i) == SubSeq(t, 1, i)
           Q(i) == Shown(d, s \o p(i)) = Shown(d, s) \o Shown(d, p(i))
           S == {i \in 0 .. n : Q(i)}
<1>1. n \in Nat
    BY LineFacts
<1>2. Q(0)
  <2>1. p(0) = <<>>
      BY SubSeqEmpty
  <2>2. s \o <<>> = s /\ Shown(d, s) \o <<>> = Shown(d, s)
      BY ConcatEmptySeq, ShownType
  <2> HIDE DEF p
  <2> QED BY <2>1, <2>2, ShownNone
<1>3. ASSUME NEW i \in 1 .. n, i - 1 \in S PROVE i \in S
  <2>1. i \in 1 .. Len(t) /\ 1 \in 1 .. Len(t) /\ i - 1 \in 0 .. Len(t)
      BY <1>1, <1>3
  <2>2. p(i) = p(i - 1) \o <<t[i]>>
      BY <2>1, SubSeqRecursiveSecond
  <2>3. p(i - 1) \in Seq(OnLine)
      BY <2>1, Part
  <2>4. t[i] \in OnLine
      BY <2>1, LineFacts
  <2>5. Q(i - 1)
      BY <1>3
  <2> DEFINE v == p(i - 1)
             x == t[i]
  <2>6. v \in Seq(OnLine) /\ x \in OnLine /\ p(i) = v \o <<x>> /\ Shown(d, s \o v) = Shown(d, s) \o Shown(d, v)
      BY <2>2, <2>3, <2>4, <2>5
  <2> HIDE DEF v, x, p
  <2>7. <<x>> \in Seq(OnLine) /\ s \o v \in Seq(OnLine)
      BY <2>6, One, ConcatProperties
  <2>8. s \o (v \o <<x>>) = (s \o v) \o <<x>>
      BY <2>6, <2>7, LineAssoc
  <2>9. Shown(d, (s \o v) \o <<x>>) = Shown(d, s \o v) \o Seen(d, x)
      BY <2>6, <2>7, ShownAppend
  <2>10. Shown(d, v \o <<x>>) = Shown(d, v) \o Seen(d, x)
      BY <2>6, ShownAppend
  <2>11. (Shown(d, s) \o Shown(d, v)) \o Seen(d, x) = Shown(d, s) \o (Shown(d, v) \o Seen(d, x))
    <3>1. Shown(d, s) \in Seq(OnLine) /\ Shown(d, v) \in Seq(OnLine) /\ Seen(d, x) \in Seq(OnLine)
        BY <2>6, ShownType, SeenType
    <3>2. Reassoc(Shown(d, s), Shown(d, v), Seen(d, x))
        BY <3>1, Regroup
    <3> QED BY <3>2 DEF Reassoc
  <2>12. Q(i)
      BY <2>6, <2>8, <2>9, <2>10, <2>11
  <2> HIDE DEF Q
  <2> QED BY <1>1, <1>3, <2>12
<1>4. 0 .. n \subseteq S
  <2>1. 0 \in S
    <3> HIDE DEF Q
    <3> QED BY <1>1, <1>2
  <2> HIDE DEF S, n
  <2> QED BY <1>1, <1>3, <2>1, Induct
<1>5. n \in 0 .. n
    BY <1>1
<1>6. Q(n)
  <2> HIDE DEF n, Q
  <2> QED BY <1>4, <1>5
<1>7. p(n) = t
    BY SubSeqFull
<1> HIDE DEF p, n
<1> QED BY <1>6, <1>7

\* No delimiter among the bytes.
Whole(d, s) == d # "tcp" => \A i \in 1 .. Len(s) : s[i].byte # 0

LEMMA ShownWhole ==
    ASSUME NEW d, NEW s \in Seq(OnLine), Whole(d, s)
    PROVE  Shown(d, s) = s
<1> DEFINE n == Len(s)
           g == [i \in 0 .. n |-> SubSeq(s, 1, i)]
<1>1. n \in Nat
    BY LineFacts
<1>2. \A i \in 0 .. n : g[i] = SubSeq(s, 1, i)
    OBVIOUS
<1>3. g[0] = <<>>
    BY <1>1, <1>2, SubSeqEmpty
<1>4. ASSUME NEW i \in 1 .. n PROVE g[i] = g[i - 1] \o Seen(d, s[i])
  <2>1. i \in 1 .. Len(s) /\ 1 \in 1 .. Len(s) /\ i - 1 \in 0 .. n /\ i \in 0 .. n
      BY <1>1
  <2>2. SubSeq(s, 1, i) = SubSeq(s, 1, i - 1) \o <<s[i]>>
      BY <2>1, SubSeqRecursiveSecond
  <2>3. Seen(d, s[i]) = <<s[i]>>
      BY <2>1 DEF Whole, Seen
  <2> HIDE DEF g
  <2> QED BY <1>2, <2>1, <2>2, <2>3
<1>5. g[n] = s
  <2>1. SubSeq(s, 1, n) = s
      BY SubSeqFull
  <2> QED BY <1>1, <2>1
<1>6. Shown(d, s) = g[n]
  <2> HIDE DEF g
  <2>1. ShowsAlong(d, s, g)
      BY <1>3, <1>4 DEF ShowsAlong
  <2> QED BY <2>1, ShownIs
<1> QED BY <1>5, <1>6

LEMMA VisibleIs ==
    ASSUME NEW s \in Seq(OnLine)
    PROVE  Visible(s) = Shown(dir, s)
<1> DEFINE n == Len(s)
           Rule(g) == g = [i \in 0 .. n |->
                              IF i = 0 THEN <<>>
                              ELSE IF dir # "tcp" /\ s[i].byte = 0 THEN g[i - 1]
                              ELSE Append(g[i - 1], s[i])]
           g == CHOOSE h : Rule(h)
<1>1. n \in Nat
    BY LineFacts
<1>2. PICK f : ShownFrom(dir, s, f)
    BY ShownExists
<1>3. ASSUME NEW i \in 0 .. n
      PROVE  f[i] = IF i = 0 THEN <<>>
                    ELSE IF dir # "tcp" /\ s[i].byte = 0 THEN f[i - 1]
                    ELSE Append(f[i - 1], s[i])
  <2>1. CASE i = 0
      BY <1>2, <2>1 DEF ShownFrom, ShowsAlong
  <2>2. CASE i # 0
    <3>1. i \in 1 .. n /\ i - 1 \in 0 .. n
        BY <1>1, <2>2
    <3>2. f[i] = f[i - 1] \o Seen(dir, s[i]) /\ f[i - 1] \in Seq(OnLine) /\ s[i] \in OnLine
        BY <1>2, <3>1, LineFacts DEF ShownFrom, ShowsAlong
    <3>3. f[i - 1] \o <<>> = f[i - 1] /\ Append(f[i - 1], s[i]) = f[i - 1] \o <<s[i]>>
        BY <3>2, ConcatEmptySeq, AppendIsConcat
    <3> QED BY <2>2, <3>2, <3>3 DEF Seen
  <2> QED BY <2>1, <2>2
<1>4. Rule(f)
  <2>1. f = [i \in 0 .. n |-> f[i]]
      BY <1>2 DEF ShownFrom
  <2> QED BY <1>3, <2>1
<1>5. Rule(g)
  <2> HIDE DEF Rule
  <2> QED BY <1>4
<1>6. Visible(s) = g[n]
    BY DEF Visible
<1> HIDE DEF g
<1> DEFINE Q(i) == g[i] = f[i]
           S == {i \in 0 .. n : Q(i)}
<1>7. ASSUME NEW i \in 0 .. n
      PROVE  g[i] = IF i = 0 THEN <<>>
                    ELSE IF dir # "tcp" /\ s[i].byte = 0 THEN g[i - 1]
                    ELSE Append(g[i - 1], s[i])
    BY <1>5
<1> HIDE DEF Rule
<1>8. 0 \in S
    BY <1>1, <1>3, <1>7
<1>9. ASSUME NEW i \in 1 .. n, i - 1 \in S PROVE i \in S
  <2>1. i \in 0 .. n /\ i # 0
      BY <1>1, <1>9
  <2>2. g[i - 1] = f[i - 1]
      BY <1>9
  <2>3. Q(i)
      BY <1>3, <1>7, <2>1, <2>2
  <2> HIDE DEF Q
  <2> QED BY <2>1, <2>3
<1>10. 0 .. n \subseteq S
  <2> HIDE DEF S, n
  <2> QED BY <1>1, <1>8, <1>9, Induct
<1>11. n \in 0 .. n
    BY <1>1
<1>12. Q(n)
  <2> HIDE DEF n, Q
  <2> QED BY <1>10, <1>11
<1>13. Shown(dir, s) = f[n]
    BY <1>2, ShownIs DEF ShownFrom
<1> QED BY <1>6, <1>12, <1>13

-----------------------------------------------------------------------------
(* Frames on the line, and the event a block becomes.                      *)

LEMMA GatewayType ==
    ASSUME NEW data \in Seq(Byte)
    PROVE  GatewayCobs(data) \in Seq(Byte)
<1> DEFINE n == Len(data)
           m == n + 1
<1>1. n \in Nat /\ m \in Nat /\ 1 \in 1 .. m
    BY LenProperties
<1>2. PICK g : GatewayFrom(data, g) /\ GatewayCobs(data) = g[1]
    BY GatewayAs
<1> DEFINE S == {i \in 1 .. m : g[i] \in Seq(Byte)}
<1>3. ASSUME NEW i \in 1 .. m, \A j \in i + 1 .. m : j \in S PROVE i \in S
  <2> DEFINE e == StopAt(data, i)
             block == <<e - i + 1>> \o SubSeq(data, i, e - 1)
  <2>1. i \in Nat /\ i \in 1 .. Len(data) + 1
      BY <1>1, <1>3
  <2>2. /\ e \in i .. n + 1 /\ e - i <= MaxRun
        /\ e <= n /\ data[e] # 0 => e = i + MaxRun
      BY <2>1, StopFacts
  <2>3. block \in Seq(Byte)
    <3> HIDE DEF e
    <3>1. e - i + 1 \in Byte /\ e - 1 \in i - 1 .. Len(data)
        BY <1>1, <2>1, <2>2, ByteSizes
    <3>2. SubSeq(data, i, e - 1) \in Seq(Byte)
        BY <2>1, <3>1, Part
    <3>3. <<e - i + 1>> \in Seq(Byte)
        BY <3>1, One
    <3> QED BY <3>2, <3>3, ConcatProperties
  <2>4. \A s \in Seq(Byte) : block \o s \in Seq(Byte)
    <3> HIDE DEF block
    <3> QED BY <2>3, ConcatProperties
  <2>5. <<1>> \in Seq(Byte)
    <3>1. 1 \in Byte
        BY ByteSizes
    <3> QED BY <3>1, One
  <2>6. g[i] = IF e > n THEN block
                ELSE IF data[e] # 0 THEN block \o g[e]
                ELSE IF e = n THEN block \o <<1>>
                ELSE block \o g[e + 1]
    <3>1. g[i] = Blocks(data, g, i)
        BY <1>2, <2>1 DEF GatewayFrom
    <3> QED BY <3>1 DEF Blocks
  <2>7. (e <= n /\ data[e] # 0) => e \in i + 1 .. m
      BY <1>1, <2>1, <2>2, ByteSizes
  <2>8. (e <= n /\ e # n) => e + 1 \in i + 1 .. m
      BY <1>1, <2>1, <2>2
  <2>9. e > n \/ e <= n
      BY <1>1, <2>1, <2>2
  <2> HIDE DEF block, e
  <2>10. \A j \in i + 1 .. m : g[j] \in Seq(Byte)
      BY <1>3
  <2>11. g[i] \in Seq(Byte)
      BY <2>3, <2>4, <2>5, <2>6, <2>7, <2>8, <2>9, <2>10
  <2> QED BY <1>3, <2>11
<1>4. 1 .. m \subseteq S
  <2> HIDE DEF S, m
  <2> QED BY <1>1, <1>3, Backwards
<1>5. g[1] \in Seq(Byte)
    BY <1>1, <1>4
<1> QED BY <1>2, <1>5

\* A body the encoder of this direction carries: see Survivable.
Carried(d, body) == d = "down" => Survivable(body)

Frame(d, body, k) == Tagged(OnTheWire(d, body), k)

LEMMA BodyTypes ==
    ASSUME NEW d \in Directions, NEW body \in Bodies[d]
    PROVE  /\ d \in {"up", "down", "tcp"} /\ body \in Seq(Byte)
           /\ d = "down" => Len(body) + (Len(body) \div MaxRun) + 1 <= RawCap
           /\ d = "tcp" => Len(body) < (MaxByte + 1) * (MaxByte + 1)
BY CodecAssumption

LEMMA Delimited ==
    ASSUME NEW c \in Seq(Byte), NEW k \in Nat
    PROVE  /\ Append(c, 0) \in Seq(Byte)
           /\ Tagged(Append(c, 0), k) = Tagged(c, k) \o <<[byte |-> 0, frame |-> k]>>
<1> DEFINE z == [byte |-> 0, frame |-> k]
           t == Tagged(c, k)
           u == Append(c, 0)
           v == Tagged(u, k)
           n == Len(c)
<1>1. 0 \in Byte /\ n \in Nat
    BY ByteSizes, LenProperties
<1>2. u \in Seq(Byte) /\ Len(u) = n + 1 /\ (\A i \in 1 .. n : u[i] = c[i]) /\ u[n + 1] = 0
    BY <1>1, AppendProperties
<1> HIDE DEF u
<1>3. /\ t \in Seq(OnLine) /\ Len(t) = n
      /\ \A i \in 1 .. n : t[i] = [byte |-> c[i], frame |-> k]
    BY TagsFacts
<1>4. /\ v \in Seq(OnLine) /\ Len(v) = n + 1
      /\ \A i \in 1 .. n + 1 : v[i] = [byte |-> u[i], frame |-> k]
    BY <1>2, TagsFacts
<1>5. z \in OnLine
    BY <1>1 DEF OnLine
<1> HIDE DEF t, v, z
<1>6. <<z>> \in Seq(OnLine) /\ Len(<<z>>) = 1 /\ <<z>>[1] = z
    BY <1>5, One
<1>7. /\ t \o <<z>> \in Seq(OnLine) /\ Len(t \o <<z>>) = n + 1
      /\ \A i \in 1 .. n : (t \o <<z>>)[i] = t[i]
      /\ (t \o <<z>>)[n + 1] = z
  <2>1. /\ t \o <<z>> \in Seq(OnLine) /\ Len(t \o <<z>>) = Len(t) + Len(<<z>>)
        /\ \A i \in 1 .. Len(t) : (t \o <<z>>)[i] = t[i]
        /\ \A i \in 1 .. Len(<<z>>) : (t \o <<z>>)[Len(t) + i] = <<z>>[i]
      BY <1>3, <1>6, Cat
  <2> QED BY <1>1, <1>3, <1>6, <2>1
<1>8. ASSUME NEW i \in 1 .. n + 1 PROVE v[i] = (t \o <<z>>)[i]
  <2>1. CASE i = n + 1
    <3>1. v[i] = z
        BY <1>2, <1>4, <2>1 DEF z
    <3> QED BY <1>7, <2>1, <3>1
  <2>2. CASE i # n + 1
    <3>1. i \in 1 .. n
        BY <1>1, <2>2
    <3> QED BY <1>2, <1>3, <1>4, <1>7, <3>1
  <2> QED BY <2>1, <2>2
<1>9. v = t \o <<z>>
    BY <1>4, <1>7, <1>8, SeqEqual
<1> QED BY <1>2, <1>9 DEF u, v, t, z

\* A block as the decoders want it.
Block(D, body, k) ==
    /\ D \in Seq(OnLine) /\ D # <<>> /\ FramesOf(D) = {k}
    /\ \A i \in 1 .. Len(D) : D[i].byte # 0
    /\ Uncobs(Values(D)) = {body}

LEMMA CobsFrame ==
    ASSUME NEW d \in Directions, d # "tcp", NEW body \in Bodies[d], Carried(d, body), NEW k \in Nat
    PROVE  \E D \in Seq(OnLine) :
              /\ Block(D, body, k)
              /\ Frame(d, body, k) = D \o <<[byte |-> 0, frame |-> k]>>
              /\ d = "down" => Len(D) <= RawCap
<1>1. /\ d \in {"up", "down"} /\ body \in Seq(Byte)
      /\ d = "down" => Len(body) + (Len(body) \div MaxRun) + 1 <= RawCap
    BY BodyTypes
<1> DEFINE c == IF d = "up" THEN BoardCobs(body) ELSE GatewayCobs(body)
<1>2. OnTheWire(d, body) = Append(c, 0)
    BY <1>1 DEF OnTheWire
<1>3. RoundTrip(c, body)
    BY <1>1, BoardRoundTrip, GatewayRoundTrip DEF Carried
<1>4. d = "down" => Len(c) <= RawCap
  <2> SUFFICES ASSUME d = "down" PROVE Len(c) <= RawCap
      OBVIOUS
  <2>1. c = GatewayCobs(body) /\ Len(c) <= Len(body) + (Len(body) \div MaxRun) + 1 /\ c \in Seq(Byte)
      BY <1>1, GatewayRoundTrip DEF Carried, RoundTrip
  <2>2. Len(c) \in Nat
    <3> HIDE DEF c
    <3> QED BY <2>1, LenProperties
  <2> DEFINE x == Len(body) + (Len(body) \div MaxRun) + 1
             y == Len(c)
  <2>3. x \in Nat /\ y <= x /\ x <= RawCap /\ y \in Nat
    <3>1. Len(body) \in Nat /\ Len(body) \div MaxRun \in Nat
      <4>1. Len(body) \in Nat
          BY <1>1, LenProperties
      <4> QED BY <4>1, ByteSizes, Quotients
    <3>2. x \in Nat
        BY <3>1
    <3> HIDE DEF c
    <3> QED BY <1>1, <2>1, <2>2, <3>2
  <2> HIDE DEF x, y
  <2>4. y <= RawCap
      BY <2>3, ByteSizes
  <2> QED BY <2>4 DEF y
<1> HIDE DEF c
<1> DEFINE D == Tagged(c, k)
<1>5. c \in Seq(Byte) /\ ZeroFree(c) /\ c # <<>> /\ Uncobs(c) = {body}
    BY <1>3 DEF RoundTrip
<1>6. /\ D \in Seq(OnLine) /\ Len(D) = Len(c)
      /\ \A i \in 1 .. Len(c) : D[i] = [byte |-> c[i], frame |-> k]
      /\ Values(D) = c /\ FramesOf(D) = {k}
    BY <1>5, TagsFacts
<1>7. Frame(d, body, k) = D \o <<[byte |-> 0, frame |-> k]>>
    BY <1>2, <1>5, Delimited DEF Frame
<1> HIDE DEF D
<1>8. D # <<>>
  <2>1. Len(c) # 0
      BY <1>5, EmptySeq
  <2> QED BY <1>6, <2>1, EmptySeq
<1>9. \A i \in 1 .. Len(D) : D[i].byte # 0
  <2>1. \A i \in 1 .. Len(c) : c[i] # 0 /\ D[i] = [byte |-> c[i], frame |-> k]
      BY <1>5, <1>6 DEF ZeroFree
  <2>2. ASSUME NEW i \in 1 .. Len(c) PROVE D[i].byte # 0
    <3>1. c[i] # 0 /\ D[i] = [byte |-> c[i], frame |-> k]
        BY <2>1
    <3>2. D[i].byte = c[i]
        BY <3>1
    <3> QED BY <3>1, <3>2
  <2> QED BY <1>6, <2>2
<1>10. Block(D, body, k)
    BY <1>5, <1>6, <1>8, <1>9 DEF Block
<1> QED BY <1>4, <1>6, <1>7, <1>10

LEMMA DigitsOf ==
    ASSUME NEW M \in Nat, M >= 1, NEW x \in Nat, x < M * M
    PROVE  /\ x \div M \in 0 .. M - 1 /\ x % M \in 0 .. M - 1
           /\ ((x \div M) * M) + (x % M) = x
<1> DEFINE q == x \div M
           r == x % M
<1>1. q \in Nat /\ r \in 0 .. M - 1 /\ x = (M * q) + r
    OBVIOUS
<1>2. M * q = q * M
    BY <1>1
<1> HIDE DEF q, r
<1>3. q < M
  <2>1. SUFFICES ASSUME q >= M PROVE FALSE
      BY <1>1
  <2>2. q - M \in Nat /\ q = M + (q - M)
      BY <1>1, <2>1
  <2>3. M * (M + (q - M)) = (M * M) + (M * (q - M)) /\ M * (q - M) \in Nat /\ M * M \in Nat
      BY <2>2
  <2>4. M * q >= M * M /\ M * q \in Nat
      BY <2>2, <2>3
  <2> QED BY <1>1, <2>3, <2>4
<1> QED BY <1>1, <1>2, <1>3 DEF q, r

\* A whole message as the decoder of TCP wants it.
Message(D, body, k) ==
    /\ D \in Seq(OnLine) /\ Len(D) = 2 + Len(body) /\ Len(body) \in Nat
    /\ \A i \in 1 .. Len(D) : D[i].frame = k
    /\ (D[1].byte * (MaxByte + 1)) + D[2].byte = Len(body)
    /\ SubSeq(Values(D), 3, Len(D)) = body

LEMMA PrefixType ==
    ASSUME NEW body \in Seq(Byte), Len(body) < (MaxByte + 1) * (MaxByte + 1)
    PROVE  /\ Len(body) \in Nat /\ <<Len(body) \div (MaxByte + 1), Len(body) % (MaxByte + 1)>> \in Seq(Byte)
           /\ Prefixed(body) \in Seq(Byte)
           /\ ((Len(body) \div (MaxByte + 1)) * (MaxByte + 1)) + (Len(body) % (MaxByte + 1)) = Len(body)
<1> DEFINE M == MaxByte + 1
           x == Len(body)
           q == x \div M
           r == x % M
<1>1. M \in Nat /\ M >= 1 /\ x \in Nat /\ x < M * M /\ M - 1 = MaxByte
    BY ByteSizes, LenProperties
<1>2. q \in 0 .. M - 1 /\ r \in 0 .. M - 1 /\ (q * M) + r = x
  <2> HIDE DEF M, x
  <2> QED BY <1>1, DigitsOf
<1>3. q \in Byte /\ r \in Byte
  <2> HIDE DEF q, r
  <2> QED BY <1>1, <1>2 DEF Byte
<1>4. <<q, r>> \in Seq(Byte)
  <2> HIDE DEF q, r
  <2> QED BY <1>3
<1>5. <<q, r>> \o body \in Seq(Byte)
  <2> HIDE DEF q, r
  <2> QED BY <1>4, ConcatProperties
<1> QED BY <1>1, <1>2, <1>4, <1>5 DEF Prefixed

LEMMA FromThird ==
    ASSUME NEW c \in Seq(Byte), Len(c) >= 2
    PROVE  /\ SubSeq(c, 3, Len(c)) \in Seq(Byte) /\ Len(SubSeq(c, 3, Len(c))) = (Len(c) - 3) + 1
           /\ \A j \in 1 .. (Len(c) - 3) + 1 : SubSeq(c, 3, Len(c))[j] = c[(3 + j) - 1]
<1>1. 3 \in 1 .. Len(c) + 1 /\ Len(c) \in 3 - 1 .. Len(c)
    BY LenProperties
<1> QED BY <1>1, Part

LEMMA TcpFrame ==
    ASSUME "tcp" \in Directions, NEW body \in Bodies["tcp"], NEW k \in Nat
    PROVE  Message(Frame("tcp", body, k), body, k)
<1> DEFINE q == Len(body) \div (MaxByte + 1)
           r == Len(body) % (MaxByte + 1)
           c == <<q, r>> \o body
           D == Tagged(c, k)
<1>1. body \in Seq(Byte) /\ Len(body) < (MaxByte + 1) * (MaxByte + 1)
    BY BodyTypes
<1>2. Len(body) \in Nat /\ <<q, r>> \in Seq(Byte) /\ c \in Seq(Byte) /\ (q * (MaxByte + 1)) + r = Len(body)
    BY <1>1, PrefixType DEF Prefixed
<1>3. Frame("tcp", body, k) = D
    BY DEF Frame, OnTheWire, Prefixed
<1> HIDE DEF q, r
<1>4. Len(<<q, r>>) = 2 /\ <<q, r>>[1] = q /\ <<q, r>>[2] = r
    OBVIOUS
<1>5. /\ Len(c) = 2 + Len(body) /\ c[1] = q /\ c[2] = r
      /\ \A i \in 1 .. Len(body) : c[2 + i] = body[i]
  <2> DEFINE p == <<q, r>>
  <2>1. p \in Seq(Byte) /\ Len(p) = 2 /\ p[1] = q /\ p[2] = r /\ c = p \o body
      BY <1>2, <1>4
  <2> HIDE DEF p, c
  <2>2. /\ p \o body \in Seq(Byte) /\ Len(p) \in Nat /\ Len(body) \in Nat
        /\ Len(p \o body) = Len(p) + Len(body)
        /\ \A i \in 1 .. Len(p) : (p \o body)[i] = p[i]
        /\ \A i \in 1 .. Len(body) : (p \o body)[Len(p) + i] = body[i]
    <3>1. body \in Seq(Byte) /\ p \in Seq(Byte)
        BY <1>1, <2>1
    <3> QED BY <3>1, Cat
  <2> QED BY <2>1, <2>2
<1> HIDE DEF c
<1>6. /\ D \in Seq(OnLine) /\ Len(D) = Len(c)
      /\ \A i \in 1 .. Len(c) : D[i] = [byte |-> c[i], frame |-> k]
      /\ Values(D) = c
    BY <1>2, TagsFacts
<1> HIDE DEF D
<1>7. SubSeq(c, 3, Len(c)) = body
  <2>1. 3 \in 1 .. Len(c) + 1 /\ Len(c) \in 3 - 1 .. Len(c) /\ (Len(c) - 3) + 1 = Len(body)
      BY <1>2, <1>5
  <2> DEFINE s == SubSeq(c, 3, Len(c))
  <2>2. s \in Seq(Byte) /\ Len(s) = (Len(c) - 3) + 1 /\ \A j \in 1 .. (Len(c) - 3) + 1 : s[j] = c[(3 + j) - 1]
    <3>1. c \in Seq(Byte) /\ Len(c) >= 2
        BY <1>2, <2>1
    <3> QED BY <3>1, FromThird
  <2> HIDE DEF s
  <2>3. \A j \in 1 .. Len(body) : s[j] = body[j]
    <3>1. \A j \in 1 .. Len(body) : (3 + j) - 1 = 2 + j
        OBVIOUS
    <3> QED BY <1>5, <2>1, <2>2, <3>1
  <2>4. s = body
      BY <1>1, <2>1, <2>2, <2>3, SeqEqual
  <2> QED BY <2>4 DEF s
<1>8. 1 \in 1 .. Len(c) /\ 2 \in 1 .. Len(c)
    BY <1>2, <1>5
<1>9. D[1].byte = q /\ D[2].byte = r /\ \A i \in 1 .. Len(D) : D[i].frame = k
    BY <1>5, <1>6, <1>8
<1> QED BY <1>2, <1>3, <1>5, <1>6, <1>7, <1>9 DEF Message

LEMMA FrameType ==
    ASSUME NEW d \in Directions, NEW body \in Bodies[d], NEW k \in Nat
    PROVE  Frame(d, body, k) \in Seq(OnLine) /\ FramesOf(Frame(d, body, k)) \subseteq {k}
<1>1. /\ d \in {"up", "down", "tcp"} /\ body \in Seq(Byte)
      /\ d = "tcp" => Len(body) < (MaxByte + 1) * (MaxByte + 1)
    BY BodyTypes
<1>2. BoardCobs(body) \in Seq(Byte) /\ GatewayCobs(body) \in Seq(Byte)
    BY <1>1, BoardRoundTrip, GatewayType DEF RoundTrip
<1>3. Append(BoardCobs(body), 0) \in Seq(Byte) /\ Append(GatewayCobs(body), 0) \in Seq(Byte)
    BY <1>2, ByteSizes, AppendProperties
<1>4. d = "tcp" => Prefixed(body) \in Seq(Byte)
    BY <1>1, PrefixType
<1>5. OnTheWire(d, body) \in Seq(Byte)
    BY <1>1, <1>3, <1>4 DEF OnTheWire
<1> QED BY <1>5, TagsFacts DEF Frame

LEMMA ValuesType ==
    ASSUME NEW D \in Seq(OnLine)
    PROVE  /\ Values(D) \in Seq(Byte) /\ Len(Values(D)) = Len(D)
           /\ \A i \in 1 .. Len(D) : Values(D)[i] = D[i].byte
<1> DEFINE n == Len(D)
           v == [i \in 1 .. n |-> D[i].byte]
<1>1. n \in Nat /\ DOMAIN D = 1 .. n /\ \A i \in 1 .. n : D[i].byte \in Byte
    BY LineFacts
<1>2. Values(D) = v
    BY <1>1 DEF Values
<1>3. v \in [1 .. n -> Byte] /\ \A i \in 1 .. n : v[i] = D[i].byte
    BY <1>1
<1> HIDE DEF v
<1>4. v \in Seq(Byte)
    BY <1>1, <1>3, SeqDef
<1>5. Len(v) = n
    BY <1>1, <1>3, <1>4
<1> QED BY <1>2, <1>3, <1>4, <1>5

\* An event that shows the bytes D.
Shows(e, D) == e \in Event /\ e.bytes = D

LEMMA RawShows ==
    ASSUME NEW D \in Seq(OnLine)
    PROVE  \E e : Raw(D) = <<e>> /\ Shows(e, D)
<1> DEFINE e == [kind |-> "raw", body |-> <<>>, bytes |-> D]
<1>1. <<>> \in Seq(Byte)
    BY EmptySeq
<1>2. e \in Event /\ e.bytes = D
    BY <1>1 DEF Event
<1>3. Raw(D) = <<e>>
    BY DEF Raw
<1> HIDE DEF e
<1> QED BY <1>2, <1>3 DEF Shows

LEMMA DecodedShows ==
    ASSUME NEW D \in Seq(OnLine), NEW x \in Seq(Byte)
    PROVE  \E e : Decoded(x, D) = <<e>> /\ Shows(e, D) /\ e.kind = "frame" /\ e.body = x
<1> DEFINE e == [kind |-> "frame", body |-> x, bytes |-> D]
<1>2. e \in Event /\ e.bytes = D /\ e.kind = "frame" /\ e.body = x
    BY DEF Event
<1>3. Decoded(x, D) = <<e>>
    BY DEF Decoded
<1> HIDE DEF e
<1> QED BY <1>2, <1>3 DEF Shows

LEMMA DecodeShows ==
    ASSUME NEW D \in Seq(OnLine)
    PROVE  \E e : /\ DecodeBlock(D) = <<e>> /\ Shows(e, D)
                  /\ \A x \in Bodies[dir] :
                        Uncobs(Values(D)) = {x} => e.kind = "frame" /\ e.body = x
<1> DEFINE bodies == {b \in Uncobs(Values(D)) : Parses(b)}
           x == CHOOSE b \in bodies : TRUE
<1>1. Uncobs(Values(D)) \subseteq Seq(Byte)
    BY ValuesType, UncobsType
<1>2. DecodeBlock(D) = IF bodies = {} THEN Raw(D) ELSE Decoded(x, D)
    BY DEF DecodeBlock
<1>3. CASE bodies = {}
  <2>1. \A y \in Bodies[dir] : Uncobs(Values(D)) # {y}
      BY <1>3 DEF Parses
  <2>2. PICK e : Raw(D) = <<e>> /\ Shows(e, D)
      BY RawShows
  <2> HIDE DEF bodies
  <2> QED BY <1>2, <1>3, <2>1, <2>2
<1>4. CASE bodies # {}
  <2>1. x \in bodies
      BY <1>4
  <2>2. x \in Seq(Byte) /\ x \in Uncobs(Values(D))
      BY <1>1, <2>1
  <2> HIDE DEF x, bodies
  <2>3. PICK e : Decoded(x, D) = <<e>> /\ Shows(e, D) /\ e.kind = "frame" /\ e.body = x
      BY <2>2, DecodedShows
  <2> QED BY <1>2, <1>4, <2>2, <2>3
<1> QED BY <1>3, <1>4

-----------------------------------------------------------------------------
(* Where each frame is: on the line, or in the events.                     *)

NoneOf(o, k) == \A i \in DOMAIN o : k \notin FramesOf(o[i].bytes)

\* What precedes frame k ends with the delimiter of the frame before it.
Ends(d, A, k) == d = "tcp" \/ A = <<>> \/ A[Len(A)] = [byte |-> 0, frame |-> k - 1]

\* The stream S holds frame k, whole, between A and B.
At(d, S, body, k, A, B) ==
    /\ A \in Seq(OnLine) /\ B \in Seq(OnLine)
    /\ S = A \o (Frame(d, body, k) \o B)
    /\ k \notin FramesOf(A) /\ k \notin FramesOf(B)
    /\ Ends(d, A, k)

Pending(d, S, o, body, k) == NoneOf(o, k) /\ \E A, B : At(d, S, body, k, A, B)

\* Event i is frame k, and no other event has a byte of it.
Only(o, i, k, body) ==
    /\ i \in DOMAIN o /\ o[i].kind = "frame" /\ FramesOf(o[i].bytes) = {k} /\ o[i].body = body
    /\ \A j \in DOMAIN o : j # i => k \notin FramesOf(o[j].bytes)

Arrived(S, o, body, k) == k \notin FramesOf(S) /\ \E i : Only(o, i, k, body)

Tracked(S, o) ==
    \A k \in (1 .. Len(sent)) \ hurt :
        Carried(dir, sent[k]) => Pending(dir, S, o, sent[k], k) \/ Arrived(S, o, sent[k], k)
Unsent(S, o) ==
    \A k \in Nat \ hurt : k > Len(sent) => k \notin FramesOf(S) /\ NoneOf(o, k)
Clean(S) == Len(sent) + 1 \notin hurt => Ends(dir, S, Len(sent) + 1)
Chain(S) == dir = "tcp" => hurt = {} /\ FramesOf(S) \subseteq 1 .. Len(sent)

Tracking(S, o) == Tracked(S, o) /\ Unsent(S, o) /\ Clean(S) /\ Chain(S)

\* The events show no frame that is not in D.
Within(ev, D) == \A i \in DOMAIN ev : FramesOf(ev[i].bytes) \subseteq FramesOf(D)

LEMMA EventCat ==
    ASSUME NEW o \in Seq(Event), NEW ev \in Seq(Event)
    PROVE  /\ o \o ev \in Seq(Event)
           /\ \A i \in DOMAIN o : i \in DOMAIN (o \o ev) /\ (o \o ev)[i] = o[i]
           /\ \A j \in DOMAIN (o \o ev) :
                 j \in DOMAIN o \/ \E i \in DOMAIN ev : (o \o ev)[j] = ev[i] /\ j = Len(o) + i
<1> DEFINE u == o \o ev
<1>1. /\ u \in Seq(Event) /\ Len(o) \in Nat /\ Len(ev) \in Nat
      /\ Len(u) = Len(o) + Len(ev)
      /\ \A i \in 1 .. Len(o) : u[i] = o[i]
      /\ \A i \in 1 .. Len(ev) : u[Len(o) + i] = ev[i]
    BY Cat
<1> HIDE DEF u
<1>2. DOMAIN o = 1 .. Len(o) /\ DOMAIN ev = 1 .. Len(ev) /\ DOMAIN u = 1 .. Len(u)
    BY <1>1, EventFacts
<1>3. \A i \in 1 .. Len(o) : i \in 1 .. Len(u)
    BY <1>1
<1>4. ASSUME NEW j \in 1 .. Len(u), j \notin 1 .. Len(o)
      PROVE  \E i \in 1 .. Len(ev) : u[j] = ev[i] /\ j = Len(o) + i
  <2>1. j - Len(o) \in 1 .. Len(ev) /\ Len(o) + (j - Len(o)) = j
      BY <1>1, <1>4
  <2>2. u[j] = ev[j - Len(o)]
      BY <1>1, <2>1
  <2> QED BY <2>1, <2>2
<1>5. \A j \in DOMAIN u : j \in DOMAIN o \/ \E i \in DOMAIN ev : u[j] = ev[i] /\ j = Len(o) + i
    BY <1>2, <1>4
<1>6. \A i \in DOMAIN o : i \in DOMAIN u /\ u[i] = o[i]
    BY <1>1, <1>2, <1>3
<1> QED BY <1>1, <1>5, <1>6 DEF u

LEMMA NoneKept ==
    ASSUME NEW o \in Seq(Event), NEW ev \in Seq(Event), NEW k, NoneOf(o, k), NoneOf(ev, k)
    PROVE  NoneOf(o \o ev, k)
<1> DEFINE u == o \o ev
<1>1. ASSUME NEW j \in DOMAIN u PROVE k \notin FramesOf(u[j].bytes)
  <2>1. (j \in DOMAIN o /\ u[j] = o[j]) \/ \E i \in DOMAIN ev : u[j] = ev[i]
      BY EventCat
  <2> HIDE DEF u
  <2> QED BY <2>1 DEF NoneOf
<1> QED BY <1>1 DEF NoneOf

LEMMA OnlyKept ==
    ASSUME NEW o \in Seq(Event), NEW ev \in Seq(Event), NEW k, NEW i, NEW body,
           Only(o, i, k, body), NoneOf(ev, k)
    PROVE  Only(o \o ev, i, k, body)
<1> DEFINE u == o \o ev
<1>1. i \in DOMAIN u /\ u[i] = o[i]
    BY EventCat DEF Only
<1>2. ASSUME NEW j \in DOMAIN u, j # i PROVE k \notin FramesOf(u[j].bytes)
  <2>1. (j \in DOMAIN o /\ u[j] = o[j]) \/ \E m \in DOMAIN ev : u[j] = ev[m]
      BY EventCat
  <2> HIDE DEF u
  <2> QED BY <1>2, <2>1 DEF NoneOf, Only
<1> HIDE DEF u
<1>3. Only(u, i, k, body)
    BY <1>1, <1>2 DEF Only
<1> QED BY <1>3 DEF u

LEMMA OnlyNew ==
    ASSUME NEW o \in Seq(Event), NEW e \in Event, NEW k, NEW body,
           NoneOf(o, k), e.kind = "frame", FramesOf(e.bytes) = {k}, e.body = body
    PROVE  Only(o \o <<e>>, Len(o) + 1, k, body)
<1> DEFINE u == o \o <<e>>
           n == Len(o)
<1>1. <<e>> \in Seq(Event) /\ Len(<<e>>) = 1 /\ <<e>>[1] = e /\ DOMAIN <<e>> = 1 .. 1
    BY One
<1>2. u \in Seq(Event) /\ n \in Nat /\ Len(u) = n + 1 /\ u[n + 1] = e
  <2>1. /\ u \in Seq(Event) /\ Len(u) = Len(o) + Len(<<e>>) /\ Len(o) \in Nat
        /\ \A i \in 1 .. Len(<<e>>) : u[Len(o) + i] = <<e>>[i]
      BY <1>1, Cat
  <2> HIDE DEF u
  <2> QED BY <1>1, <2>1
<1>3. DOMAIN u = 1 .. n + 1
    BY <1>2, EventFacts
<1>4. ASSUME NEW j \in DOMAIN u, j # n + 1 PROVE k \notin FramesOf(u[j].bytes)
  <2>1. (j \in DOMAIN o /\ u[j] = o[j]) \/ \E m \in DOMAIN <<e>> : j = Len(o) + m
      BY <1>1, EventCat
  <2>2. ~ \E m \in DOMAIN <<e>> : j = Len(o) + m
      BY <1>1, <1>2, <1>4
  <2> HIDE DEF u
  <2> QED BY <2>1, <2>2 DEF NoneOf
<1> HIDE DEF u
<1>5. n + 1 \in DOMAIN u
    BY <1>2, <1>3
<1>6. Only(u, n + 1, k, body)
    BY <1>2, <1>4, <1>5 DEF Only
<1> QED BY <1>6 DEF u

LEMMA LastOf ==
    ASSUME NEW D \in Seq(OnLine), NEW M \in Seq(OnLine), M # <<>>
    PROVE  /\ (D \o M)[Len(D \o M)] = M[Len(M)] /\ D \o M # <<>> /\ D \o M \in Seq(OnLine)
           /\ Len(D \o M) \in Nat /\ Len(D \o M) = Len(D) + Len(M)
<1>1. /\ D \o M \in Seq(OnLine) /\ Len(D) \in Nat /\ Len(M) \in Nat /\ Len(D \o M) = Len(D) + Len(M)
      /\ \A i \in 1 .. Len(M) : (D \o M)[Len(D) + i] = M[i]
    BY Cat
<1>2. Len(M) \in 1 .. Len(M) /\ Len(M) >= 1
    BY <1>1, EmptySeq
<1>3. D \o M # <<>>
    BY <1>1, <1>2, EmptySeq
<1> QED BY <1>1, <1>2, <1>3

LEMMA EndsRest ==
    ASSUME NEW d, NEW k, NEW D \in Seq(OnLine), NEW M \in Seq(OnLine), Ends(d, D \o M, k)
    PROVE  Ends(d, M, k)
<1>1. CASE M = <<>>
    BY <1>1 DEF Ends
<1>2. CASE M # <<>>
    BY <1>2, LastOf DEF Ends
<1> QED BY <1>1, <1>2

LEMMA SentTypes ==
    ASSUME dir \in Directions, sent \in Seq(Bodies[dir]), NEW k \in 1 .. Len(sent)
    PROVE  sent[k] \in Bodies[dir] /\ sent[k] \in Seq(Byte) /\ k \in Nat
<1>1. Len(sent) \in Nat
    BY LenProperties
<1>2. sent[k] \in Bodies[dir]
    BY ElementOfSeq
<1> QED BY <1>1, <1>2, BodyTypes

\* The decoder takes D from the stream and returns the events ev.
LEMMA Consume ==
    ASSUME dir \in Directions, sent \in Seq(Bodies[dir]),
           NEW D \in Seq(OnLine), NEW R \in Seq(OnLine),
           NEW o \in Seq(Event), NEW ev \in Seq(Event),
           Tracking(D \o R, o), Within(ev, D),
           \A k \in (1 .. Len(sent)) \ hurt : \A A, B :
               Carried(dir, sent[k]) /\ NoneOf(o, k) /\ At(dir, D \o R, sent[k], k, A, B) /\ Len(A) < Len(D)
                  => Arrived(R, o \o ev, sent[k], k)
    PROVE  Tracking(R, o \o ev)
<1> DEFINE S == D \o R
<1>1. FramesOf(S) = FramesOf(D) \cup FramesOf(R)
    BY FramesCat
<1>2. \A k : k \notin FramesOf(D) => NoneOf(ev, k)
    BY DEF Within, NoneOf
<1>3. ASSUME NEW k \in (1 .. Len(sent)) \ hurt, Carried(dir, sent[k])
      PROVE  Pending(dir, R, o \o ev, sent[k], k) \/ Arrived(R, o \o ev, sent[k], k)
  <2>1. Pending(dir, S, o, sent[k], k) \/ Arrived(S, o, sent[k], k)
      BY <1>3 DEF Tracking, Tracked
  <2>2. CASE Arrived(S, o, sent[k], k)
    <3>1. k \notin FramesOf(D) /\ k \notin FramesOf(R)
        BY <1>1, <2>2 DEF Arrived
    <3>2. NoneOf(ev, k)
        BY <1>2, <3>1
    <3>3. PICK i : Only(o, i, k, sent[k])
        BY <2>2 DEF Arrived
    <3>4. Only(o \o ev, i, k, sent[k])
        BY <3>2, <3>3, OnlyKept
    <3> QED BY <3>1, <3>4 DEF Arrived
  <2>3. CASE Pending(dir, S, o, sent[k], k)
    <3>1. NoneOf(o, k)
        BY <2>3 DEF Pending
    <3>2. PICK A, B : At(dir, S, sent[k], k, A, B)
        BY <2>3 DEF Pending
    <3>3. CASE Len(A) < Len(D)
        BY <1>3, <3>1, <3>2, <3>3
    <3>4. CASE Len(D) <= Len(A)
      <4> DEFINE E == Frame(dir, sent[k], k) \o B
      <4>1. /\ A \in Seq(OnLine) /\ B \in Seq(OnLine) /\ D \o R = A \o E
            /\ k \notin FramesOf(A) /\ k \notin FramesOf(B) /\ Ends(dir, A, k)
          BY <3>2 DEF At
      <4>2. E \in Seq(OnLine)
        <5>1. sent[k] \in Bodies[dir] /\ k \in Nat
            BY <1>3, SentTypes
        <5>2. Frame(dir, sent[k], k) \in Seq(OnLine)
            BY <5>1, FrameType
        <5> QED BY <4>1, <5>2, ConcatProperties
      <4> HIDE DEF E
      <4>3. PICK M \in Seq(OnLine) : A = D \o M /\ R = M \o E
        <5>1. A \in Seq(OnLine) /\ E \in Seq(OnLine) /\ Same(D, R, A, E) /\ Len(D) <= Len(A)
            BY <3>4, <4>1, <4>2 DEF Same
        <5>2. Between(OnLine, D, R, A, E)
            BY <5>1, Levi
        <5> QED BY <5>2 DEF Between
      <4>4. k \notin FramesOf(D) /\ k \notin FramesOf(M)
          BY <4>1, <4>3, FramesCat
      <4>5. Ends(dir, M, k)
          BY <4>1, <4>3, EndsRest
      <4>6. At(dir, R, sent[k], k, M, B)
          BY <4>1, <4>3, <4>4, <4>5 DEF At, E
      <4>7. NoneOf(ev, k)
          BY <1>2, <4>4
      <4>8. NoneOf(o \o ev, k)
          BY <3>1, <4>7, NoneKept
      <4> QED BY <4>6, <4>8 DEF Pending
    <3>5. Len(A) \in Nat /\ Len(D) \in Nat
        BY <3>2, LineFacts DEF At
    <3> QED BY <3>3, <3>4, <3>5
  <2> QED BY <2>1, <2>2, <2>3
<1>4. ASSUME NEW k \in Nat \ hurt, k > Len(sent)
      PROVE  k \notin FramesOf(R) /\ NoneOf(o \o ev, k)
  <2>1. k \notin FramesOf(S) /\ NoneOf(o, k)
      BY <1>4 DEF Tracking, Unsent
  <2>2. k \notin FramesOf(D) /\ k \notin FramesOf(R)
      BY <1>1, <2>1
  <2>3. NoneOf(o \o ev, k)
      BY <1>2, <2>1, <2>2, NoneKept
  <2> QED BY <2>2, <2>3
<1>5. Clean(R)
    BY EndsRest DEF Tracking, Clean
<1>6. Chain(R)
    BY <1>1 DEF Tracking, Chain
<1>7. Tracked(R, o \o ev)
    BY <1>3 DEF Tracked
<1>8. Unsent(R, o \o ev)
    BY <1>4 DEF Unsent
<1> QED BY <1>5, <1>6, <1>7, <1>8 DEF Tracking

-----------------------------------------------------------------------------
(* What a decoder does with the bytes S: it returns the events ev and      *)
(* holds R back.                                                           *)

\* What the events and the rest show is what is visible of S.
Showing(S, ev, R) == \A o \in Seq(Event) : Flat(o \o ev) \o R = Flat(o) \o Shown(dir, S)

\* No frame is lost, whatever came before and whatever follows.
Keeping(S, ev, R) ==
    \A o \in Seq(Event), W \in Seq(OnLine) : Tracking(S \o W, o) => Tracking(R \o W, o \o ev)

Decodes(S, ev, R) ==
    /\ S \in Seq(OnLine) /\ ev \in Seq(Event) /\ R \in Seq(OnLine) /\ Whole(dir, R)
    /\ Showing(S, ev, R) /\ Keeping(S, ev, R)

LEMMA CatNone ==
    /\ \A s \in Seq(OnLine) : s \o <<>> = s /\ <<>> \o s = s
    /\ \A o \in Seq(Event) : o \o <<>> = o
    /\ <<>> \in Seq(OnLine) /\ <<>> \in Seq(Event)
BY ConcatEmptySeq, EmptySeq

LEMMA Assoc ==
    ASSUME NEW s \in Seq(OnLine), NEW t \in Seq(OnLine), NEW u \in Seq(OnLine)
    PROVE  (s \o t) \o u = s \o (t \o u)
BY LineAssoc

LEMMA LineCat == \A s, t \in Seq(OnLine) : s \o t \in Seq(OnLine)
BY ConcatProperties

LEMMA EventsCat == \A s, t \in Seq(Event) : s \o t \in Seq(Event)
BY ConcatProperties

\* A decoder holds back what has no delimiter.
LEMMA Hold ==
    ASSUME NEW R \in Seq(OnLine), Whole(dir, R)
    PROVE  Decodes(R, <<>>, R)
<1>1. <<>> \in Seq(Event) /\ \A o \in Seq(Event) : o \o <<>> = o
    BY CatNone
<1>2. Shown(dir, R) = R
    BY ShownWhole
<1>3. Showing(R, <<>>, R)
    BY <1>1, <1>2 DEF Showing
<1>4. Keeping(R, <<>>, R)
    BY <1>1 DEF Keeping
<1> QED BY <1>1, <1>3, <1>4 DEF Decodes

\* First S, then what it left and T.
LEMMA Compose ==
    ASSUME NEW S \in Seq(OnLine), NEW T \in Seq(OnLine), NEW ev, NEW R, NEW ev2, NEW R2,
           Decodes(S, ev, R), Decodes(R \o T, ev2, R2)
    PROVE  Decodes(S \o T, ev \o ev2, R2)
<1>1. /\ ev \in Seq(Event) /\ ev2 \in Seq(Event) /\ R \in Seq(OnLine) /\ R2 \in Seq(OnLine)
      /\ Whole(dir, R) /\ Whole(dir, R2)
    BY DEF Decodes
<1>2. S \o T \in Seq(OnLine) /\ R \o T \in Seq(OnLine) /\ ev \o ev2 \in Seq(Event)
    BY <1>1, LineCat, EventsCat
<1>3. Showing(S \o T, ev \o ev2, R2)
  <2> SUFFICES ASSUME NEW o \in Seq(Event)
               PROVE  Flat(o \o (ev \o ev2)) \o R2 = Flat(o) \o Shown(dir, S \o T)
      BY DEF Showing
  <2>1. o \o ev \in Seq(Event) /\ (o \o ev) \o ev2 = o \o (ev \o ev2)
      BY <1>1, EventsCat, EventAssoc
  <2>2. Flat((o \o ev) \o ev2) \o R2 = Flat(o \o ev) \o Shown(dir, R \o T)
      BY <2>1 DEF Decodes, Showing
  <2>3. Shown(dir, R \o T) = R \o Shown(dir, T)
    <3>1. Shown(dir, R \o T) = Shown(dir, R) \o Shown(dir, T)
        BY <1>1, ShownCat
    <3>2. Shown(dir, R) = R
        BY <1>1, ShownWhole
    <3> QED BY <3>1, <3>2
  <2>4. Flat(o \o ev) \o R = Flat(o) \o Shown(dir, S)
      BY DEF Decodes, Showing
  <2>5. Shown(dir, S \o T) = Shown(dir, S) \o Shown(dir, T)
      BY ShownCat
  <2>6. /\ Flat(o \o ev) \in Seq(OnLine) /\ Flat(o) \in Seq(OnLine)
        /\ Shown(dir, S) \in Seq(OnLine) /\ Shown(dir, T) \in Seq(OnLine)
      BY <2>1, FlatType, ShownType
  <2>7. (Flat(o \o ev) \o R) \o Shown(dir, T) = Flat(o \o ev) \o (R \o Shown(dir, T))
    <3> DEFINE a == Flat(o \o ev)
               t == Shown(dir, T)
    <3>1. a \in Seq(OnLine) /\ t \in Seq(OnLine) /\ R \in Seq(OnLine)
        BY <1>1, <2>6
    <3> HIDE DEF a, t
    <3>2. Reassoc(a, R, t)
        BY <3>1, Regroup
    <3> QED BY <3>2 DEF a, t, Reassoc
  <2>8. (Flat(o) \o Shown(dir, S)) \o Shown(dir, T) = Flat(o) \o (Shown(dir, S) \o Shown(dir, T))
    <3>1. Reassoc(Flat(o), Shown(dir, S), Shown(dir, T))
        BY <2>6, Regroup
    <3> QED BY <3>1 DEF Reassoc
  <2>9. Flat((o \o ev) \o ev2) \o R2 = (Flat(o \o ev) \o R) \o Shown(dir, T)
      BY <2>2, <2>3, <2>7
  <2>10. Flat(o) \o Shown(dir, S \o T) = (Flat(o) \o Shown(dir, S)) \o Shown(dir, T)
      BY <2>5, <2>8
  <2> QED BY <2>1, <2>4, <2>9, <2>10
<1>4. Keeping(S \o T, ev \o ev2, R2)
  <2> SUFFICES ASSUME NEW o \in Seq(Event), NEW W \in Seq(OnLine), Tracking((S \o T) \o W, o)
               PROVE  Tracking(R2 \o W, o \o (ev \o ev2))
      BY DEF Keeping
  <2>1. o \o ev \in Seq(Event) /\ (o \o ev) \o ev2 = o \o (ev \o ev2)
      BY <1>1, EventsCat, EventAssoc
  <2>2. (S \o T) \o W = S \o (T \o W) /\ (R \o T) \o W = R \o (T \o W) /\ T \o W \in Seq(OnLine)
    <3>1. (S \o T) \o W = S \o (T \o W)
        BY LineAssoc, Zenon
    <3>2. (R \o T) \o W = R \o (T \o W)
      <4>1. R \in Seq(OnLine)
          BY <1>1
      <4> QED BY <4>1, LineAssoc, Zenon
    <3>3. T \o W \in Seq(OnLine)
        BY LineCat
    <3> QED BY <3>1, <3>2, <3>3, Zenon
  <2>3. Tracking(S \o (T \o W), o)
      BY <2>2
  <2>4. Tracking(R \o (T \o W), o \o ev)
      BY <2>2, <2>3 DEF Decodes, Keeping
  <2>5. Tracking((R \o T) \o W, o \o ev)
      BY <2>2, <2>4
  <2>6. Tracking(R2 \o W, (o \o ev) \o ev2)
      BY <2>1, <2>5 DEF Decodes, Keeping
  <2> QED BY <2>1, <2>6
<1> QED BY <1>1, <1>2, <1>3, <1>4 DEF Decodes

-----------------------------------------------------------------------------
(* Where delimiters may be.                                                *)

LEMMA Cancel ==
    ASSUME NEW A \in Seq(OnLine), NEW B \in Seq(OnLine), NEW C \in Seq(OnLine), NEW D \in Seq(OnLine),
           Same(A, B, C, D), Len(A) = Len(C)
    PROVE  A = C /\ B = D
<1>1. Len(A) \in Nat /\ Len(A) <= Len(C)
    BY LineFacts
<1>2. Between(OnLine, A, B, C, D)
    BY <1>1, Levi
<1>3. PICK M \in Seq(OnLine) : C = A \o M /\ B = M \o D
    BY <1>2 DEF Between
<1>4. Len(A \o M) = Len(A) + Len(M) /\ Len(M) \in Nat
    BY Cat
<1>5. Len(C) = Len(A) + Len(M)
    BY <1>3, <1>4
<1>6. Len(M) = 0
    BY <1>1, <1>4, <1>5
<1>7. M = <<>>
    BY <1>6, EmptySeq
<1>8. C = A \o <<>> /\ B = <<>> \o D
    BY <1>3, <1>7
<1> QED BY <1>8, CatNone

\* The bytes at the same place of a stream cut in two ways.
LEMMA SamePlace ==
    ASSUME NEW A \in Seq(OnLine), NEW B \in Seq(OnLine), NEW C \in Seq(OnLine), NEW D \in Seq(OnLine),
           Same(A, B, C, D)
    PROVE  /\ \A i \in 1 .. Len(A) : i \in 1 .. Len(C) => A[i] = C[i]
           /\ D # <<>> /\ Len(C) < Len(A) => Len(C) + 1 \in 1 .. Len(A) /\ A[Len(C) + 1] = D[1]
<1>1. A \o B = C \o D
    BY DEF Same
<1>2. /\ Len(A) \in Nat /\ Len(B) \in Nat
      /\ \A i \in 1 .. Len(A) : (A \o B)[i] = A[i]
    BY Cat
<1>3. /\ Len(C) \in Nat /\ Len(D) \in Nat
      /\ \A i \in 1 .. Len(C) : (C \o D)[i] = C[i]
      /\ \A i \in 1 .. Len(D) : (C \o D)[Len(C) + i] = D[i]
    BY Cat
<1>4. ASSUME NEW i \in 1 .. Len(A), i \in 1 .. Len(C) PROVE A[i] = C[i]
  <2>1. (A \o B)[i] = A[i] /\ (C \o D)[i] = C[i]
      BY <1>2, <1>3, <1>4
  <2> QED BY <1>1, <2>1
<1>5. ASSUME D # <<>>, Len(C) < Len(A) PROVE Len(C) + 1 \in 1 .. Len(A) /\ A[Len(C) + 1] = D[1]
  <2>1. 1 \in 1 .. Len(D)
      BY <1>3, <1>5, EmptySeq
  <2>2. Len(C) + 1 \in 1 .. Len(A)
      BY <1>2, <1>3, <1>5
  <2>3. (A \o B)[Len(C) + 1] = A[Len(C) + 1] /\ (C \o D)[Len(C) + 1] = D[1]
      BY <1>2, <1>3, <2>1, <2>2
  <2> QED BY <1>1, <2>2, <2>3
<1> QED BY <1>4, <1>5

\* A block before a delimiter is at least as long as any bytes without one.
LEMMA NoZeroIn ==
    ASSUME NEW X \in Seq(OnLine), NEW W \in Seq(OnLine), NEW P \in Seq(OnLine), NEW y \in OnLine,
           NEW B \in Seq(OnLine), \A i \in 1 .. Len(X) : X[i].byte # 0, y.byte = 0,
           Same(X, W, P, <<y>> \o B)
    PROVE  Len(X) <= Len(P)
<1> DEFINE D == <<y>> \o B
<1>1. D \in Seq(OnLine) /\ D # <<>> /\ D[1] = y
  <2>1. /\ <<y>> \in Seq(OnLine) /\ Len(<<y>>) = 1 /\ <<y>>[1] = y
      BY One
  <2>2. /\ D \in Seq(OnLine) /\ Len(D) = Len(<<y>>) + Len(B) /\ Len(B) \in Nat
        /\ \A i \in 1 .. Len(<<y>>) : D[i] = <<y>>[i]
      BY <2>1, Cat
  <2> HIDE DEF D
  <2>3. Len(D) = 1 + Len(B) /\ D[1] = y
      BY <2>1, <2>2
  <2>4. Len(D) # 0
      BY <2>2, <2>3
  <2> QED BY <2>2, <2>3, <2>4, EmptySeq
<1>2. Same(X, W, P, D)
    OBVIOUS
<1> HIDE DEF D
<1>3. Len(X) \in Nat /\ Len(P) \in Nat
    BY LineFacts
<1>4. ~ (Len(P) < Len(X))
  <2> SUFFICES ASSUME Len(P) < Len(X) PROVE FALSE
      OBVIOUS
  <2>1. Len(P) + 1 \in 1 .. Len(X) /\ X[Len(P) + 1] = D[1]
      BY <1>1, <1>2, SamePlace
  <2> QED BY <1>1, <2>1
<1> QED BY <1>3, <1>4

\* No delimiter precedes a frame that begins inside bytes without one.
LEMMA Headless ==
    ASSUME NEW d, d # "tcp", NEW k, NEW X \in Seq(OnLine), NEW W \in Seq(OnLine), NEW A \in Seq(OnLine), NEW Y \in Seq(OnLine),
           Whole(d, X), Same(A, Y, X, W), Ends(d, A, k), Len(A) <= Len(X)
    PROVE  A = <<>>
<1> SUFFICES ASSUME A # <<>> PROVE FALSE
    OBVIOUS
<1>1. Len(A) \in Nat /\ Len(X) \in Nat /\ Len(A) # 0
    BY LineFacts, EmptySeq
<1>2. Len(A) \in 1 .. Len(A) /\ Len(A) \in 1 .. Len(X)
    BY <1>1
<1>3. A[Len(A)] = X[Len(A)]
    BY <1>2, SamePlace
<1>4. A[Len(A)] = [byte |-> 0, frame |-> k - 1]
    BY DEF Ends
<1>5. X[Len(A)].byte # 0
    BY <1>2 DEF Whole
<1>6. A[Len(A)].byte = 0
    BY <1>4
<1> QED BY <1>3, <1>5, <1>6

-----------------------------------------------------------------------------
(* The three things the decoders do with the bytes they do not hold back.  *)

\* The events of a block between two delimiters.
CutEvents(D) == IF D = <<>> THEN <<>> ELSE DecodeBlock(D)

\* One event for the bytes D, and nothing else to keep track of.
LEMMA OneEvent ==
    ASSUME NEW D \in Seq(OnLine), NEW e, Shows(e, D)
    PROVE  /\ <<e>> \in Seq(Event) /\ e \in Event /\ e.bytes = D /\ Within(<<e>>, D)
           /\ \A X \in Seq(OnLine) : Within(<<e>>, D \o X)
           /\ \A o \in Seq(Event) : Flat(o \o <<e>>) = Flat(o) \o D
<1>1. e \in Event /\ e.bytes = D
    BY DEF Shows
<1>2. <<e>> \in Seq(Event) /\ DOMAIN <<e>> = 1 .. 1 /\ <<e>>[1] = e
    BY <1>1, One
<1>3. Within(<<e>>, D)
    BY <1>1, <1>2 DEF Within
<1>4. \A X \in Seq(OnLine) : Within(<<e>>, D \o X)
    BY <1>1, <1>2, FramesCat DEF Within
<1>5. \A o \in Seq(Event) : Flat(o \o <<e>>) = Flat(o) \o D
    BY <1>1, FlatAppend
<1> QED BY <1>1, <1>2, <1>3, <1>4, <1>5

LEMMA NewArrived ==
    ASSUME NEW D \in Seq(OnLine), NEW e, Shows(e, D), NEW k, FramesOf(D) = {k}, NEW body,
           e.kind = "frame", e.body = body, NEW o \in Seq(Event), NoneOf(o, k),
           NEW W, k \notin FramesOf(W)
    PROVE  Arrived(W, o \o <<e>>, body, k)
<1>1. e \in Event /\ e.bytes = D
    BY DEF Shows
<1>2. FramesOf(e.bytes) = {k}
    BY <1>1
<1>3. Only(o \o <<e>>, Len(o) + 1, k, body)
    BY <1>1, <1>2, OnlyNew
<1> QED BY <1>3 DEF Arrived

\* A frame that begins in a block begins with it, and is it.
LEMMA CutFrame ==
    ASSUME dir \in Directions, dir # "tcp", sent \in Seq(Bodies[dir]),
           NEW X \in Seq(OnLine), Whole(dir, X), NEW V \in Seq(OnLine),
           NEW k \in 1 .. Len(sent), Carried(dir, sent[k]), NEW A, NEW B,
           At(dir, X \o V, sent[k], k, A, B), Len(A) <= Len(X)
    PROVE  \E P \in Seq(OnLine) :
              /\ Block(P, sent[k], k) /\ Len(X) <= Len(P) /\ (dir = "down" => Len(P) <= RawCap)
              /\ Same(X, V, P, <<[byte |-> 0, frame |-> k]>> \o B)
              /\ B \in Seq(OnLine) /\ k \notin FramesOf(B) /\ k \in Nat
<1> DEFINE y == [byte |-> 0, frame |-> k]
           E == Frame(dir, sent[k], k)
<1>1. sent[k] \in Bodies[dir] /\ k \in Nat
    BY SentTypes
<1>2. PICK P \in Seq(OnLine) : Block(P, sent[k], k) /\ E = P \o <<y>> /\ (dir = "down" => Len(P) <= RawCap)
    BY <1>1, CobsFrame
<1>3. y \in OnLine /\ y.byte = 0 /\ <<y>> \in Seq(OnLine)
    BY <1>1, ByteSizes DEF OnLine
<1> HIDE DEF E, y
<1>4. /\ A \in Seq(OnLine) /\ B \in Seq(OnLine) /\ X \o V = A \o (E \o B)
      /\ k \notin FramesOf(B) /\ Ends(dir, A, k)
    BY DEF At, E
<1>5. E \in Seq(OnLine) /\ E \o B \in Seq(OnLine)
    BY <1>2, <1>3, <1>4, LineCat
<1>6. A = <<>>
  <2>1. Same(A, E \o B, X, V)
      BY <1>4 DEF Same
  <2> QED BY <1>4, <1>5, <2>1, Headless
<1>7. E \o B = P \o (<<y>> \o B)
  <2>1. (P \o <<y>>) \o B = P \o (<<y>> \o B)
      BY <1>3, <1>4, Assoc
  <2> QED BY <1>2, <2>1
<1>8. Same(X, V, P, <<y>> \o B)
  <2>1. <<>> \o (E \o B) = E \o B
      BY <1>5, CatNone
  <2> QED BY <1>4, <1>6, <1>7, <2>1 DEF Same
<1>9. Len(X) <= Len(P)
  <2>1. \A i \in 1 .. Len(X) : X[i].byte # 0
      BY DEF Whole
  <2> QED BY <1>3, <1>4, <1>8, <2>1, NoZeroIn
<1> QED BY <1>1, <1>2, <1>4, <1>8, <1>9 DEF y

\* A delimiter: what is held is a block.
LEMMA Cut ==
    ASSUME dir \in Directions, dir # "tcp", sent \in Seq(Bodies[dir]),
           NEW D \in Seq(OnLine), Whole(dir, D), NEW z \in OnLine, z.byte = 0
    PROVE  Decodes(D \o <<z>>, CutEvents(D), <<>>)
<1> DEFINE S == D \o <<z>>
           ev == CutEvents(D)
<1>1. <<z>> \in Seq(OnLine) /\ Len(<<z>>) = 1 /\ S \in Seq(OnLine) /\ <<>> \in Seq(OnLine) /\ <<>> \in Seq(Event)
    BY LineCat, One, CatNone
<1>2. Len(D) \in Nat /\ Len(S) = Len(D) + 1
  <2>1. Len(S) = Len(D) + Len(<<z>>) /\ Len(D) \in Nat
      BY <1>1, Cat
  <2> HIDE DEF S
  <2> QED BY <1>1, <2>1
<1>3. PICK e : /\ DecodeBlock(D) = <<e>> /\ Shows(e, D)
               /\ \A x \in Bodies[dir] : Uncobs(Values(D)) = {x} => e.kind = "frame" /\ e.body = x
    BY DecodeShows
<1>4. /\ <<e>> \in Seq(Event) /\ \A X \in Seq(OnLine) : Within(<<e>>, D \o X)
      /\ \A o \in Seq(Event) : Flat(o \o <<e>>) = Flat(o) \o D
    BY <1>3, OneEvent
<1>5. (D = <<>> => ev = <<>>) /\ (D # <<>> => ev = <<e>>)
    BY <1>3 DEF CutEvents
<1>6. ev \in Seq(Event) /\ Within(ev, S)
  <2>1. Within(<<>>, S)
      BY DEF Within
  <2> QED BY <1>1, <1>4, <1>5, <2>1
<1>7. Showing(S, ev, <<>>)
  <2> SUFFICES ASSUME NEW o \in Seq(Event) PROVE Flat(o \o ev) \o <<>> = Flat(o) \o Shown(dir, S)
      BY DEF Showing
  <2>1. Shown(dir, S) = D
    <3>1. Shown(dir, S) = Shown(dir, D) \o Seen(dir, z)
        BY ShownAppend
    <3>2. Seen(dir, z) = <<>> /\ Shown(dir, D) = D
        BY ShownWhole DEF Seen
    <3>3. D \o <<>> = D
        BY CatNone
    <3> QED BY <3>1, <3>2, <3>3
  <2>2. Flat(o \o ev) = Flat(o) \o D
    <3>1. CASE D = <<>>
      <4>1. o \o <<>> = o /\ Flat(o) \in Seq(OnLine)
          BY CatNone, FlatType
      <4>2. Flat(o) \o <<>> = Flat(o)
          BY <4>1, CatNone
      <4> QED BY <1>5, <3>1, <4>1, <4>2
    <3>2. CASE D # <<>>
        BY <1>4, <1>5, <3>2
    <3> QED BY <3>1, <3>2
  <2>3. Flat(o \o ev) \in Seq(OnLine)
    <3> HIDE DEF ev
    <3> QED BY <1>6, EventsCat, FlatType
  <2>4. Flat(o \o ev) \o <<>> = Flat(o \o ev)
      BY <2>3, CatNone
  <2> HIDE DEF S, ev
  <2> QED BY <2>1, <2>2, <2>4
<1>8. Keeping(S, ev, <<>>)
  <2> SUFFICES ASSUME NEW o \in Seq(Event), NEW W \in Seq(OnLine), Tracking(S \o W, o)
               PROVE  Tracking(<<>> \o W, o \o ev)
      BY DEF Keeping
  <2>1. ASSUME NEW k \in (1 .. Len(sent)) \ hurt, NEW A, NEW B,
               Carried(dir, sent[k]), NoneOf(o, k), At(dir, S \o W, sent[k], k, A, B), Len(A) < Len(S)
        PROVE  Arrived(W, o \o ev, sent[k], k)
    <3> DEFINE y == [byte |-> 0, frame |-> k]
    <3>1. S \o W = D \o (<<z>> \o W) /\ <<z>> \o W \in Seq(OnLine)
        BY <1>1, Assoc, LineCat
    <3>2. Len(A) <= Len(D)
      <4>1. Len(A) \in Nat
          BY <2>1, LineFacts DEF At
      <4> QED BY <1>2, <2>1, <4>1
    <3>3. At(dir, D \o (<<z>> \o W), sent[k], k, A, B)
        BY <2>1, <3>1
    <3>4. PICK P \in Seq(OnLine) :
              /\ Block(P, sent[k], k) /\ Len(D) <= Len(P) /\ (dir = "down" => Len(P) <= RawCap)
              /\ Same(D, <<z>> \o W, P, <<y>> \o B)
              /\ B \in Seq(OnLine) /\ k \notin FramesOf(B) /\ k \in Nat
        BY <2>1, <3>1, <3>2, <3>3, CutFrame
    <3>5. y \in OnLine /\ <<y>> \in Seq(OnLine) /\ <<y>> \o B \in Seq(OnLine)
      <4>1. y \in OnLine
          BY <3>4, ByteSizes DEF OnLine
      <4> HIDE DEF y
      <4> QED BY <3>4, <4>1, One, LineCat
    <3> HIDE DEF y
    <3>6. Len(P) <= Len(D)
      <4>1. Same(P, <<y>> \o B, D, <<z>> \o W)
          BY <3>4 DEF Same
      <4>2. \A i \in 1 .. Len(P) : P[i].byte # 0
          BY <3>4 DEF Block
      <4> QED BY <3>4, <3>5, <4>1, <4>2, NoZeroIn
    <3>7. Len(P) = Len(D)
      <4>1. Len(P) \in Nat
          BY LineFacts
      <4> QED BY <1>2, <3>4, <3>6, <4>1
    <3>8. D = P /\ <<z>> \o W = <<y>> \o B
        BY <3>1, <3>4, <3>5, <3>7, Cancel
    <3>9. W = B
      <4>1. Same(<<z>>, W, <<y>>, B)
          BY <3>8 DEF Same
      <4>2. Len(<<z>>) = Len(<<y>>)
          BY <1>1, <3>5, One
      <4> QED BY <1>1, <3>4, <3>5, <4>1, <4>2, Cancel
    <3>10. D # <<>> /\ FramesOf(D) = {k} /\ Uncobs(Values(D)) = {sent[k]}
        BY <3>4, <3>8 DEF Block
    <3>11. sent[k] \in Bodies[dir]
        BY <2>1, SentTypes
    <3>12. e.kind = "frame" /\ e.body = sent[k]
        BY <1>3, <3>10, <3>11
    <3>13. Arrived(W, o \o <<e>>, sent[k], k)
      <4>1. NoneOf(o, k) /\ k \notin FramesOf(W)
          BY <2>1, <3>4, <3>9
      <4> QED BY <1>3, <3>10, <3>12, <4>1, NewArrived
    <3> QED BY <1>5, <3>10, <3>13
  <2> HIDE DEF S, ev
  <2>2. Tracking(W, o \o ev)
      BY <1>1, <1>6, <2>1, Consume
  <2>3. <<>> \o W = W
      BY CatNone
  <2> QED BY <2>2, <2>3
<1>9. Whole(dir, <<>>)
    BY DEF Whole
<1> HIDE DEF S, ev
<1>10. Decodes(S, ev, <<>>)
    BY <1>1, <1>6, <1>7, <1>8, <1>9 DEF Decodes
<1> QED BY <1>10 DEF S, ev

\* The buffer of the board is full: no frame is in it.
LEMMA Spill ==
    ASSUME dir \in Directions, dir = "down", sent \in Seq(Bodies[dir]),
           NEW D \in Seq(OnLine), Whole(dir, D), Len(D) >= RawCap, NEW t \in OnLine, t.byte # 0
    PROVE  Decodes(D \o <<t>>, Raw(D), <<t>>)
<1> DEFINE S == D \o <<t>>
<1>1. <<t>> \in Seq(OnLine) /\ Len(<<t>>) = 1 /\ <<t>>[1] = t /\ S \in Seq(OnLine)
    BY LineCat, One
<1>2. /\ Len(D) \in Nat /\ Len(S) = Len(D) + 1
      /\ \A i \in 1 .. Len(D) : S[i] = D[i]
      /\ S[Len(D) + 1] = t
  <2>1. /\ Len(S) = Len(D) + Len(<<t>>) /\ Len(D) \in Nat
        /\ \A i \in 1 .. Len(D) : S[i] = D[i]
        /\ \A i \in 1 .. Len(<<t>>) : S[Len(D) + i] = <<t>>[i]
      BY <1>1, Cat
  <2> HIDE DEF S
  <2> QED BY <1>1, <2>1
<1>3. PICK e : Raw(D) = <<e>> /\ Shows(e, D)
    BY RawShows
<1>4. /\ <<e>> \in Seq(Event) /\ Within(<<e>>, D)
      /\ \A o \in Seq(Event) : Flat(o \o <<e>>) = Flat(o) \o D
    BY <1>3, OneEvent
<1>5. Whole(dir, <<t>>)
    BY <1>1 DEF Whole
<1>6. Whole(dir, S)
  <2> HIDE DEF S
  <2>1. ASSUME NEW i \in 1 .. Len(S) PROVE S[i].byte # 0
    <3>1. CASE i = Len(D) + 1
        BY <1>2, <3>1
    <3>2. CASE i # Len(D) + 1
      <4>1. i \in 1 .. Len(D)
          BY <1>2, <3>2
      <4> QED BY <1>2, <4>1 DEF Whole
    <3> QED BY <3>1, <3>2
  <2> QED BY <2>1 DEF Whole
<1>7. Showing(S, <<e>>, <<t>>)
  <2> SUFFICES ASSUME NEW o \in Seq(Event) PROVE Flat(o \o <<e>>) \o <<t>> = Flat(o) \o Shown(dir, S)
      BY DEF Showing
  <2>1. Shown(dir, S) = S
      BY <1>1, <1>6, ShownWhole
  <2>2. Flat(o) \in Seq(OnLine) /\ Flat(o \o <<e>>) = Flat(o) \o D
      BY <1>4, FlatType
  <2>3. (Flat(o) \o D) \o <<t>> = Flat(o) \o (D \o <<t>>)
      BY <1>1, <2>2, Assoc
  <2> QED BY <2>1, <2>2, <2>3
<1>8. Keeping(S, <<e>>, <<t>>)
  <2> SUFFICES ASSUME NEW o \in Seq(Event), NEW W \in Seq(OnLine), Tracking(S \o W, o)
               PROVE  Tracking(<<t>> \o W, o \o <<e>>)
      BY DEF Keeping
  <2>1. S \o W = D \o (<<t>> \o W) /\ <<t>> \o W \in Seq(OnLine)
      BY <1>1, Assoc, LineCat
  <2>2. Tracking(D \o (<<t>> \o W), o)
      BY <2>1
  <2>3. ASSUME NEW k \in (1 .. Len(sent)) \ hurt, NEW A, NEW B,
               Carried(dir, sent[k]), NoneOf(o, k), At(dir, D \o (<<t>> \o W), sent[k], k, A, B), Len(A) < Len(D)
        PROVE  FALSE
    <3>1. At(dir, S \o W, sent[k], k, A, B)
        BY <2>1, <2>3
    <3>2. Len(A) <= Len(S)
      <4>1. Len(A) \in Nat
          BY <2>3, LineFacts DEF At
      <4> QED BY <1>2, <2>3, <4>1
    <3> HIDE DEF S
    <3>3. PICK P \in Seq(OnLine) :
              /\ Block(P, sent[k], k) /\ Len(S) <= Len(P) /\ (dir = "down" => Len(P) <= RawCap)
              /\ Same(S, W, P, <<[byte |-> 0, frame |-> k]>> \o B)
              /\ B \in Seq(OnLine) /\ k \notin FramesOf(B) /\ k \in Nat
        BY <1>1, <1>6, <2>3, <3>1, <3>2, CutFrame
    <3>4. Len(P) \in Nat /\ RawCap \in Nat
        BY LineFacts, CodecAssumption
    <3> QED BY <1>2, <3>3, <3>4
  <2>4. \A k \in (1 .. Len(sent)) \ hurt : \A A, B :
            Carried(dir, sent[k]) /\ NoneOf(o, k) /\ At(dir, D \o (<<t>> \o W), sent[k], k, A, B) /\ Len(A) < Len(D)
               => Arrived(<<t>> \o W, o \o <<e>>, sent[k], k)
      BY <2>3
  <2> DEFINE R == <<t>> \o W
             ev == <<e>>
  <2>5. R \in Seq(OnLine) /\ ev \in Seq(Event) /\ Within(ev, D) /\ Tracking(D \o R, o)
      BY <1>4, <2>1, <2>2
  <2> HIDE DEF R, ev
  <2>6. Tracking(R, o \o ev)
    <3>1. \A k \in (1 .. Len(sent)) \ hurt : \A A, B :
            Carried(dir, sent[k]) /\ NoneOf(o, k) /\ At(dir, D \o R, sent[k], k, A, B) /\ Len(A) < Len(D)
               => Arrived(R, o \o ev, sent[k], k)
        BY <2>4 DEF R, ev
    <3> QED BY <2>5, <3>1, Consume
  <2> QED BY <2>6 DEF R, ev
<1> HIDE DEF S
<1>9. Decodes(S, <<e>>, <<t>>)
    BY <1>1, <1>4, <1>5, <1>7, <1>8 DEF Decodes
<1> QED BY <1>3, <1>9 DEF S

\* The events of a message.
MessageEvents(D) ==
    LET body == SubSeq(Values(D), 3, Len(D))
    IN  IF Parses(body) THEN Decoded(body, D) ELSE Raw(D)

LEMMA MessageShows ==
    ASSUME NEW D \in Seq(OnLine), Len(D) >= 2
    PROVE  \E e : /\ MessageEvents(D) = <<e>> /\ Shows(e, D)
                  /\ \A x \in Bodies[dir] :
                        SubSeq(Values(D), 3, Len(D)) = x => e.kind = "frame" /\ e.body = x
<1> DEFINE x == SubSeq(Values(D), 3, Len(D))
<1>1. x \in Seq(Byte)
  <2>1. Values(D) \in Seq(Byte) /\ Len(Values(D)) = Len(D) /\ Len(D) \in Nat
      BY ValuesType, LineFacts
  <2>2. 3 \in 1 .. Len(Values(D)) + 1 /\ Len(D) \in 3 - 1 .. Len(Values(D))
      BY <2>1
  <2> QED BY <2>1, <2>2, Part
<1>2. PICK e : Raw(D) = <<e>> /\ Shows(e, D)
    BY RawShows
<1>3. PICK f : Decoded(x, D) = <<f>> /\ Shows(f, D) /\ f.kind = "frame" /\ f.body = x
    BY <1>1, DecodedShows
<1>4. MessageEvents(D) = IF Parses(x) THEN Decoded(x, D) ELSE Raw(D)
    BY DEF MessageEvents
<1> HIDE DEF x
<1>5. CASE Parses(x)
  <2>1. MessageEvents(D) = <<f>> /\ Shows(f, D) /\ \A v \in Bodies[dir] : x = v => f.kind = "frame" /\ f.body = v
      BY <1>3, <1>4, <1>5
  <2> QED BY <2>1 DEF x
<1>6. CASE ~ Parses(x)
  <2>1. MessageEvents(D) = <<e>> /\ Shows(e, D) /\ \A v \in Bodies[dir] : x = v => e.kind = "frame" /\ e.body = v
      BY <1>2, <1>4, <1>6 DEF Parses
  <2> QED BY <2>1 DEF x
<1> QED BY <1>5, <1>6

LEMMA MessageType ==
    ASSUME NEW D \in Seq(OnLine), NEW body, NEW k, Message(D, body, k)
    PROVE  /\ Len(D) >= 2 /\ 1 \in 1 .. Len(D) /\ 2 \in 1 .. Len(D)
           /\ Len(D) = 2 + (D[1].byte * (MaxByte + 1)) + D[2].byte
           /\ FramesOf(D) = {k} /\ SubSeq(Values(D), 3, Len(D)) = body
<1>1. Len(D) = 2 + Len(body) /\ Len(body) \in Nat
    BY DEF Message
<1>2. Len(D) >= 2 /\ 1 \in 1 .. Len(D) /\ 2 \in 1 .. Len(D)
    BY <1>1
<1>3. D[1].byte \in Nat /\ D[2].byte \in Nat /\ MaxByte + 1 \in Nat
    BY <1>2, LineFacts, ByteSizes DEF Byte
<1>4. Len(D) = 2 + (D[1].byte * (MaxByte + 1)) + D[2].byte
  <2> DEFINE p == D[1].byte * (MaxByte + 1)
             q == D[2].byte
  <2>1. p \in Nat /\ q \in Nat
      BY <1>3
  <2>2. p + q = Len(body)
      BY DEF Message
  <2> HIDE DEF p, q
  <2>3. Len(D) = 2 + p + q
      BY <1>1, <2>1, <2>2
  <2> QED BY <2>3 DEF p, q
<1>5. FramesOf(D) = {k}
  <2>1. \A i \in 1 .. Len(D) : D[i].frame = k
      BY DEF Message
  <2>2. ASSUME NEW x PROVE x \in FramesOf(D) <=> x = k
    <3>1. x \in FramesOf(D) <=> \E i \in 1 .. Len(D) : D[i].frame = x
        BY FramesIn
    <3> QED BY <1>2, <2>1, <3>1
  <2> QED BY <2>2
<1>6. SubSeq(Values(D), 3, Len(D)) = body
    BY DEF Message
<1> QED BY <1>2, <1>4, <1>5, <1>6

\* The first bytes of a stream, cut in two ways.
LEMMA SameStart ==
    ASSUME NEW A \in Seq(OnLine), NEW B \in Seq(OnLine), NEW C \in Seq(OnLine), NEW D \in Seq(OnLine),
           Same(A, B, C, D), Len(A) >= 2, Len(C) >= 2
    PROVE  A[1] = C[1] /\ A[2] = C[2]
<1>1. Len(A) \in Nat /\ Len(C) \in Nat
    BY LineFacts
<1>2. 1 \in 1 .. Len(A) /\ 1 \in 1 .. Len(C) /\ 2 \in 1 .. Len(A) /\ 2 \in 1 .. Len(C)
    BY <1>1
<1>3. \A i \in 1 .. Len(A) : i \in 1 .. Len(C) => A[i] = C[i]
    BY SamePlace
<1> QED BY <1>2, <1>3

\* A message of as many bytes as its first two say.
LEMMA WholeMessage ==
    ASSUME dir \in Directions, dir = "tcp", sent \in Seq(Bodies[dir]),
           NEW D \in Seq(OnLine), Len(D) >= 2,
           Len(D) = 2 + (D[1].byte * (MaxByte + 1)) + D[2].byte
    PROVE  Decodes(D, MessageEvents(D), <<>>)
<1>1. Len(D) \in Nat /\ 1 \in 1 .. Len(D) /\ <<>> \in Seq(OnLine)
    BY LineFacts, CatNone
<1>2. PICK e : /\ MessageEvents(D) = <<e>> /\ Shows(e, D)
               /\ \A x \in Bodies[dir] :
                     SubSeq(Values(D), 3, Len(D)) = x => e.kind = "frame" /\ e.body = x
    BY MessageShows
<1>3. /\ <<e>> \in Seq(Event) /\ Within(<<e>>, D)
      /\ \A o \in Seq(Event) : Flat(o \o <<e>>) = Flat(o) \o D
    BY <1>2, OneEvent
<1>4. Whole(dir, <<>>) /\ Whole(dir, D)
    BY DEF Whole
<1>5. Showing(D, <<e>>, <<>>)
  <2> SUFFICES ASSUME NEW o \in Seq(Event) PROVE Flat(o \o <<e>>) \o <<>> = Flat(o) \o Shown(dir, D)
      BY DEF Showing
  <2>1. Shown(dir, D) = D
      BY <1>4, ShownWhole
  <2>2. Flat(o) \in Seq(OnLine) /\ Flat(o \o <<e>>) = Flat(o) \o D
      BY <1>3, FlatType
  <2>3. Flat(o) \o D \in Seq(OnLine)
      BY <2>2, LineCat
  <2>4. (Flat(o) \o D) \o <<>> = Flat(o) \o D
      BY <2>3, CatNone
  <2> QED BY <2>1, <2>2, <2>4
<1>6. Keeping(D, <<e>>, <<>>)
  <2> SUFFICES ASSUME NEW o \in Seq(Event), NEW W \in Seq(OnLine), Tracking(D \o W, o)
               PROVE  Tracking(<<>> \o W, o \o <<e>>)
      BY DEF Keeping
  <2> DEFINE S == D \o W
             k1 == D[1].frame
  <2>1. S \in Seq(OnLine) /\ FramesOf(S) = FramesOf(D) \cup FramesOf(W) /\ Len(S) \in Nat
      BY LineCat, FramesCat, LineFacts
  <2>2. k1 \in FramesOf(D)
      BY <1>1, FramesIn
  <2>3. k1 \in 1 .. Len(sent) /\ hurt = {}
      BY <2>1, <2>2 DEF Tracking, Chain
  <2>4. sent[k1] \in Bodies["tcp"] /\ k1 \in Nat /\ "tcp" \in Directions
    <3> HIDE DEF k1
    <3> QED BY <2>3, SentTypes
  <2> HIDE DEF k1
  <2>5. Pending(dir, S, o, sent[k1], k1)
    <3>1. Carried(dir, sent[k1])
        BY DEF Carried
    <3>2. Pending(dir, S, o, sent[k1], k1) \/ Arrived(S, o, sent[k1], k1)
        BY <2>3, <3>1 DEF Tracking, Tracked
    <3>3. ~ Arrived(S, o, sent[k1], k1)
        BY <2>1, <2>2 DEF Arrived
    <3> QED BY <3>2, <3>3
  <2>6. PICK A, B : At(dir, S, sent[k1], k1, A, B)
      BY <2>5 DEF Pending
  <2> DEFINE E == Frame("tcp", sent[k1], k1)
  <2>7. Message(E, sent[k1], k1) /\ E \in Seq(OnLine)
      BY <2>4, TcpFrame, FrameType
  <2>8. /\ A \in Seq(OnLine) /\ B \in Seq(OnLine) /\ S = A \o (E \o B)
        /\ k1 \notin FramesOf(A) /\ k1 \notin FramesOf(B)
      BY <2>6 DEF At
  <2> HIDE DEF E
  <2>9. A = <<>>
    <3> SUFFICES ASSUME A # <<>> PROVE FALSE
        OBVIOUS
    <3>1. Len(A) \in Nat /\ Len(A) # 0
        BY <2>8, LineFacts, EmptySeq
    <3>2. 1 \in 1 .. Len(A)
        BY <3>1
    <3>3. Same(A, E \o B, D, W) /\ E \o B \in Seq(OnLine)
        BY <2>7, <2>8, LineCat DEF Same
    <3>4. A[1] = D[1]
        BY <1>1, <2>8, <3>2, <3>3, SamePlace
    <3>5. k1 \in FramesOf(A)
        BY <2>8, <3>2, <3>4, FramesIn DEF k1
    <3> QED BY <2>8, <3>5
  <2>10. Same(D, W, E, B)
    <3>1. E \o B \in Seq(OnLine)
        BY <2>7, <2>8, LineCat
    <3>2. <<>> \o (E \o B) = E \o B
        BY <3>1, CatNone
    <3> QED BY <2>8, <2>9, <3>2 DEF Same
  <2>11. /\ Len(E) >= 2 /\ Len(E) = 2 + (E[1].byte * (MaxByte + 1)) + E[2].byte
         /\ FramesOf(E) = {k1} /\ SubSeq(Values(E), 3, Len(E)) = sent[k1]
      BY <2>7, MessageType
  <2>12. Len(D) = Len(E)
    <3>1. D[1] = E[1] /\ D[2] = E[2]
        BY <2>7, <2>8, <2>10, <2>11, SameStart
    <3> QED BY <2>11, <3>1
  <2>13. D = E /\ W = B
      BY <2>7, <2>8, <2>10, <2>12, Cancel
  <2>14. e.kind = "frame" /\ e.body = sent[k1] /\ FramesOf(D) = {k1} /\ k1 \notin FramesOf(W)
      BY <1>2, <2>4, <2>8, <2>11, <2>13
  <2>15. ASSUME NEW k \in (1 .. Len(sent)) \ hurt, NEW A1, NEW B1,
                Carried(dir, sent[k]), NoneOf(o, k), At(dir, S, sent[k], k, A1, B1), Len(A1) < Len(D)
         PROVE  Arrived(W, o \o <<e>>, sent[k], k)
    <3>1. CASE k = k1
        BY <1>2, <2>14, <2>15, <3>1, NewArrived
    <3>2. CASE k # k1
      <4> DEFINE F == Frame("tcp", sent[k], k)
      <4>1. sent[k] \in Bodies["tcp"] /\ k \in Nat
          BY <2>15, SentTypes
      <4>2. Message(F, sent[k], k) /\ F \in Seq(OnLine)
          BY <2>4, <4>1, TcpFrame, FrameType
      <4>3. A1 \in Seq(OnLine) /\ B1 \in Seq(OnLine) /\ S = A1 \o (F \o B1)
          BY <2>15 DEF At
      <4> HIDE DEF F
      <4>4. 1 \in 1 .. Len(F) /\ Len(F) >= 2 /\ FramesOf(F) = {k}
          BY <4>2, MessageType
      <4> DEFINE Y == F \o B1
      <4>5. Y \in Seq(OnLine) /\ Y # <<>> /\ Y[1] = F[1]
        <5>1. /\ Y \in Seq(OnLine) /\ Len(Y) = Len(F) + Len(B1) /\ Len(B1) \in Nat /\ Len(F) \in Nat
              /\ \A i \in 1 .. Len(F) : Y[i] = F[i]
            BY <4>2, <4>3, Cat
        <5> HIDE DEF Y
        <5>2. Len(Y) # 0
            BY <4>4, <5>1
        <5> QED BY <4>4, <5>1, <5>2, EmptySeq
      <4>6. Same(D, W, A1, Y)
          BY <4>3 DEF Same
      <4> HIDE DEF Y
      <4>7. Len(A1) + 1 \in 1 .. Len(D) /\ D[Len(A1) + 1] = Y[1]
          BY <2>15, <4>3, <4>5, <4>6, SamePlace
      <4>8. F[1].frame = k
          BY <4>2, <4>4 DEF Message
      <4>9. k \in FramesOf(D)
          BY <4>5, <4>7, <4>8, FramesIn
      <4> QED BY <2>14, <3>2, <4>9
    <3> QED BY <3>1, <3>2
  <2> HIDE DEF S
  <2> DEFINE ev == <<e>>
  <2>16. ev \in Seq(Event) /\ Within(ev, D)
      BY <1>3
  <2>17. Tracking(D \o W, o)
      OBVIOUS
  <2>18. \A k \in (1 .. Len(sent)) \ hurt : \A A1, B1 :
            Carried(dir, sent[k]) /\ NoneOf(o, k) /\ At(dir, D \o W, sent[k], k, A1, B1) /\ Len(A1) < Len(D)
               => Arrived(W, o \o ev, sent[k], k)
      BY <2>15 DEF S
  <2> HIDE DEF ev
  <2>19. Tracking(W, o \o ev)
      BY <2>16, <2>17, <2>18, Consume
  <2>20. <<>> \o W = W
      BY CatNone
  <2> QED BY <2>19, <2>20 DEF ev
<1>7. Decodes(D, <<e>>, <<>>)
    BY <1>1, <1>3, <1>4, <1>5, <1>6 DEF Decodes
<1> QED BY <1>2, <1>7

-----------------------------------------------------------------------------
(* The decoders.                                                           *)

Held == [events : Seq(Event), rest : Seq(OnLine)]

LEMMA HeldIs == \A ev \in Seq(Event), r \in Seq(OnLine) : [events |-> ev, rest |-> r] \in Held
BY DEF Held

LEMMA HeldHas == \A h \in Held : h.events \in Seq(Event) /\ h.rest \in Seq(OnLine)
BY DEF Held

LEMMA CutType ==
    ASSUME NEW D \in Seq(OnLine)
    PROVE  CutEvents(D) \in Seq(Event)
<1>1. PICK e : /\ DecodeBlock(D) = <<e>> /\ Shows(e, D)
               /\ \A x \in Bodies[dir] : Uncobs(Values(D)) = {x} => e.kind = "frame" /\ e.body = x
    BY DecodeShows
<1>2. <<e>> \in Seq(Event) /\ <<>> \in Seq(Event)
    BY <1>1, OneEvent, CatNone
<1> QED BY <1>1, <1>2 DEF CutEvents

LEMMA ZerosAre ==
    ASSUME NEW s \in Seq(OnLine), NEW i \in 1 .. Len(s) + 1
    PROVE  LET Z == ZerosFrom(Values(s), i)
           IN  /\ Z = {} => \A j \in i .. Len(s) : s[j].byte # 0
               /\ Z # {} => /\ First(Z) \in i .. Len(s) /\ s[First(Z)].byte = 0
                            /\ \A j \in i .. First(Z) - 1 : s[j].byte # 0
<1> DEFINE Z == ZerosFrom(Values(s), i)
           v == Values(s)
           n == Len(s)
<1>1. n \in Nat /\ Len(v) = n /\ i \in Nat /\ \A j \in 1 .. n : v[j] = s[j].byte
    BY ValuesType, LineFacts
<1>2. Z = {j \in i .. Len(v) : v[j] = 0}
    BY DEF ZerosFrom
<1>3. \A j : j \in Z <=> j \in i .. n /\ s[j].byte = 0
  <2> HIDE DEF v, n
  <2>1. \A j \in i .. n : j \in 1 .. n
      BY <1>1 DEF n
  <2> QED BY <1>1, <1>2, <2>1
<1> HIDE DEF Z, v, n
<1>4. ASSUME Z = {} PROVE \A j \in i .. n : s[j].byte # 0
    BY <1>3, <1>4
<1>5. ASSUME Z # {}
      PROVE  First(Z) \in i .. n /\ s[First(Z)].byte = 0 /\ \A j \in i .. First(Z) - 1 : s[j].byte # 0
  <2>1. Z \in SUBSET Nat
      BY <1>1, <1>3
  <2>2. First(Z) \in Z /\ \A j \in Z : First(Z) <= j
      BY <1>5, <2>1, FirstIs
  <2>3. First(Z) \in i .. n /\ s[First(Z)].byte = 0
      BY <1>3, <2>2
  <2>4. ASSUME NEW j \in i .. First(Z) - 1 PROVE s[j].byte # 0
    <3>1. j \in i .. n /\ ~(First(Z) <= j)
        BY <1>1, <2>3
    <3> QED BY <1>3, <2>2, <3>1
  <2> QED BY <2>3, <2>4
<1> QED BY <1>4, <1>5 DEF Z, n

\* StreamingDecoder from position i on, when g tells the later ones.
Cuts(s, g, i) ==
    LET n == Len(s)
        zeros == ZerosFrom(Values(s), i)
        d == First(zeros)
    IN  IF zeros = {} THEN [events |-> <<>>, rest |-> SubSeq(s, i, n)]
        ELSE [events |-> (IF d = i THEN <<>> ELSE DecodeBlock(SubSeq(s, i, d - 1))) \o g[d + 1].events,
              rest |-> g[d + 1].rest]

CobsFrom(s, g) == g = [i \in 1 .. Len(s) + 1 |-> Cuts(s, g, i)]

\* The same, with the delimiter named.
LEMMA CutsAs ==
    ASSUME NEW s \in Seq(OnLine), NEW i \in 1 .. Len(s) + 1
    PROVE  \/ /\ \A j \in i .. Len(s) : s[j].byte # 0
              /\ \A g : Cuts(s, g, i) = [events |-> <<>>, rest |-> SubSeq(s, i, Len(s))]
           \/ \E d \in i .. Len(s) :
                 /\ s[d].byte = 0 /\ d + 1 \in i + 1 .. Len(s) + 1
                 /\ \A j \in i .. d - 1 : s[j].byte # 0
                 /\ \A g : Cuts(s, g, i) = [events |-> CutEvents(SubSeq(s, i, d - 1)) \o g[d + 1].events,
                                            rest |-> g[d + 1].rest]
<1> DEFINE Z == ZerosFrom(Values(s), i)
           d == First(Z)
           D == SubSeq(s, i, d - 1)
<1>1. CASE Z = {}
  <2>1. \A j \in i .. Len(s) : s[j].byte # 0
      BY <1>1, ZerosAre
  <2>2. \A g : Cuts(s, g, i) = [events |-> <<>>, rest |-> SubSeq(s, i, Len(s))]
      BY <1>1 DEF Cuts
  <2> QED BY <2>1, <2>2
<1>2. CASE Z # {}
  <2>1. d \in i .. Len(s) /\ s[d].byte = 0 /\ \A j \in i .. d - 1 : s[j].byte # 0
      BY <1>2, ZerosAre
  <2>2. \A g : Cuts(s, g, i) = [events |-> (IF d = i THEN <<>> ELSE DecodeBlock(D)) \o g[d + 1].events,
                                rest |-> g[d + 1].rest]
      BY <1>2 DEF Cuts
  <2> HIDE DEF d
  <2>3. Len(s) \in Nat /\ i \in Nat /\ d \in Nat
      BY <2>1, LineFacts
  <2>4. d + 1 \in i + 1 .. Len(s) + 1 /\ d - 1 \in i - 1 .. Len(s)
      BY <2>1, <2>3
  <2>5. D \in Seq(OnLine) /\ Len(D) = ((d - 1) - i) + 1
      BY <2>4, Part
  <2>6. D = <<>> <=> d = i
    <3> HIDE DEF D
    <3>1. D = <<>> <=> Len(D) = 0
        BY <2>5, EmptySeq
    <3> QED BY <2>3, <2>5, <3>1
  <2>7. (IF d = i THEN <<>> ELSE DecodeBlock(D)) = CutEvents(D)
      BY <2>6 DEF CutEvents
  <2>8. \A g : Cuts(s, g, i) = [events |-> CutEvents(D) \o g[d + 1].events, rest |-> g[d + 1].rest]
      BY <2>2, <2>7
  <2> QED BY <2>1, <2>4, <2>8
<1> QED BY <1>1, <1>2

LEMMA CutsLater ==
    ASSUME NEW s \in Seq(OnLine), NEW i \in 1 .. Len(s) + 1, NEW g \in [1 .. Len(s) + 1 -> Held]
    PROVE  /\ Cuts(s, g, i) \in Held
           /\ \A h \in [1 .. Len(s) + 1 -> Held] :
                 (\A j \in i + 1 .. Len(s) + 1 : g[j] = h[j]) => Cuts(s, g, i) = Cuts(s, h, i)
<1>1. Len(s) \in Nat /\ i \in Nat
    BY LineFacts
<1>2. CASE \A h : Cuts(s, h, i) = [events |-> <<>>, rest |-> SubSeq(s, i, Len(s))]
  <2>1. SubSeq(s, i, Len(s)) \in Seq(OnLine)
    <3>1. Len(s) \in i - 1 .. Len(s)
        BY <1>1
    <3> QED BY <3>1, Part
  <2>2. Cuts(s, g, i) \in Held
    <3>1. [events |-> <<>>, rest |-> SubSeq(s, i, Len(s))] \in Held
        BY <2>1, CatNone, HeldIs
    <3> QED BY <1>2, <3>1, Zenon
  <2> QED BY <1>2, <2>2
<1>3. ASSUME NEW d \in i .. Len(s), d + 1 \in i + 1 .. Len(s) + 1,
             \A h : Cuts(s, h, i) = [events |-> CutEvents(SubSeq(s, i, d - 1)) \o h[d + 1].events,
                                     rest |-> h[d + 1].rest]
      PROVE  /\ Cuts(s, g, i) \in Held
             /\ \A h \in [1 .. Len(s) + 1 -> Held] :
                   (\A j \in i + 1 .. Len(s) + 1 : g[j] = h[j]) => Cuts(s, g, i) = Cuts(s, h, i)
  <2> DEFINE c == CutEvents(SubSeq(s, i, d - 1))
  <2>1. c \in Seq(Event)
    <3>1. d - 1 \in i - 1 .. Len(s)
        BY <1>1, <1>3
    <3>2. SubSeq(s, i, d - 1) \in Seq(OnLine)
        BY <3>1, Part
    <3> QED BY <3>2, CutType
  <2>2. \A h : Cuts(s, h, i) = [events |-> c \o h[d + 1].events, rest |-> h[d + 1].rest]
      BY <1>3
  <2> HIDE DEF c
  <2>3. g[d + 1] \in Held
    <3>1. d + 1 \in 1 .. Len(s) + 1
        BY <1>1, <1>3
    <3> QED BY <3>1
  <2>4. Cuts(s, g, i) \in Held
      BY <2>1, <2>2, <2>3, HeldHas, HeldIs, EventsCat
  <2>5. ASSUME NEW h \in [1 .. Len(s) + 1 -> Held], \A j \in i + 1 .. Len(s) + 1 : g[j] = h[j]
        PROVE  Cuts(s, g, i) = Cuts(s, h, i)
    <3>1. g[d + 1] = h[d + 1]
        BY <1>3, <2>5
    <3> QED BY <2>2, <3>1
  <2> QED BY <2>4, <2>5
<1> QED BY <1>2, <1>3, CutsAs

LEMMA CobsExists ==
    ASSUME NEW s \in Seq(OnLine)
    PROVE  \E g : CobsFrom(s, g)
<1> DEFINE m == Len(s) + 1
           G == [1 .. m -> Held]
           F == [g \in G |-> [i \in 1 .. m |-> Cuts(s, g, i)]]
<1>1. m \in Nat
    BY LineFacts
<1>2. \A g \in G : \A i \in 1 .. m : Cuts(s, g, i) \in Held
    BY CutsLater
<1>3. \A g, h \in G : \A i \in 1 .. m :
          (\A j \in i + 1 .. m : g[j] = h[j]) => Cuts(s, g, i) = Cuts(s, h, i)
    BY CutsLater
<1>4. [events |-> <<>>, rest |-> <<>>] \in Held
    BY CatNone, HeldIs
<1>5. Looks(m, Held, F)
  <2> HIDE DEF m
  <2>1. F \in [G -> G]
      BY <1>2
  <2> QED BY <1>3, <2>1 DEF Looks
<1> HIDE DEF F, m
<1>6. PICK g \in G : g = F[g]
    BY <1>1, <1>4, <1>5, FixedPoint
<1>7. CobsFrom(s, g)
    BY <1>6 DEF F, CobsFrom, m
<1> QED BY <1>7

LEMMA CobsAs ==
    ASSUME NEW s \in Seq(OnLine)
    PROVE  \E g : CobsFrom(s, g) /\ CobsFeed(s) = g[1]
<1> DEFINE g == CHOOSE h : CobsFrom(s, h)
<1>1. CobsFrom(s, g)
    BY CobsExists
<1>2. CobsFeed(s) = g[1]
    BY DEF CobsFeed, CobsFrom, Cuts
<1> QED BY <1>1, <1>2

LEMMA CobsDecodes ==
    ASSUME dir \in Directions, dir # "tcp", sent \in Seq(Bodies[dir]), NEW s \in Seq(OnLine)
    PROVE  Decodes(s, CobsFeed(s).events, CobsFeed(s).rest)
<1> DEFINE n == Len(s)
           m == n + 1
<1>1. n \in Nat /\ m \in Nat /\ 1 \in 1 .. m
    BY LineFacts
<1>2. PICK g : CobsFrom(s, g) /\ CobsFeed(s) = g[1]
    BY CobsAs
<1> DEFINE Q(i) == Decodes(SubSeq(s, i, n), g[i].events, g[i].rest)
           S == {i \in 1 .. m : Q(i)}
<1>3. ASSUME NEW i \in 1 .. m, \A j \in i + 1 .. m : j \in S PROVE i \in S
  <2>1. i \in Nat /\ n \in i - 1 .. n /\ SubSeq(s, i, n) \in Seq(OnLine)
    <3>1. i \in Nat /\ n \in i - 1 .. n
        BY <1>1, <1>3
    <3> QED BY <3>1, <1>3, Part
  <2>2. g[i] = Cuts(s, g, i)
      BY <1>2, <1>3 DEF CobsFrom
  <2>3. CASE /\ \A j \in i .. Len(s) : s[j].byte # 0
             /\ \A h : Cuts(s, h, i) = [events |-> <<>>, rest |-> SubSeq(s, i, Len(s))]
    <3> DEFINE R == SubSeq(s, i, n)
    <3>1. g[i].events = <<>> /\ g[i].rest = R
        BY <2>2, <2>3
    <3>2. Whole(dir, R)
      <4>1. Len(R) = (n - i) + 1 /\ \A j \in 1 .. (n - i) + 1 : R[j] = s[(i + j) - 1]
          BY <1>3, <2>1, Part
      <4>2. \A j \in 1 .. (n - i) + 1 : (i + j) - 1 \in i .. n
          BY <1>1, <2>1
      <4> HIDE DEF R
      <4>3. \A j \in 1 .. Len(R) : R[j].byte # 0
          BY <2>3, <4>1, <4>2
      <4> QED BY <4>3 DEF Whole
    <3>3. Decodes(R, <<>>, R)
        BY <2>1, <3>2, Hold
    <3>4. Q(i)
        BY <3>1, <3>3
    <3> QED BY <1>3, <3>4
  <2>4. ASSUME NEW d \in i .. Len(s), s[d].byte = 0, d + 1 \in i + 1 .. Len(s) + 1,
               \A j \in i .. d - 1 : s[j].byte # 0,
               \A h : Cuts(s, h, i) = [events |-> CutEvents(SubSeq(s, i, d - 1)) \o h[d + 1].events,
                                       rest |-> h[d + 1].rest]
        PROVE  i \in S
    <3> DEFINE D == SubSeq(s, i, d - 1)
               z == s[d]
               T == SubSeq(s, d + 1, n)
               ev2 == g[d + 1].events
               R2 == g[d + 1].rest
    <3>1. d \in 1 .. n /\ d - 1 \in i - 1 .. n /\ d + 1 \in 1 .. m /\ n \in (d + 1) - 1 .. n
        BY <1>1, <2>1, <2>4
    <3>2. g[i].events = CutEvents(D) \o ev2 /\ g[i].rest = R2
      <4>1. g[i] = [events |-> CutEvents(D) \o ev2, rest |-> R2]
          BY <2>2, <2>4
      <4> HIDE DEF D, ev2, R2
      <4> QED BY <4>1
    <3>3. /\ D \in Seq(OnLine) /\ Len(D) = ((d - 1) - i) + 1
          /\ \A j \in 1 .. ((d - 1) - i) + 1 : D[j] = s[(i + j) - 1]
        BY <1>3, <3>1, Part
    <3>4. T \in Seq(OnLine)
        BY <3>1, Part
    <3>5. z \in OnLine /\ z.byte = 0
        BY <2>4, <3>1, LineFacts
    <3>6. SubSeq(s, i, n) = D \o (<<z>> \o T)
        BY <1>3, <2>4, AdjacentOne
    <3>7. Decodes(T, ev2, R2)
        BY <1>3, <2>4
    <3> HIDE DEF D, z, T, ev2, R2
    <3>8. Whole(dir, D)
      <4>1. \A j \in 1 .. ((d - 1) - i) + 1 : (i + j) - 1 \in i .. d - 1
          BY <2>1, <2>4, <3>1
      <4>2. \A j \in 1 .. Len(D) : D[j].byte # 0
        <5>1. ASSUME NEW j \in 1 .. ((d - 1) - i) + 1 PROVE D[j].byte # 0
          <6>1. D[j] = s[(i + j) - 1] /\ s[(i + j) - 1].byte # 0
              BY <2>4, <3>3, <4>1
          <6> QED BY <6>1
        <5> QED BY <3>3, <5>1
      <4> QED BY <4>2 DEF Whole
    <3>9. Decodes(D \o <<z>>, CutEvents(D), <<>>)
        BY <3>3, <3>5, <3>8, Cut
    <3>10. Decodes(<<>> \o T, ev2, R2)
      <4>1. <<>> \o T = T
          BY <3>4, CatNone
      <4> QED BY <3>7, <4>1
    <3>11. <<z>> \in Seq(OnLine) /\ D \o <<z>> \in Seq(OnLine)
        BY <3>3, <3>5, One, LineCat
    <3>12. Decodes((D \o <<z>>) \o T, CutEvents(D) \o ev2, R2)
        BY <3>4, <3>9, <3>10, <3>11, Compose
    <3>13. (D \o <<z>>) \o T = D \o (<<z>> \o T)
        BY <3>3, <3>4, <3>11, Assoc
    <3>14. Decodes(SubSeq(s, i, n), g[i].events, g[i].rest)
        BY <3>2, <3>6, <3>12, <3>13
    <3> QED BY <1>3, <3>14
  <2> HIDE DEF S
  <2> QED BY <1>3, <2>3, <2>4, CutsAs
<1>4. 1 .. m \subseteq S
  <2> HIDE DEF S, m
  <2> QED BY <1>1, <1>3, Backwards
<1>5. Q(1)
    BY <1>1, <1>4
<1>6. SubSeq(s, 1, n) = s
    BY SubSeqFull
<1> QED BY <1>2, <1>5, <1>6

\* esps_enlp_stream_feed, one byte.
LEMMA PushByteAs ==
    ASSUME NEW ev, NEW R, NEW t
    PROVE  PushByte([events |-> ev, rest |-> R], t)
              = IF t.byte = 0 THEN [events |-> ev \o CutEvents(R), rest |-> <<>>]
                ELSE IF Full(R) THEN [events |-> ev \o Raw(R), rest |-> <<t>>]
                ELSE [events |-> ev, rest |-> Append(R, t)]
<1> DEFINE acc == [events |-> ev, rest |-> R]
<1>1. acc.events = ev /\ acc.rest = R /\ [acc EXCEPT !.rest = Append(@, t)] = [events |-> ev, rest |-> Append(R, t)]
    OBVIOUS
<1> HIDE DEF acc
<1>2. PushByte(acc, t) = IF t.byte = 0 THEN [events |-> ev \o CutEvents(R), rest |-> <<>>]
                         ELSE IF Full(R) THEN [events |-> ev \o Raw(R), rest |-> <<t>>]
                         ELSE [events |-> ev, rest |-> Append(R, t)]
    BY <1>1 DEF PushByte, CutEvents
<1> QED BY <1>2 DEF acc

LEMMA PushDecodes ==
    ASSUME dir \in Directions, dir = "down", sent \in Seq(Bodies[dir]),
           NEW acc \in Held, NEW S \in Seq(OnLine), Decodes(S, acc.events, acc.rest), NEW t \in OnLine
    PROVE  Decodes(S \o <<t>>, PushByte(acc, t).events, PushByte(acc, t).rest)
<1> DEFINE ev == acc.events
           R == acc.rest
<1>1. ev \in Seq(Event) /\ R \in Seq(OnLine) /\ Whole(dir, R) /\ <<t>> \in Seq(OnLine) /\ acc = [events |-> ev, rest |-> R]
  <2>1. <<t>> \in Seq(OnLine)
      BY One
  <2>2. acc = [events |-> acc.events, rest |-> acc.rest]
      BY DEF Held
  <2> QED BY <2>1, <2>2, HeldHas DEF Decodes
<1>2. PushByte(acc, t) = IF t.byte = 0 THEN [events |-> ev \o CutEvents(R), rest |-> <<>>]
                         ELSE IF Full(R) THEN [events |-> ev \o Raw(R), rest |-> <<t>>]
                         ELSE [events |-> ev, rest |-> Append(R, t)]
    BY <1>1, PushByteAs
<1>3. Decodes(S, ev, R)
    OBVIOUS
<1> HIDE DEF ev, R
<1>4. \A ev2, R2 : Decodes(R \o <<t>>, ev2, R2) => Decodes(S \o <<t>>, ev \o ev2, R2)
    BY <1>1, <1>3, Compose
<1>5. CASE t.byte = 0
  <2>1. Decodes(R \o <<t>>, CutEvents(R), <<>>)
      BY <1>1, <1>5, Cut
  <2>2. Decodes(S \o <<t>>, ev \o CutEvents(R), <<>>)
      BY <1>4, <2>1
  <2>3. PushByte(acc, t).events = ev \o CutEvents(R) /\ PushByte(acc, t).rest = <<>>
      BY <1>2, <1>5
  <2> QED BY <2>2, <2>3
<1>6. CASE t.byte # 0 /\ Full(R)
  <2>1. Decodes(R \o <<t>>, Raw(R), <<t>>)
      BY <1>1, <1>6, Spill DEF Full
  <2>2. Decodes(S \o <<t>>, ev \o Raw(R), <<t>>)
      BY <1>4, <2>1
  <2>3. PushByte(acc, t).events = ev \o Raw(R) /\ PushByte(acc, t).rest = <<t>>
      BY <1>2, <1>6
  <2> QED BY <2>2, <2>3
<1>7. CASE t.byte # 0 /\ ~ Full(R)
  <2> DEFINE X == R \o <<t>>
  <2>1. Append(R, t) = X /\ X \in Seq(OnLine)
    <3>1. Append(R, t) = R \o <<t>>
        BY <1>1, AppendIsConcat
    <3> QED BY <1>1, <3>1, LineCat
  <2>2. Whole(dir, X)
    <3>1. /\ Len(R) \in Nat /\ Len(X) = Len(R) + Len(<<t>>)
          /\ \A i \in 1 .. Len(R) : X[i] = R[i]
          /\ \A i \in 1 .. Len(<<t>>) : X[Len(R) + i] = <<t>>[i]
        BY <1>1, Cat
    <3> HIDE DEF X
    <3>2. Len(<<t>>) = 1 /\ <<t>>[1] = t
        BY One
    <3>3. Len(X) = Len(R) + 1 /\ X[Len(R) + 1] = t
        BY <3>1, <3>2
    <3>4. ASSUME NEW i \in 1 .. Len(X) PROVE X[i].byte # 0
      <4>1. CASE i = Len(R) + 1
          BY <1>7, <3>3, <4>1
      <4>2. CASE i # Len(R) + 1
        <5>1. i \in 1 .. Len(R)
            BY <3>1, <3>3, <4>2
        <5> QED BY <1>1, <3>1, <5>1 DEF Whole
      <4> QED BY <4>1, <4>2
    <3> QED BY <3>4 DEF Whole
  <2>3. PushByte(acc, t).events = ev /\ PushByte(acc, t).rest = X
      BY <1>2, <1>7, <2>1
  <2>4. Decodes(X, <<>>, X)
    <3> HIDE DEF X
    <3> QED BY <2>1, <2>2, Hold
  <2>5. Decodes(S \o <<t>>, ev \o <<>>, X)
      BY <1>4, <2>4
  <2>6. ev \o <<>> = ev
      BY <1>1, CatNone
  <2> HIDE DEF X
  <2> QED BY <2>3, <2>5, <2>6
<1> QED BY <1>5, <1>6, <1>7

LEMMA PushType ==
    ASSUME NEW acc \in Held, NEW t \in OnLine
    PROVE  PushByte(acc, t) \in Held
<1> DEFINE ev == acc.events
           R == acc.rest
<1>1. ev \in Seq(Event) /\ R \in Seq(OnLine) /\ <<t>> \in Seq(OnLine) /\ acc = [events |-> ev, rest |-> R]
  <2>1. <<t>> \in Seq(OnLine)
      BY One
  <2>2. acc = [events |-> acc.events, rest |-> acc.rest]
      BY DEF Held
  <2> QED BY <2>1, <2>2, HeldHas
<1>2. PushByte(acc, t) = IF t.byte = 0 THEN [events |-> ev \o CutEvents(R), rest |-> <<>>]
                         ELSE IF Full(R) THEN [events |-> ev \o Raw(R), rest |-> <<t>>]
                         ELSE [events |-> ev, rest |-> Append(R, t)]
    BY <1>1, PushByteAs
<1> HIDE DEF ev, R
<1>3. CutEvents(R) \in Seq(Event)
    BY <1>1, CutType
<1>4. Raw(R) \in Seq(Event)
  <2>1. PICK e : Raw(R) = <<e>> /\ Shows(e, R)
      BY <1>1, RawShows
  <2> QED BY <1>1, <2>1, OneEvent
<1>5. Append(R, t) \in Seq(OnLine) /\ <<>> \in Seq(OnLine)
    BY <1>1, AppendProperties, CatNone
<1>6. ev \o CutEvents(R) \in Seq(Event) /\ ev \o Raw(R) \in Seq(Event)
    BY <1>1, <1>3, <1>4, EventsCat
<1> QED BY <1>1, <1>2, <1>5, <1>6, HeldIs

PushedFrom(held, chunk, g) ==
    g = [i \in 0 .. Len(chunk) |->
            IF i = 0 THEN [events |-> <<>>, rest |-> held] ELSE PushByte(g[i - 1], chunk[i])]

LEMMA PushedExists ==
    ASSUME NEW held \in Seq(OnLine), NEW chunk \in Seq(OnLine)
    PROVE  \E g : PushedFrom(held, chunk, g)
<1> DEFINE n == Len(chunk)
           s == [events |-> <<>>, rest |-> held]
           step == [i \in 1 .. n |-> [a \in Held |-> PushByte(a, chunk[i])]]
<1>1. n \in Nat
    BY LineFacts
<1>2. s \in Held
    BY CatNone, HeldIs
<1>3. ASSUME NEW a \in Held, NEW i \in 1 .. n PROVE PushByte(a, chunk[i]) \in Held
  <2>1. chunk[i] \in OnLine
      BY <1>3, LineFacts
  <2> QED BY <1>3, <2>1, PushType
<1>4. step \in Steps(n, Held)
    BY <1>3 DEF Steps
<1>5. \A i \in 1 .. n : \A a \in Held : step[i][a] = PushByte(a, chunk[i])
    OBVIOUS
<1> HIDE DEF step, n, s
<1>6. PICK f : Unfolded(f, n, Held, s, step)
    BY <1>1, <1>2, <1>4, Unfold
<1>7. ASSUME NEW i \in 1 .. n PROVE f[i] = PushByte(f[i - 1], chunk[i])
  <2>1. f[i - 1] \in Held
      BY <1>1, <1>6 DEF Unfolded
  <2> QED BY <1>5, <1>6, <2>1 DEF Unfolded
<1>8. PushedFrom(held, chunk, f)
  <2>1. f \in [0 .. n -> Held] /\ f[0] = s
      BY <1>6 DEF Unfolded
  <2>2. \A i \in 0 .. n : i # 0 => i \in 1 .. n
      BY <1>1
  <2> QED BY <1>7, <2>1, <2>2 DEF PushedFrom, n, s
<1> QED BY <1>8

LEMMA BoardDecodes ==
    ASSUME dir \in Directions, dir = "down", sent \in Seq(Bodies[dir]),
           NEW held \in Seq(OnLine), Whole(dir, held), NEW chunk \in Seq(OnLine)
    PROVE  Decodes(held \o chunk, BoardFeed(held, chunk).events, BoardFeed(held, chunk).rest)
<1> DEFINE g == CHOOSE h : PushedFrom(held, chunk, h)
           n == Len(chunk)
<1>1. PushedFrom(held, chunk, g)
    BY PushedExists
<1>2. BoardFeed(held, chunk) = g[n]
    BY DEF BoardFeed, PushedFrom
<1>3. n \in Nat
    BY LineFacts
<1> HIDE DEF g
<1> DEFINE P(i) == SubSeq(chunk, 1, i)
           Q(i) == g[i] \in Held /\ Decodes(held \o P(i), g[i].events, g[i].rest)
           S == {i \in 0 .. n : Q(i)}
<1>4. 0 \in S
  <2>1. g[0] = [events |-> <<>>, rest |-> held]
      BY <1>1, <1>3 DEF PushedFrom
  <2>2. P(0) = <<>>
      BY SubSeqEmpty
  <2>3. held \o P(0) = held
      BY <2>2, CatNone
  <2>4. Decodes(held, <<>>, held)
      BY Hold
  <2>5. g[0] \in Held
      BY <2>1, CatNone, HeldIs
  <2>6. g[0].events = <<>> /\ g[0].rest = held
      BY <2>1
  <2>7. Decodes(held \o P(0), g[0].events, g[0].rest)
    <3> HIDE DEF P
    <3> QED BY <2>3, <2>4, <2>6
  <2> QED BY <1>3, <2>5, <2>7
<1>5. ASSUME NEW i \in 1 .. n, i - 1 \in S PROVE i \in S
  <2> DEFINE t == chunk[i]
             acc == g[i - 1]
  <2>1. t \in OnLine /\ i \in 1 .. n /\ i - 1 \in 0 .. n /\ i \in 0 .. n
      BY <1>3, <1>5, LineFacts
  <2>2. acc \in Held /\ Decodes(held \o P(i - 1), acc.events, acc.rest)
      BY <1>5
  <2>3. g[i] = PushByte(acc, t)
      BY <1>1, <1>3, <1>5 DEF PushedFrom
  <2>4. P(i - 1) \in Seq(OnLine)
    <3>1. 1 \in 1 .. Len(chunk) + 1 /\ i - 1 \in 1 - 1 .. Len(chunk)
        BY <1>3, <1>5
    <3> QED BY <3>1, Part
  <2>5. P(i) = P(i - 1) \o <<t>>
    <3>1. 1 \in 1 .. Len(chunk) /\ i \in 1 .. Len(chunk)
        BY <1>3, <2>1
    <3> QED BY <3>1, SubSeqRecursiveSecond
  <2> HIDE DEF t, acc, P
  <2>6. held \o P(i) = (held \o P(i - 1)) \o <<t>>
    <3>1. <<t>> \in Seq(OnLine)
        BY <2>1, One
    <3>2. (held \o P(i - 1)) \o <<t>> = held \o (P(i - 1) \o <<t>>)
        BY <2>4, <3>1, Assoc
    <3> QED BY <2>5, <3>2
  <2>7. held \o P(i - 1) \in Seq(OnLine)
      BY <2>4, LineCat
  <2>8. Decodes((held \o P(i - 1)) \o <<t>>, PushByte(acc, t).events, PushByte(acc, t).rest)
      BY <2>1, <2>2, <2>7, PushDecodes
  <2>9. PushByte(acc, t) \in Held
      BY <2>1, <2>2, PushType
  <2>10. Q(i)
      BY <2>3, <2>6, <2>8, <2>9
  <2> QED BY <2>1, <2>10
<1>6. 0 .. n \subseteq S
  <2> HIDE DEF S, n
  <2> QED BY <1>3, <1>4, <1>5, Induct
<1>7. Q(n)
    BY <1>3, <1>6
<1>8. P(n) = chunk
    BY SubSeqFull
<1> QED BY <1>2, <1>7, <1>8

\* LengthPrefixDecoder from position i on, when g tells the later ones.
Takes(s, g, i) ==
    LET n == Len(s)
        total == 2 + s[i].byte * (MaxByte + 1) + s[i + 1].byte
        bytes == SubSeq(s, i, i + total - 1)
        body == SubSeq(Values(bytes), 3, total)
    IN  IF n - i + 1 < 2 \/ n - i + 1 < total
        THEN [events |-> <<>>, rest |-> SubSeq(s, i, n)]
        ELSE [events |-> (IF Parses(body) THEN Decoded(body, bytes) ELSE Raw(bytes)) \o g[i + total].events,
              rest |-> g[i + total].rest]

PrefixFrom(s, g) == g = [i \in 1 .. Len(s) + 1 |-> Takes(s, g, i)]

\* The bytes D are a message as long as its first two bytes say.
Sized(D) == Len(D) >= 2 /\ Len(D) = 2 + (D[1].byte * (MaxByte + 1)) + D[2].byte

LEMMA TakesAs ==
    ASSUME NEW s \in Seq(OnLine), NEW i \in 1 .. Len(s) + 1
    PROVE  \/ \A g : Takes(s, g, i) = [events |-> <<>>, rest |-> SubSeq(s, i, Len(s))]
           \/ \E e \in i .. Len(s) :
                 /\ e + 1 \in i + 1 .. Len(s) + 1
                 /\ Sized(SubSeq(s, i, e))
                 /\ \A g : Takes(s, g, i) = [events |-> MessageEvents(SubSeq(s, i, e)) \o g[e + 1].events,
                                             rest |-> g[e + 1].rest]
<1> DEFINE n == Len(s)
           a == s[i].byte * (MaxByte + 1)
           b == s[i + 1].byte
           total == 2 + a + b
<1>1. n \in Nat /\ i \in Nat
    BY LineFacts
<1>2. CASE n - i + 1 < 2 \/ n - i + 1 < total
    BY <1>2 DEF Takes
<1>3. CASE ~ (n - i + 1 < 2) /\ ~ (n - i + 1 < total)
  <2>1. i \in 1 .. n /\ i + 1 \in 1 .. n
      BY <1>1, <1>3
  <2>2. a \in Nat /\ b \in Nat
    <3>1. s[i].byte \in Nat /\ s[i + 1].byte \in Nat /\ MaxByte + 1 \in Nat
        BY <2>1, LineFacts, ByteSizes DEF Byte
    <3> QED BY <3>1
  <2> DEFINE e == i + total - 1
             D == SubSeq(s, i, e)
  <2>3. \A g : Takes(s, g, i) =
            [events |-> (IF Parses(SubSeq(Values(D), 3, total)) THEN Decoded(SubSeq(Values(D), 3, total), D) ELSE Raw(D))
                        \o g[i + total].events,
             rest |-> g[i + total].rest]
      BY <1>3 DEF Takes
  <2> HIDE DEF a, b
  <2>4. total \in Nat /\ total >= 2 /\ i + total <= n + 1
      BY <1>1, <1>3, <2>2
  <2> HIDE DEF total
  <2>5. e \in i .. n /\ e + 1 = i + total /\ e + 1 \in i + 1 .. n + 1 /\ e \in i - 1 .. n /\ (e - i) + 1 = total
      BY <1>1, <2>4
  <2>6. D \in Seq(OnLine) /\ Len(D) = total /\ \A j \in 1 .. total : D[j] = s[(i + j) - 1]
    <3> HIDE DEF e
    <3> QED BY <2>5, Part
  <2>7. Sized(D)
    <3>1. 1 \in 1 .. total /\ 2 \in 1 .. total /\ (i + 1) - 1 = i /\ (i + 2) - 1 = i + 1
        BY <1>1, <2>4
    <3> HIDE DEF D, e
    <3>2. D[1] = s[i] /\ D[2] = s[i + 1]
        BY <2>6, <3>1
    <3>3. Len(D) = 2 + (D[1].byte * (MaxByte + 1)) + D[2].byte
        BY <2>6, <3>2 DEF total, a, b
    <3> QED BY <2>4, <2>6, <3>3 DEF Sized
  <2>8. MessageEvents(D) = (IF Parses(SubSeq(Values(D), 3, total)) THEN Decoded(SubSeq(Values(D), 3, total), D) ELSE Raw(D))
      BY <2>6 DEF MessageEvents
  <2>9. \A g : Takes(s, g, i) = [events |-> MessageEvents(D) \o g[e + 1].events, rest |-> g[e + 1].rest]
      BY <2>3, <2>5, <2>8
  <2> HIDE DEF e
  <2> QED BY <2>5, <2>7, <2>9
<1> QED BY <1>2, <1>3

LEMMA TakesLater ==
    ASSUME NEW s \in Seq(OnLine), NEW i \in 1 .. Len(s) + 1, NEW g \in [1 .. Len(s) + 1 -> Held]
    PROVE  /\ Takes(s, g, i) \in Held
           /\ \A h \in [1 .. Len(s) + 1 -> Held] :
                 (\A j \in i + 1 .. Len(s) + 1 : g[j] = h[j]) => Takes(s, g, i) = Takes(s, h, i)
<1>1. Len(s) \in Nat /\ i \in Nat
    BY LineFacts
<1>2. CASE \A h : Takes(s, h, i) = [events |-> <<>>, rest |-> SubSeq(s, i, Len(s))]
  <2>1. SubSeq(s, i, Len(s)) \in Seq(OnLine)
    <3>1. Len(s) \in i - 1 .. Len(s)
        BY <1>1
    <3> QED BY <3>1, Part
  <2>2. Takes(s, g, i) \in Held
    <3>1. [events |-> <<>>, rest |-> SubSeq(s, i, Len(s))] \in Held
        BY <2>1, CatNone, HeldIs
    <3> QED BY <1>2, <3>1, Zenon
  <2> QED BY <1>2, <2>2
<1>3. ASSUME NEW e \in i .. Len(s), e + 1 \in i + 1 .. Len(s) + 1, Sized(SubSeq(s, i, e)),
             \A h : Takes(s, h, i) = [events |-> MessageEvents(SubSeq(s, i, e)) \o h[e + 1].events,
                                      rest |-> h[e + 1].rest]
      PROVE  /\ Takes(s, g, i) \in Held
             /\ \A h \in [1 .. Len(s) + 1 -> Held] :
                   (\A j \in i + 1 .. Len(s) + 1 : g[j] = h[j]) => Takes(s, g, i) = Takes(s, h, i)
  <2> DEFINE c == MessageEvents(SubSeq(s, i, e))
  <2>1. c \in Seq(Event)
    <3> DEFINE D == SubSeq(s, i, e)
    <3>1. e \in i - 1 .. Len(s)
        BY <1>1, <1>3
    <3>2. D \in Seq(OnLine) /\ Len(D) >= 2
        BY <1>3, <3>1, Part DEF Sized
    <3> HIDE DEF D
    <3>3. PICK v : /\ MessageEvents(D) = <<v>> /\ Shows(v, D)
                   /\ \A x \in Bodies[dir] :
                         SubSeq(Values(D), 3, Len(D)) = x => v.kind = "frame" /\ v.body = x
        BY <3>2, MessageShows
    <3>4. <<v>> \in Seq(Event)
        BY <3>2, <3>3, OneEvent
    <3> QED BY <3>3, <3>4 DEF D
  <2>2. \A h : Takes(s, h, i) = [events |-> c \o h[e + 1].events, rest |-> h[e + 1].rest]
      BY <1>3
  <2> HIDE DEF c
  <2>3. g[e + 1] \in Held
    <3>1. e + 1 \in 1 .. Len(s) + 1
        BY <1>1, <1>3
    <3> QED BY <3>1
  <2>4. Takes(s, g, i) \in Held
      BY <2>1, <2>2, <2>3, HeldHas, HeldIs, EventsCat
  <2>5. ASSUME NEW h \in [1 .. Len(s) + 1 -> Held], \A j \in i + 1 .. Len(s) + 1 : g[j] = h[j]
        PROVE  Takes(s, g, i) = Takes(s, h, i)
    <3>1. g[e + 1] = h[e + 1]
        BY <1>3, <2>5
    <3> QED BY <2>2, <3>1
  <2> QED BY <2>4, <2>5
<1> QED BY <1>2, <1>3, TakesAs

LEMMA PrefixExists ==
    ASSUME NEW s \in Seq(OnLine)
    PROVE  \E g : PrefixFrom(s, g)
<1> DEFINE m == Len(s) + 1
           G == [1 .. m -> Held]
           F == [g \in G |-> [i \in 1 .. m |-> Takes(s, g, i)]]
<1>1. m \in Nat
    BY LineFacts
<1>2. \A g \in G : \A i \in 1 .. m : Takes(s, g, i) \in Held
    BY TakesLater
<1>3. \A g, h \in G : \A i \in 1 .. m :
          (\A j \in i + 1 .. m : g[j] = h[j]) => Takes(s, g, i) = Takes(s, h, i)
    BY TakesLater
<1>4. [events |-> <<>>, rest |-> <<>>] \in Held
    BY CatNone, HeldIs
<1>5. Looks(m, Held, F)
  <2> HIDE DEF m
  <2>1. F \in [G -> G]
      BY <1>2
  <2> QED BY <1>3, <2>1 DEF Looks
<1> HIDE DEF F, m
<1>6. PICK g \in G : g = F[g]
    BY <1>1, <1>4, <1>5, FixedPoint
<1>7. PrefixFrom(s, g)
    BY <1>6 DEF F, PrefixFrom, m
<1> QED BY <1>7

LEMMA PrefixAs ==
    ASSUME NEW s \in Seq(OnLine)
    PROVE  \E g : PrefixFrom(s, g) /\ PrefixFeed(s) = g[1]
<1> DEFINE g == CHOOSE h : PrefixFrom(s, h)
<1>1. PrefixFrom(s, g)
    BY PrefixExists
<1>2. PrefixFeed(s) = g[1]
    BY DEF PrefixFeed, PrefixFrom, Takes
<1> QED BY <1>1, <1>2

LEMMA PrefixDecodes ==
    ASSUME dir \in Directions, dir = "tcp", sent \in Seq(Bodies[dir]), NEW s \in Seq(OnLine)
    PROVE  Decodes(s, PrefixFeed(s).events, PrefixFeed(s).rest)
<1> DEFINE n == Len(s)
           m == n + 1
<1>1. n \in Nat /\ m \in Nat /\ 1 \in 1 .. m
    BY LineFacts
<1>2. PICK g : PrefixFrom(s, g) /\ PrefixFeed(s) = g[1]
    BY PrefixAs
<1> DEFINE Q(i) == Decodes(SubSeq(s, i, n), g[i].events, g[i].rest)
           S == {i \in 1 .. m : Q(i)}
<1>3. ASSUME NEW i \in 1 .. m, \A j \in i + 1 .. m : j \in S PROVE i \in S
  <2>1. i \in Nat /\ n \in i - 1 .. n /\ SubSeq(s, i, n) \in Seq(OnLine)
    <3>1. i \in Nat /\ n \in i - 1 .. n
        BY <1>1, <1>3
    <3> QED BY <3>1, <1>3, Part
  <2>2. g[i] = Takes(s, g, i)
      BY <1>2, <1>3 DEF PrefixFrom
  <2>3. CASE \A h : Takes(s, h, i) = [events |-> <<>>, rest |-> SubSeq(s, i, Len(s))]
    <3> DEFINE R == SubSeq(s, i, n)
    <3>1. g[i].events = <<>> /\ g[i].rest = R
        BY <2>2, <2>3
    <3>2. Whole(dir, R)
        BY DEF Whole
    <3>3. Decodes(R, <<>>, R)
        BY <2>1, <3>2, Hold
    <3>4. Q(i)
        BY <3>1, <3>3
    <3> QED BY <1>3, <3>4
  <2>4. ASSUME NEW e \in i .. Len(s), e + 1 \in i + 1 .. Len(s) + 1, Sized(SubSeq(s, i, e)),
               \A h : Takes(s, h, i) = [events |-> MessageEvents(SubSeq(s, i, e)) \o h[e + 1].events,
                                        rest |-> h[e + 1].rest]
        PROVE  i \in S
    <3> DEFINE D == SubSeq(s, i, e)
               T == SubSeq(s, e + 1, n)
               ev2 == g[e + 1].events
               R2 == g[e + 1].rest
    <3>1. e \in i - 1 .. n /\ n \in e .. n /\ e + 1 \in 1 .. m /\ n \in (e + 1) - 1 .. n
        BY <1>1, <2>1, <2>4
    <3>2. g[i].events = MessageEvents(D) \o ev2 /\ g[i].rest = R2
      <4>1. g[i] = [events |-> MessageEvents(D) \o ev2, rest |-> R2]
          BY <2>2, <2>4
      <4> HIDE DEF D, ev2, R2
      <4> QED BY <4>1
    <3>3. D \in Seq(OnLine) /\ T \in Seq(OnLine)
        BY <1>3, <3>1, Part
    <3>4. SubSeq(s, i, n) = D \o T
        BY <1>3, <3>1, Adjacent
    <3>5. Decodes(T, ev2, R2)
        BY <1>3, <2>4
    <3>6. Sized(D)
        BY <2>4
    <3> HIDE DEF D, T, ev2, R2
    <3>7. Decodes(D, MessageEvents(D), <<>>)
        BY <3>3, <3>6, WholeMessage DEF Sized
    <3>8. Decodes(<<>> \o T, ev2, R2)
      <4>1. <<>> \o T = T
          BY <3>3, CatNone
      <4> QED BY <3>5, <4>1
    <3>9. Decodes(D \o T, MessageEvents(D) \o ev2, R2)
        BY <3>3, <3>7, <3>8, Compose
    <3>10. Decodes(SubSeq(s, i, n), g[i].events, g[i].rest)
        BY <3>2, <3>4, <3>9
    <3> QED BY <1>3, <3>10
  <2> HIDE DEF S
  <2> QED BY <1>3, <2>3, <2>4, TakesAs
<1>4. 1 .. m \subseteq S
  <2> HIDE DEF S, m
  <2> QED BY <1>1, <1>3, Backwards
<1>5. Q(1)
    BY <1>1, <1>4
<1>6. SubSeq(s, 1, n) = s
    BY SubSeqFull
<1> QED BY <1>2, <1>5, <1>6

\* Every decoder, fed a chunk cut anywhere.
LEMMA FedDecodes ==
    ASSUME dir \in Directions, sent \in Seq(Bodies[dir]),
           NEW held \in Seq(OnLine), Whole(dir, held), NEW chunk \in Seq(OnLine)
    PROVE  Decodes(held \o chunk, Fed(dir, held, chunk).events, Fed(dir, held, chunk).rest)
<1>1. dir \in {"up", "down", "tcp"} /\ held \o chunk \in Seq(OnLine)
    BY CodecAssumption, LineCat
<1>2. CASE dir = "up"
  <2>1. Fed(dir, held, chunk) = CobsFeed(held \o chunk)
      BY <1>2 DEF Fed
  <2> QED BY <1>1, <1>2, <2>1, CobsDecodes
<1>3. CASE dir = "down"
  <2>1. Fed(dir, held, chunk) = BoardFeed(held, chunk)
      BY <1>3 DEF Fed
  <2> QED BY <1>3, <2>1, BoardDecodes
<1>4. CASE dir = "tcp"
  <2>1. Fed(dir, held, chunk) = PrefixFeed(held \o chunk)
      BY <1>4 DEF Fed
  <2> QED BY <1>1, <1>4, <2>1, PrefixDecodes
<1> QED BY <1>1, <1>2, <1>3, <1>4

-----------------------------------------------------------------------------
(* What the line does to the frames on it.                                 *)

LEMMA FrameFrames ==
    ASSUME NEW d \in Directions, NEW body \in Bodies[d], Carried(d, body), NEW k \in Nat
    PROVE  FramesOf(Frame(d, body, k)) = {k} /\ Frame(d, body, k) \in Seq(OnLine)
<1>1. Frame(d, body, k) \in Seq(OnLine) /\ FramesOf(Frame(d, body, k)) \subseteq {k}
    BY FrameType
<1>2. k \in FramesOf(Frame(d, body, k))
  <2>1. CASE d = "tcp"
    <3>1. "tcp" \in Directions /\ body \in Bodies["tcp"]
        BY <2>1
    <3>2. Message(Frame("tcp", body, k), body, k)
        BY <3>1, TcpFrame
    <3> QED BY <1>1, <2>1, <3>2, MessageType
  <2>2. CASE d # "tcp"
    <3> DEFINE z == [byte |-> 0, frame |-> k]
    <3>1. PICK D \in Seq(OnLine) :
              /\ Block(D, body, k)
              /\ Frame(d, body, k) = D \o <<z>>
              /\ d = "down" => Len(D) <= RawCap
        BY <2>2, CobsFrame
    <3>2. z \in OnLine /\ z.frame = k
        BY ByteSizes DEF OnLine
    <3> HIDE DEF z
    <3>3. <<z>> \in Seq(OnLine) /\ FramesOf(<<z>>) = {k}
        BY <3>2, FramesOne
    <3>4. FramesOf(D \o <<z>>) = FramesOf(D) \cup FramesOf(<<z>>)
        BY <3>3, FramesCat
    <3> QED BY <3>1, <3>3, <3>4
  <2> QED BY <2>1, <2>2
<1> QED BY <1>1, <1>2

\* Bytes of no frame of ours join the stream at its end.
LEMMA Grow ==
    ASSUME NEW d \in Directions, NEW body \in Bodies[d], NEW k \in Nat,
           NEW S \in Seq(OnLine), NEW T \in Seq(OnLine), k \notin FramesOf(T), NEW o
    PROVE  /\ Pending(d, S, o, body, k) => Pending(d, S \o T, o, body, k)
           /\ Arrived(S, o, body, k) => Arrived(S \o T, o, body, k)
<1> DEFINE F == Frame(d, body, k)
<1>1. F \in Seq(OnLine)
    BY FrameType
<1>2. ASSUME NEW A, NEW B, At(d, S, body, k, A, B) PROVE At(d, S \o T, body, k, A, B \o T)
  <2>1. /\ A \in Seq(OnLine) /\ B \in Seq(OnLine) /\ S = A \o (F \o B)
        /\ k \notin FramesOf(A) /\ k \notin FramesOf(B) /\ Ends(d, A, k)
      BY <1>2 DEF At
  <2> HIDE DEF F
  <2>2. B \o T \in Seq(OnLine) /\ F \o B \in Seq(OnLine)
      BY <1>1, <2>1, LineCat
  <2>3. k \notin FramesOf(B \o T)
      BY <2>1, FramesCat
  <2>4. S \o T = A \o (F \o (B \o T))
    <3>1. (A \o (F \o B)) \o T = A \o ((F \o B) \o T)
      <4> DEFINE V == F \o B
      <4>1. V \in Seq(OnLine) /\ A \in Seq(OnLine)
          BY <2>1, <2>2
      <4> HIDE DEF V
      <4>2. (A \o V) \o T = A \o (V \o T)
          BY <4>1, Assoc, Zenon
      <4> QED BY <4>2 DEF V
    <3>2. (F \o B) \o T = F \o (B \o T)
      <4>1. B \in Seq(OnLine)
          BY <2>1
      <4> QED BY <1>1, <4>1, Assoc, Zenon
    <3> QED BY <2>1, <3>1, <3>2
  <2> QED BY <2>1, <2>2, <2>3, <2>4 DEF At, F
<1>3. ASSUME Arrived(S, o, body, k) PROVE Arrived(S \o T, o, body, k)
    BY <1>3, FramesCat DEF Arrived
<1> QED BY <1>2, <1>3 DEF Pending

LEMMA ThreeCat == ASSUME NEW X \in Seq(OnLine), NEW Y \in Seq(OnLine), NEW Z \in Seq(OnLine)
                  PROVE  FramesOf(X \o (Y \o Z)) = FramesOf(X) \cup FramesOf(Y) \cup FramesOf(Z)
<1> DEFINE V == Y \o Z
<1>1. V \in Seq(OnLine) /\ FramesOf(V) = FramesOf(Y) \cup FramesOf(Z)
    BY LineCat, FramesCat
<1> HIDE DEF V
<1>2. FramesOf(X \o V) = FramesOf(X) \cup FramesOf(V)
    BY <1>1, FramesCat
<1> QED BY <1>1, <1>2 DEF V

Three(X, Y, Z) == FramesOf(X \o (Y \o Z)) = FramesOf(X) \cup FramesOf(Y) \cup FramesOf(Z)

LEMMA ThreeFrames == \A X, Y, Z \in Seq(OnLine) : Three(X, Y, Z)
BY ThreeCat DEF Three

\* The byte t, after X and before Y, is replaced by the bytes M of the same frame.
LEMMA EndsDamaged ==
    ASSUME NEW d, d # "tcp", NEW k \in Nat,
           NEW X \in Seq(OnLine), NEW t \in OnLine, NEW M \in Seq(OnLine), NEW Y \in Seq(OnLine),
           t.byte = 0 => t.frame + 1 # k,
           Ends(d, (X \o <<t>>) \o Y, k)
    PROVE  Ends(d, (X \o M) \o Y, k)
<1>1. <<t>> \in Seq(OnLine) /\ Len(<<t>>) = 1 /\ <<t>>[1] = t /\ <<t>> # <<>>
  <2>1. <<t>> \in Seq(OnLine) /\ Len(<<t>>) = 1 /\ <<t>>[1] = t
      BY One
  <2> QED BY <2>1, EmptySeq
<1>2. X \o <<t>> \in Seq(OnLine) /\ X \o M \in Seq(OnLine)
    BY <1>1, LineCat
<1>3. CASE Y # <<>>
  <2>1. /\ ((X \o <<t>>) \o Y)[Len((X \o <<t>>) \o Y)] = Y[Len(Y)] /\ (X \o <<t>>) \o Y # <<>>
      BY <1>2, <1>3, LastOf
  <2>2. Y[Len(Y)] = [byte |-> 0, frame |-> k - 1]
      BY <2>1 DEF Ends
  <2>3. ((X \o M) \o Y)[Len((X \o M) \o Y)] = Y[Len(Y)]
      BY <1>2, <1>3, LastOf
  <2> QED BY <2>2, <2>3 DEF Ends
<1>4. CASE Y = <<>>
  <2> DEFINE U == X \o <<t>>
  <2>1. U[Len(U)] = <<t>>[Len(<<t>>)] /\ U # <<>>
      BY <1>1, LastOf
  <2>2. (X \o <<t>>) \o Y = U
      BY <1>2, <1>4, CatNone
  <2>3. Ends(d, U, k)
      BY <2>2
  <2>4. U[Len(U)] = t
      BY <1>1, <2>1
  <2> HIDE DEF U
  <2>5. t = [byte |-> 0, frame |-> k - 1]
      BY <2>1, <2>3, <2>4 DEF Ends
  <2>6. t.byte = 0 /\ t.frame = k - 1
      BY <2>5
  <2>7. t.frame + 1 = k
      BY <2>6
  <2> QED BY <2>6, <2>7
<1> QED BY <1>3, <1>4

LEMMA Damage ==
    ASSUME NEW d \in Directions, d # "tcp", NEW body \in Bodies[d], NEW k \in Nat, NEW o,
           NEW X \in Seq(OnLine), NEW t \in OnLine, NEW M \in Seq(OnLine), NEW Y \in Seq(OnLine),
           FramesOf(M) \subseteq {t.frame}, t.frame # k, t.byte = 0 => t.frame + 1 # k,
           Pending(d, X \o (<<t>> \o Y), o, body, k)
    PROVE  Pending(d, X \o (M \o Y), o, body, k)
<1> DEFINE S == X \o (<<t>> \o Y)
           F == Frame(d, body, k)
           S2 == X \o (M \o Y)
<1>1. F \in Seq(OnLine) /\ FramesOf(F) \subseteq {k}
    BY FrameType
<1>2. <<t>> \in Seq(OnLine) /\ Len(<<t>>) = 1 /\ <<t>>[1] = t /\ FramesOf(<<t>>) = {t.frame}
    BY One, FramesOne
<1>3. PICK A, B : At(d, S, body, k, A, B)
    BY DEF Pending
<1>4. /\ A \in Seq(OnLine) /\ B \in Seq(OnLine) /\ S = A \o (F \o B)
      /\ k \notin FramesOf(A) /\ k \notin FramesOf(B) /\ Ends(d, A, k)
    BY <1>3 DEF At
<1> HIDE DEF F
<1>5. /\ F \o B \in Seq(OnLine) /\ <<t>> \o Y \in Seq(OnLine) /\ X \o <<t>> \in Seq(OnLine)
      /\ X \o M \in Seq(OnLine) /\ M \o Y \in Seq(OnLine)
    BY <1>1, <1>2, <1>4, LineCat
<1>6. Len(X) \in Nat /\ Len(A) \in Nat /\ Len(F) \in Nat /\ Len(X \o <<t>>) = Len(X) + 1
  <2>1. Len(X \o <<t>>) = Len(X) + Len(<<t>>)
      BY <1>2, Cat
  <2> QED BY <1>1, <1>2, <1>4, <2>1, LineFacts
<1>7. NoneOf(o, k)
    BY DEF Pending
<1>8. CASE Len(X \o <<t>>) <= Len(A)
  <2>1. Same(X \o <<t>>, Y, A, F \o B)
    <3>1. (X \o <<t>>) \o Y = X \o (<<t>> \o Y)
        BY <1>2, Assoc
    <3> QED BY <1>4, <3>1 DEF Same
  <2>2. Between(OnLine, X \o <<t>>, Y, A, F \o B)
      BY <1>4, <1>5, <1>8, <2>1, Levi
  <2>3. PICK N \in Seq(OnLine) : A = (X \o <<t>>) \o N /\ Y = N \o (F \o B)
      BY <2>2 DEF Between
  <2> DEFINE A2 == (X \o M) \o N
  <2>4. A2 \in Seq(OnLine)
      BY <1>5, LineCat
  <2>5. Ends(d, A2, k)
      BY <1>4, <2>3, EndsDamaged
  <2>6. k \notin FramesOf(A2)
    <3>1. FramesOf(A) = FramesOf(X \o <<t>>) \cup FramesOf(N) /\ FramesOf(X \o <<t>>) = FramesOf(X) \cup FramesOf(<<t>>)
        BY <1>2, <1>5, <2>3, FramesCat
    <3>2. FramesOf(A2) = FramesOf(X \o M) \cup FramesOf(N) /\ FramesOf(X \o M) = FramesOf(X) \cup FramesOf(M)
        BY <1>5, FramesCat
    <3> HIDE DEF A2
    <3> QED BY <1>4, <3>1, <3>2
  <2>7. S2 = A2 \o (F \o B)
    <3>1. A2 \o (F \o B) = (X \o M) \o (N \o (F \o B))
      <4> DEFINE U == X \o M
                 V == F \o B
      <4>1. U \in Seq(OnLine) /\ V \in Seq(OnLine) /\ N \in Seq(OnLine)
          BY <1>5, <2>3
      <4> HIDE DEF U, V
      <4>2. Reassoc(U, N, V)
          BY <4>1, Regroup
      <4> QED BY <4>2 DEF U, V, Reassoc
    <3>2. (X \o M) \o Y = X \o (M \o Y)
      <4>1. Reassoc(X, M, Y)
          BY Regroup
      <4> QED BY <4>1 DEF Reassoc
    <3> QED BY <2>3, <3>1, <3>2
  <2> HIDE DEF A2, S2
  <2>8. At(d, S2, body, k, A2, B)
      BY <1>4, <2>4, <2>5, <2>6, <2>7 DEF At, F
  <2>9. Pending(d, S2, o, body, k)
      BY <1>7, <2>8 DEF Pending
  <2> QED BY <2>9 DEF S2
<1>9. CASE Len(A) <= Len(X)
  <2>1. Same(A, F \o B, X, <<t>> \o Y)
      BY <1>4 DEF Same
  <2>2. Between(OnLine, A, F \o B, X, <<t>> \o Y)
      BY <1>4, <1>5, <1>9, <2>1, Levi
  <2>3. PICK N \in Seq(OnLine) : X = A \o N /\ F \o B = N \o (<<t>> \o Y)
      BY <2>2 DEF Between
  <2>4. Len(F) <= Len(N)
    <3> SUFFICES ASSUME ~(Len(F) <= Len(N)) PROVE FALSE
        OBVIOUS
    <3>1. Len(N) \in Nat /\ Len(N) < Len(F)
        BY <1>6, LineFacts
    <3> DEFINE D == <<t>> \o Y
    <3>2. D # <<>> /\ D[1] = t
      <4>1. /\ Len(D) = Len(<<t>>) + Len(Y) /\ Len(Y) \in Nat
            /\ \A i \in 1 .. Len(<<t>>) : D[i] = <<t>>[i]
          BY <1>2, Cat
      <4>2. D \in Seq(OnLine)
          BY <1>5
      <4> HIDE DEF D
      <4>3. Len(D) # 0 /\ D[1] = t
          BY <1>2, <4>1
      <4> QED BY <4>2, <4>3, EmptySeq
    <3>3. Same(F, B, N, D) /\ D \in Seq(OnLine)
        BY <1>5, <2>3 DEF Same
    <3> HIDE DEF D
    <3>4. Len(N) + 1 \in 1 .. Len(F) /\ F[Len(N) + 1] = t
        BY <1>1, <1>4, <3>1, <3>2, <3>3, SamePlace
    <3>5. t.frame \in FramesOf(F)
        BY <1>1, <3>4, FramesIn
    <3> QED BY <1>1, <3>5
  <2>5. Same(F, B, N, <<t>> \o Y)
      BY <2>3 DEF Same
  <2>6. Between(OnLine, F, B, N, <<t>> \o Y)
      BY <1>1, <1>4, <1>5, <2>4, <2>5, Levi
  <2>7. PICK P \in Seq(OnLine) : N = F \o P /\ B = P \o (<<t>> \o Y)
      BY <2>6 DEF Between
  <2> DEFINE B2 == P \o (M \o Y)
  <2>8. B2 \in Seq(OnLine)
      BY <1>5, LineCat
  <2>9. k \notin FramesOf(B2)
    <3>1. FramesOf(B) = FramesOf(P) \cup FramesOf(<<t>>) \cup FramesOf(Y)
      <4>0. P \in Seq(OnLine)
          BY <2>7
      <4>1. Three(P, <<t>>, Y)
          BY <1>2, <4>0, ThreeFrames
      <4> QED BY <2>7, <4>1 DEF Three
    <3>2. FramesOf(B2) = FramesOf(P) \cup FramesOf(M) \cup FramesOf(Y)
        BY ThreeCat
    <3> HIDE DEF B2
    <3> QED BY <1>4, <3>1, <3>2
  <2>10. S2 = A \o (F \o B2)
    <3> DEFINE V == M \o Y
    <3>1. V \in Seq(OnLine) /\ A \in Seq(OnLine) /\ N \in Seq(OnLine) /\ P \in Seq(OnLine)
        BY <1>4, <1>5, <2>3, <2>7
    <3> HIDE DEF V
    <3>2. Reassoc(A, N, V) /\ Reassoc(F, P, V)
        BY <1>1, <3>1, Regroup
    <3>3. (A \o N) \o V = A \o (N \o V) /\ (F \o P) \o V = F \o (P \o V)
        BY <3>2 DEF Reassoc
    <3> QED BY <2>3, <2>7, <3>3 DEF V
  <2> HIDE DEF B2, S2
  <2>11. At(d, S2, body, k, A, B2)
      BY <1>4, <2>8, <2>9, <2>10 DEF At, F
  <2>12. Pending(d, S2, o, body, k)
      BY <1>7, <2>11 DEF Pending
  <2> QED BY <2>12 DEF S2
<1>10. Len(X \o <<t>>) <= Len(A) \/ Len(A) <= Len(X)
    BY <1>6
<1> QED BY <1>8, <1>9, <1>10

-----------------------------------------------------------------------------
(* The invariant of the stream.                                            *)

StreamType ==
    /\ dir \in Directions /\ sent \in Seq(Bodies[dir])
    /\ wire \in Seq(OnLine) /\ buf \in Seq(OnLine) /\ fed \in Seq(OnLine)
    /\ out \in Seq(Event) /\ hurt \in SUBSET Nat /\ Whole(dir, buf)

\* What the application was shown and what is held back is what was read.
AllShown == Flat(out) \o buf = Shown(dir, fed)

\* No frame is lost sight of.
FramesKept ==
    /\ Tracked(buf \o wire, out) /\ Unsent(buf \o wire, out)
    /\ open => Clean(buf \o wire) /\ Chain(buf \o wire)

StreamInv == StreamType /\ AllShown /\ FramesKept

LEMMA StreamStart == CodecInit => StreamInv
<1> SUFFICES ASSUME CodecInit PROVE StreamInv
    OBVIOUS
<1>1. /\ dir \in Directions /\ sent = <<>> /\ wire = <<>> /\ buf = <<>> /\ out = <<>> /\ fed = <<>> /\ hurt = {}
    BY DEF CodecInit
<1>2. /\ <<>> \in Seq(OnLine) /\ <<>> \in Seq(Event) /\ <<>> \o <<>> = <<>> /\ Flat(<<>>) = <<>>
      /\ Shown(dir, <<>>) = <<>> /\ FramesOf(<<>>) = {} /\ Len(<<>>) = 0 /\ DOMAIN <<>> = 1 .. 0
  <2>1. <<>> \in Seq(OnLine) /\ <<>> \in Seq(Event) /\ FramesOf(<<>>) = {} /\ Flat(<<>>) = <<>> /\ Shown(dir, <<>>) = <<>>
      BY FramesNone, FlatNone, ShownNone
  <2>2. <<>> \o <<>> = <<>>
      BY <2>1, CatNone
  <2> QED BY <2>1, <2>2
<1>3. <<>> \in Seq(Bodies[dir]) /\ Whole(dir, <<>>)
    BY EmptySeq DEF Whole
<1>4. StreamType
    BY <1>1, <1>2, <1>3 DEF StreamType
<1>5. AllShown
    BY <1>1, <1>2 DEF AllShown
<1>6. Tracked(<<>>, <<>>) /\ Unsent(<<>>, <<>>) /\ Clean(<<>>) /\ Chain(<<>>)
    BY <1>1, <1>2 DEF Tracked, Unsent, NoneOf, Clean, Ends, Chain
<1>7. FramesKept
    BY <1>1, <1>2, <1>6 DEF FramesKept
<1> QED BY <1>4, <1>5, <1>7 DEF StreamInv

\* A step that leaves the decoder and its events alone.
LEMMA LineStep ==
    ASSUME StreamInv, dir' = dir, buf' = buf, out' = out, fed' = fed,
           sent' \in Seq(Bodies[dir]), wire' \in Seq(OnLine), hurt' \in SUBSET Nat
    PROVE  StreamType' /\ AllShown'
<1>1. StreamType'
    BY DEF StreamInv, StreamType
<1>2. AllShown'
    BY DEF StreamInv, AllShown
<1> QED BY <1>1, <1>2

LEMMA StreamFeed == ASSUME StreamInv, NEW n \in 1 .. Len(wire), Feed(n) PROVE StreamInv'
<1> DEFINE c == SubSeq(wire, 1, n)
           W == SubSeq(wire, n + 1, Len(wire))
           ev == Fed(dir, buf, c).events
           R == Fed(dir, buf, c).rest
           o == out \o ev
<1>1. /\ open /\ out' = o /\ buf' = R /\ fed' = fed \o c /\ wire' = W
      /\ dir' = dir /\ sent' = sent /\ open' = open /\ hurt' = hurt
    BY DEF Feed
<1>2. /\ dir \in Directions /\ sent \in Seq(Bodies[dir])
      /\ wire \in Seq(OnLine) /\ buf \in Seq(OnLine) /\ fed \in Seq(OnLine)
      /\ out \in Seq(Event) /\ hurt \in SUBSET Nat /\ Whole(dir, buf)
    BY DEF StreamInv, StreamType
<1>3. c \in Seq(OnLine) /\ W \in Seq(OnLine) /\ wire = c \o W
  <2>1. /\ Len(wire) \in Nat /\ 1 \in 1 .. Len(wire) + 1 /\ n \in 1 - 1 .. Len(wire)
        /\ n + 1 \in 1 .. Len(wire) + 1 /\ Len(wire) \in (n + 1) - 1 .. Len(wire) /\ Len(wire) \in n .. Len(wire)
      BY <1>2, LineFacts
  <2>2. c \in Seq(OnLine) /\ W \in Seq(OnLine)
      BY <1>2, <2>1, Part
  <2>3. SubSeq(wire, 1, Len(wire)) = c \o W
      BY <1>2, <2>1, Adjacent
  <2>4. SubSeq(wire, 1, Len(wire)) = wire
      BY <1>2, SubSeqFull
  <2> QED BY <2>2, <2>3, <2>4
<1> HIDE DEF c, W
<1>4. Decodes(buf \o c, ev, R)
    BY <1>2, <1>3, FedDecodes
<1> HIDE DEF ev, R
<1>5. /\ buf \o c \in Seq(OnLine) /\ ev \in Seq(Event) /\ R \in Seq(OnLine) /\ Whole(dir, R)
      /\ Showing(buf \o c, ev, R) /\ Keeping(buf \o c, ev, R)
    BY <1>4 DEF Decodes
<1>6. o \in Seq(Event) /\ fed \o c \in Seq(OnLine)
    BY <1>2, <1>3, <1>5, EventsCat, LineCat
<1>7. Flat(o) \o R = Shown(dir, fed \o c)
  <2> DEFINE f == Flat(out)
             g == Shown(dir, c)
  <2>1. Flat(o) \o R = f \o Shown(dir, buf \o c)
      BY <1>2, <1>5 DEF Showing
  <2>2. Shown(dir, buf \o c) = buf \o g
    <3>1. Shown(dir, buf \o c) = Shown(dir, buf) \o g
        BY <1>2, <1>3, ShownCat
    <3>2. Shown(dir, buf) = buf
        BY <1>2, ShownWhole
    <3> QED BY <3>1, <3>2
  <2>3. Shown(dir, fed \o c) = Shown(dir, fed) \o g
      BY <1>2, <1>3, ShownCat
  <2>4. f \o buf = Shown(dir, fed)
      BY DEF StreamInv, AllShown
  <2>5. f \in Seq(OnLine) /\ g \in Seq(OnLine) /\ buf \in Seq(OnLine)
      BY <1>2, <1>3, FlatType, ShownType
  <2> HIDE DEF f, g, o
  <2>6. Reassoc(f, buf, g)
      BY <2>5, Regroup
  <2>7. (f \o buf) \o g = f \o (buf \o g)
      BY <2>6 DEF Reassoc
  <2> QED BY <2>1, <2>2, <2>3, <2>4, <2>7
<1>8. Tracking(R \o W, o)
  <2>1. buf \o wire = (buf \o c) \o W
    <3>1. Reassoc(buf, c, W)
        BY <1>2, <1>3, Regroup
    <3> QED BY <1>3, <3>1 DEF Reassoc
  <2>2. Tracking(buf \o wire, out)
      BY <1>1 DEF StreamInv, FramesKept, Tracking
  <2>3. Tracking((buf \o c) \o W, out)
      BY <2>1, <2>2
  <2> QED BY <1>2, <1>3, <1>5, <2>3 DEF Keeping
<1> HIDE DEF o
<1>9. StreamType'
    BY <1>1, <1>2, <1>3, <1>5, <1>6 DEF StreamType
<1>10. AllShown'
    BY <1>1, <1>7 DEF AllShown
<1>11. FramesKept'
  <2>1. Tracked(buf \o wire, out)'
      BY <1>1, <1>8 DEF Tracking, Tracked
  <2>2. Unsent(buf \o wire, out)'
      BY <1>1, <1>8 DEF Tracking, Unsent
  <2>3. Clean(buf \o wire)' /\ Chain(buf \o wire)'
      BY <1>1, <1>8 DEF Tracking, Clean, Chain
  <2> QED BY <2>1, <2>2, <2>3 DEF FramesKept
<1> QED BY <1>9, <1>10, <1>11 DEF StreamInv

LEMMA FrameEnds ==
    ASSUME NEW d \in Directions, d # "tcp", NEW body \in Bodies[d], NEW k \in Nat
    PROVE  LET F == Frame(d, body, k) IN F # <<>> /\ F[Len(F)] = [byte |-> 0, frame |-> k]
<1> DEFINE c == IF d = "up" THEN BoardCobs(body) ELSE GatewayCobs(body)
           z == [byte |-> 0, frame |-> k]
           D == Tagged(c, k)
<1>1. d \in {"up", "down", "tcp"} /\ body \in Seq(Byte)
    BY BodyTypes
<1>2. OnTheWire(d, body) = Append(c, 0)
    BY <1>1 DEF OnTheWire
<1>3. c \in Seq(Byte)
    BY <1>1, BoardRoundTrip, GatewayType DEF RoundTrip
<1> HIDE DEF c
<1>4. Frame(d, body, k) = D \o <<z>>
    BY <1>2, <1>3, Delimited DEF Frame
<1>5. D \in Seq(OnLine)
    BY <1>3, TagsFacts
<1>6. z \in OnLine
    BY ByteSizes DEF OnLine
<1> HIDE DEF D, z
<1>7. <<z>> \in Seq(OnLine) /\ Len(<<z>>) = 1 /\ <<z>>[1] = z /\ <<z>> # <<>>
  <2>1. <<z>> \in Seq(OnLine) /\ Len(<<z>>) = 1 /\ <<z>>[1] = z
      BY <1>6, One
  <2> QED BY <2>1, EmptySeq
<1>8. (D \o <<z>>)[Len(D \o <<z>>)] = <<z>>[Len(<<z>>)] /\ D \o <<z>> # <<>>
    BY <1>5, <1>7, LastOf
<1> QED BY <1>4, <1>7, <1>8 DEF z

LEMMA StreamSend == ASSUME StreamInv, NEW body \in Bodies[dir], Send(body) PROVE StreamInv'
<1> DEFINE n == Len(sent)
           k == n + 1
           F == Tagged(OnTheWire(dir, body), n + 1)
           S == buf \o wire
           W == wire \o F
<1>1. /\ open /\ sent' = Append(sent, body) /\ wire' = W
      /\ dir' = dir /\ buf' = buf /\ out' = out /\ open' = open /\ hurt' = hurt /\ fed' = fed
    BY DEF Send
<1>2. /\ dir \in Directions /\ sent \in Seq(Bodies[dir])
      /\ wire \in Seq(OnLine) /\ buf \in Seq(OnLine)
      /\ out \in Seq(Event) /\ hurt \in SUBSET Nat
    BY DEF StreamInv, StreamType
<1>3. n \in Nat /\ k \in Nat
    BY <1>2, LenProperties
<1>4. /\ Append(sent, body) \in Seq(Bodies[dir]) /\ Len(Append(sent, body)) = n + 1
      /\ \A j \in 1 .. n : Append(sent, body)[j] = sent[j]
      /\ Append(sent, body)[n + 1] = body
    BY <1>2, AppendProperties
<1>5. F = Frame(dir, body, k)
    BY DEF Frame
<1> HIDE DEF F
<1>6. F \in Seq(OnLine) /\ FramesOf(F) \subseteq {k}
    BY <1>2, <1>3, <1>5, FrameType
<1>7. W \in Seq(OnLine) /\ S \in Seq(OnLine) /\ buf \o W = S \o F
  <2>1. Reassoc(buf, wire, F)
      BY <1>2, <1>6, Regroup
  <2> QED BY <1>2, <1>6, <2>1, LineCat DEF Reassoc
<1>8. FramesOf(S \o F) = FramesOf(S) \cup FramesOf(F)
    BY <1>6, <1>7, FramesCat
<1>9. Tracked(S, out) /\ Unsent(S, out) /\ Clean(S) /\ Chain(S)
    BY <1>1 DEF StreamInv, FramesKept
<1> DEFINE sent2 == Append(sent, body)
           X == S \o F
<1>10. ASSUME NEW j \in (1 .. n + 1) \ hurt, Carried(dir, sent2[j])
       PROVE  Pending(dir, X, out, sent2[j], j) \/ Arrived(X, out, sent2[j], j)
  <2>1. CASE j \in 1 .. n
    <3>1. sent2[j] = sent[j]
        BY <1>4, <2>1
    <3>2. sent[j] \in Bodies[dir] /\ j \in Nat
        BY <1>2, <2>1, SentTypes
    <3>3. Pending(dir, S, out, sent[j], j) \/ Arrived(S, out, sent[j], j)
        BY <1>9, <1>10, <2>1, <3>1 DEF Tracked
    <3>4. j \notin FramesOf(F)
        BY <1>3, <1>6, <2>1
    <3>5. Pending(dir, X, out, sent[j], j) \/ Arrived(X, out, sent[j], j)
      <4> HIDE DEF S
      <4> QED BY <1>2, <1>6, <1>7, <3>2, <3>3, <3>4, Grow
    <3> QED BY <3>1, <3>5
  <2>2. CASE j = k
    <3>1. sent2[j] = body
        BY <1>4, <2>2
    <3>2. k \notin FramesOf(S) /\ NoneOf(out, k) /\ Ends(dir, S, k)
        BY <1>3, <1>9, <1>10, <2>2 DEF Unsent, Clean
    <3>3. <<>> \in Seq(OnLine) /\ FramesOf(<<>>) = {} /\ F \o <<>> = F
        BY <1>6, CatNone, FramesNone
    <3>4. At(dir, X, body, k, S, <<>>)
        BY <1>5, <1>7, <3>2, <3>3 DEF At
    <3>5. Pending(dir, X, out, body, k)
        BY <3>2, <3>4 DEF Pending
    <3> QED BY <2>2, <3>1, <3>5
  <2>3. j \in 1 .. n \/ j = k
      BY <1>3, <1>10
  <2> QED BY <2>1, <2>2, <2>3
<1>11. ASSUME NEW j \in Nat \ hurt, j > n + 1
       PROVE  j \notin FramesOf(X) /\ NoneOf(out, j)
  <2>1. j > n /\ j # k
      BY <1>3, <1>11
  <2>2. j \notin FramesOf(S) /\ NoneOf(out, j)
      BY <1>9, <1>11, <2>1 DEF Unsent
  <2> QED BY <1>6, <1>8, <2>1, <2>2
<1>12. Ends(dir, X, (n + 1) + 1)
  <2>1. CASE dir = "tcp"
      BY <2>1 DEF Ends
  <2>2. CASE dir # "tcp"
    <3>1. F # <<>> /\ F[Len(F)] = [byte |-> 0, frame |-> k]
        BY <1>2, <1>3, <1>5, <2>2, FrameEnds
    <3>2. X[Len(X)] = F[Len(F)]
        BY <1>6, <1>7, <3>1, LastOf
    <3>3. ((n + 1) + 1) - 1 = k
        BY <1>3
    <3> QED BY <3>1, <3>2, <3>3 DEF Ends
  <2> QED BY <2>1, <2>2
<1>13. dir = "tcp" => hurt = {} /\ FramesOf(X) \subseteq 1 .. n + 1
  <2>1. 1 .. n \subseteq 1 .. n + 1 /\ k \in 1 .. n + 1
      BY <1>3
  <2> QED BY <1>6, <1>8, <1>9, <2>1 DEF Chain
<1> HIDE DEF S, W, X, sent2
<1>14. sent' = sent2 /\ Len(sent2) = n + 1 /\ buf' \o wire' = X
    BY <1>1, <1>4, <1>7 DEF sent2, X
<1>15. FramesKept'
  <2>1. Tracked(buf \o wire, out)'
      BY <1>1, <1>10, <1>14 DEF Tracked
  <2>2. Unsent(buf \o wire, out)'
      BY <1>1, <1>11, <1>14 DEF Unsent
  <2>3. Clean(buf \o wire)'
      BY <1>1, <1>12, <1>14 DEF Clean
  <2>4. Chain(buf \o wire)'
      BY <1>1, <1>13, <1>14 DEF Chain
  <2> QED BY <2>1, <2>2, <2>3, <2>4 DEF FramesKept
<1>16. StreamType' /\ AllShown'
    BY <1>1, <1>2, <1>4, <1>7, LineStep
<1> QED BY <1>15, <1>16 DEF StreamInv

\* The text of a board: no frame's, and the frame after it is hurt.
LEMMA StreamPrint == ASSUME StreamInv, NEW b \in Byte, PrintText(b) PROVE StreamInv'
<1> DEFINE n == Len(sent)
           k == n + 1
           T == Tagged(<<b>>, n + 1)
           S == buf \o wire
           W == wire \o T
           H == hurt \cup {n + 1}
<1>1. /\ open /\ dir # "tcp" /\ wire' = W /\ hurt' = H
      /\ dir' = dir /\ sent' = sent /\ buf' = buf /\ out' = out /\ open' = open /\ fed' = fed
    BY DEF PrintText, Fault
<1>2. /\ dir \in Directions /\ sent \in Seq(Bodies[dir])
      /\ wire \in Seq(OnLine) /\ buf \in Seq(OnLine)
      /\ out \in Seq(Event) /\ hurt \in SUBSET Nat
    BY DEF StreamInv, StreamType
<1>3. n \in Nat /\ k \in Nat
    BY <1>2, LenProperties
<1>4. T \in Seq(OnLine) /\ FramesOf(T) \subseteq {k}
  <2>1. <<b>> \in Seq(Byte)
      BY One
  <2> QED BY <1>3, <2>1, TagsFacts
<1> HIDE DEF T
<1>5. W \in Seq(OnLine) /\ S \in Seq(OnLine) /\ buf \o W = S \o T
  <2>1. Reassoc(buf, wire, T)
      BY <1>2, <1>4, Regroup
  <2> QED BY <1>2, <1>4, <2>1, LineCat DEF Reassoc
<1>6. FramesOf(S \o T) = FramesOf(S) \cup FramesOf(T)
    BY <1>4, <1>5, FramesCat
<1>7. Tracked(S, out) /\ Unsent(S, out)
    BY DEF StreamInv, FramesKept
<1> DEFINE X == S \o T
<1>8. ASSUME NEW j \in (1 .. n) \ H, Carried(dir, sent[j])
      PROVE  Pending(dir, X, out, sent[j], j) \/ Arrived(X, out, sent[j], j)
  <2>1. sent[j] \in Bodies[dir] /\ j \in Nat
      BY <1>2, <1>8, SentTypes
  <2>2. Pending(dir, S, out, sent[j], j) \/ Arrived(S, out, sent[j], j)
      BY <1>7, <1>8 DEF Tracked
  <2>3. j \notin FramesOf(T)
      BY <1>4, <1>8
  <2> HIDE DEF S
  <2> QED BY <1>2, <1>4, <1>5, <2>1, <2>2, <2>3, Grow
<1>9. ASSUME NEW j \in Nat \ H, j > n
      PROVE  j \notin FramesOf(X) /\ NoneOf(out, j)
  <2>1. j \notin FramesOf(S) /\ NoneOf(out, j)
      BY <1>7, <1>9 DEF Unsent
  <2> QED BY <1>4, <1>6, <1>9, <2>1
<1> HIDE DEF S, W, X, H
<1>10. buf' \o wire' = X /\ k \in H
    BY <1>1, <1>5 DEF X, H
<1>11. FramesKept'
  <2>1. Tracked(buf \o wire, out)'
      BY <1>1, <1>8, <1>10 DEF Tracked
  <2>2. Unsent(buf \o wire, out)'
      BY <1>1, <1>9, <1>10 DEF Unsent
  <2>3. Clean(buf \o wire)'
      BY <1>1, <1>10 DEF Clean
  <2>4. Chain(buf \o wire)'
      BY <1>1 DEF Chain
  <2> QED BY <2>1, <2>2, <2>3, <2>4 DEF FramesKept
<1>12. StreamType' /\ AllShown'
  <2>1. H \in SUBSET Nat
      BY <1>2, <1>3 DEF H
  <2> QED BY <1>1, <1>2, <1>5, <2>1, LineStep
<1> QED BY <1>11, <1>12 DEF StreamInv

\* The connection ends: what has not arrived is hurt.
LEMMA StreamClose == ASSUME StreamInv, Close PROVE StreamInv'
<1> DEFINE S == buf \o wire
           H == hurt \cup FramesOf(S)
           ev == Flushed(dir, buf)
           R == IF dir = "down" THEN buf ELSE <<>>
           o == out \o ev
<1>1. /\ open' = FALSE /\ out' = o /\ buf' = R /\ hurt' = H /\ wire' = <<>>
      /\ dir' = dir /\ sent' = sent /\ fed' = fed
    BY DEF Close
<1>2. /\ dir \in Directions /\ sent \in Seq(Bodies[dir])
      /\ wire \in Seq(OnLine) /\ buf \in Seq(OnLine) /\ fed \in Seq(OnLine)
      /\ out \in Seq(Event) /\ hurt \in SUBSET Nat /\ Whole(dir, buf)
    BY DEF StreamInv, StreamType
<1>3. S \in Seq(OnLine) /\ FramesOf(S) = FramesOf(buf) \cup FramesOf(wire) /\ FramesOf(S) \subseteq Nat
  <2>1. S \in Seq(OnLine) /\ FramesOf(S) = FramesOf(buf) \cup FramesOf(wire)
      BY <1>2, LineCat, FramesCat
  <2> HIDE DEF S
  <2> QED BY <2>1, FramesIn
<1>4. /\ <<>> \in Seq(OnLine) /\ <<>> \in Seq(Event) /\ Whole(dir, <<>>) /\ FramesOf(<<>>) = {}
      /\ out \o <<>> = out
    BY <1>2, CatNone, FramesNone DEF Whole
<1>5. R \in Seq(OnLine) /\ Whole(dir, R) /\ R \o <<>> = R /\ FramesOf(R) \subseteq FramesOf(S)
  <2>1. R \in Seq(OnLine) /\ Whole(dir, R) /\ FramesOf(R) \subseteq FramesOf(S)
      BY <1>2, <1>3, <1>4
  <2> HIDE DEF R
  <2> QED BY <2>1, CatNone
<1>6. PICK e : Raw(buf) = <<e>> /\ Shows(e, buf)
    BY <1>2, RawShows
<1>7. /\ <<e>> \in Seq(Event) /\ Within(<<e>>, buf)
      /\ Flat(out \o <<e>>) = Flat(out) \o buf
    BY <1>2, <1>6, OneEvent
<1>8. (ev = <<>> /\ R = buf) \/ (ev = <<e>> /\ R = <<>>)
    BY <1>6 DEF Flushed
<1> HIDE DEF ev, R
<1>9. ev \in Seq(Event) /\ Within(ev, buf)
  <2>1. Within(<<>>, buf)
      BY DEF Within
  <2> QED BY <1>4, <1>7, <1>8, <2>1
<1>10. o \in Seq(Event)
    BY <1>2, <1>9, EventsCat
<1>11. Flat(o) \o R = Flat(out) \o buf
  <2>1. CASE ev = <<>> /\ R = buf
      BY <1>4, <2>1
  <2>2. CASE ev = <<e>> /\ R = <<>>
    <3> DEFINE f == Flat(out) \o buf
    <3>1. f \in Seq(OnLine)
        BY <1>2, FlatType, LineCat
    <3>2. f \o <<>> = f
      <4> HIDE DEF f
      <4> QED BY <3>1, CatNone
    <3>3. Flat(o) = f
        BY <1>7, <2>2
    <3> HIDE DEF f, o
    <3>4. Flat(o) \o R = f
        BY <2>2, <3>2, <3>3
    <3> QED BY <3>4 DEF f
  <2> QED BY <1>8, <2>1, <2>2
<1>12. Tracked(S, out) /\ Unsent(S, out)
    BY DEF StreamInv, FramesKept
<1>13. ASSUME NEW k, k \notin FramesOf(S) PROVE NoneOf(ev, k)
    BY <1>3, <1>9, <1>13 DEF NoneOf, Within
<1>14. ASSUME NEW k \in (1 .. Len(sent)) \ H, Carried(dir, sent[k])
       PROVE  Arrived(R, o, sent[k], k)
  <2>1. k \notin FramesOf(S) /\ k \notin hurt
      BY <1>14
  <2>2. sent[k] \in Bodies[dir] /\ k \in Nat
      BY <1>2, <1>14, SentTypes
  <2>3. ~ Pending(dir, S, out, sent[k], k)
    <3> SUFFICES ASSUME NEW A, NEW B, At(dir, S, sent[k], k, A, B) PROVE FALSE
        BY DEF Pending
    <3> DEFINE F == Frame(dir, sent[k], k)
    <3>1. F \in Seq(OnLine) /\ FramesOf(F) = {k}
        BY <1>2, <1>14, <2>2, FrameFrames
    <3>2. A \in Seq(OnLine) /\ B \in Seq(OnLine) /\ S = A \o (F \o B)
        BY DEF At
    <3> HIDE DEF F, S
    <3>3. Three(A, F, B)
        BY <3>1, <3>2, ThreeFrames
    <3>4. k \in FramesOf(S)
        BY <3>1, <3>2, <3>3 DEF Three
    <3> QED BY <2>1, <3>4
  <2>4. Arrived(S, out, sent[k], k)
      BY <1>12, <1>14, <2>1, <2>3 DEF Tracked
  <2>5. PICK i : Only(out, i, k, sent[k])
      BY <2>4 DEF Arrived
  <2>6. NoneOf(ev, k)
      BY <1>13, <2>1
  <2>7. Only(o, i, k, sent[k])
      BY <1>2, <1>9, <2>5, <2>6, OnlyKept
  <2> QED BY <1>5, <2>1, <2>7 DEF Arrived
<1>15. ASSUME NEW k \in Nat \ H, k > Len(sent)
       PROVE  k \notin FramesOf(R) /\ NoneOf(o, k)
  <2>1. k \notin FramesOf(S) /\ NoneOf(out, k)
      BY <1>12, <1>15 DEF Unsent
  <2>2. NoneOf(o, k)
      BY <1>2, <1>9, <1>13, <2>1, NoneKept
  <2> QED BY <1>5, <2>1, <2>2
<1> HIDE DEF o, H, S
<1>16. buf' \o wire' = R
    BY <1>1, <1>5
<1>17. FramesKept'
  <2>1. Tracked(buf \o wire, out)'
      BY <1>1, <1>14, <1>16 DEF Tracked
  <2>2. Unsent(buf \o wire, out)'
      BY <1>1, <1>15, <1>16 DEF Unsent
  <2> QED BY <1>1, <2>1, <2>2 DEF FramesKept
<1>18. StreamType'
  <2>1. H \in SUBSET Nat
      BY <1>2, <1>3 DEF H
  <2> QED BY <1>1, <1>2, <1>4, <1>5, <1>10, <2>1 DEF StreamType
<1>19. AllShown'
    BY <1>1, <1>11 DEF StreamInv, AllShown
<1> QED BY <1>17, <1>18, <1>19 DEF StreamInv

\* What a fault adds to hurt.
HurtBy(t) == {t.frame} \cup (IF t.byte = 0 THEN {t.frame + 1} ELSE {})

LEMMA StreamDamage ==
    ASSUME StreamInv, open, dir # "tcp",
           NEW X \in Seq(OnLine), NEW t \in OnLine, NEW M \in Seq(OnLine), NEW Y \in Seq(OnLine),
           wire = X \o (<<t>> \o Y), wire' = X \o (M \o Y), FramesOf(M) \subseteq {t.frame},
           hurt' = hurt \cup HurtBy(t),
           dir' = dir, sent' = sent, buf' = buf, out' = out, open' = open, fed' = fed
    PROVE  StreamInv'
<1> DEFINE n == Len(sent)
           P == buf \o X
           T == <<t>> \o Y
           V == M \o Y
           S == P \o T
           Z == P \o V
           H == hurt \cup HurtBy(t)
<1>1. /\ dir \in Directions /\ sent \in Seq(Bodies[dir])
      /\ wire \in Seq(OnLine) /\ buf \in Seq(OnLine)
      /\ out \in Seq(Event) /\ hurt \in SUBSET Nat
    BY DEF StreamInv, StreamType
<1>2. n \in Nat
    BY <1>1, LenProperties
<1>3. t.frame \in Nat /\ <<t>> \in Seq(OnLine) /\ FramesOf(<<t>>) = {t.frame}
    BY FramesOne DEF OnLine
<1>4. P \in Seq(OnLine) /\ T \in Seq(OnLine) /\ V \in Seq(OnLine)
    BY <1>1, <1>3, LineCat
<1>5. FramesOf(T) = {t.frame} \cup FramesOf(Y) /\ FramesOf(V) = FramesOf(M) \cup FramesOf(Y)
    BY <1>3, FramesCat
<1>6. buf \o wire = S /\ buf \o (X \o V) = Z
  <2> HIDE DEF T, V
  <2>1. Reassoc(buf, X, T) /\ Reassoc(buf, X, V)
      BY <1>1, <1>4, Regroup
  <2>2. wire = X \o T
      BY DEF T
  <2> QED BY <2>1, <2>2 DEF Reassoc
<1>7. Z \in Seq(OnLine) /\ FramesOf(Z) \subseteq FramesOf(S)
  <2> HIDE DEF P, T, V
  <2>1. Z \in Seq(OnLine) /\ FramesOf(Z) = FramesOf(P) \cup FramesOf(V) /\ FramesOf(S) = FramesOf(P) \cup FramesOf(T)
      BY <1>4, LineCat, FramesCat
  <2> QED BY <1>5, <2>1
<1>8. Tracked(S, out) /\ Unsent(S, out) /\ Clean(S)
    BY <1>6 DEF StreamInv, FramesKept
<1>9. \A k \in Nat \ H : k \notin hurt /\ t.frame # k /\ (t.byte = 0 => t.frame + 1 # k)
    BY DEF HurtBy
<1> HIDE DEF H
<1>10. ASSUME NEW k \in (1 .. n) \ H, Carried(dir, sent[k])
       PROVE  Pending(dir, Z, out, sent[k], k) \/ Arrived(Z, out, sent[k], k)
  <2>1. sent[k] \in Bodies[dir] /\ k \in Nat
      BY <1>1, <1>10, SentTypes
  <2>2. k \notin hurt /\ t.frame # k /\ (t.byte = 0 => t.frame + 1 # k)
      BY <1>9, <1>10, <2>1
  <2>3. CASE Arrived(S, out, sent[k], k)
      BY <1>7, <2>3 DEF Arrived
  <2>4. CASE Pending(dir, S, out, sent[k], k)
    <3> HIDE DEF P
    <3> QED BY <1>1, <1>4, <2>1, <2>2, <2>4, Damage
  <2>5. Pending(dir, S, out, sent[k], k) \/ Arrived(S, out, sent[k], k)
      BY <1>8, <1>10, <2>2 DEF Tracked
  <2> QED BY <2>3, <2>4, <2>5
<1>11. ASSUME NEW k \in Nat \ H, k > n
       PROVE  k \notin FramesOf(Z) /\ NoneOf(out, k)
  <2>1. k \notin FramesOf(S) /\ NoneOf(out, k)
      BY <1>8, <1>9, <1>11 DEF Unsent
  <2> QED BY <1>7, <2>1
<1>12. ASSUME n + 1 \notin H PROVE Ends(dir, Z, n + 1)
  <2>1. n + 1 \in Nat /\ n + 1 \notin hurt /\ (t.byte = 0 => t.frame + 1 # n + 1)
      BY <1>2, <1>9, <1>12
  <2>2. Ends(dir, S, n + 1)
      BY <1>8, <2>1 DEF Clean
  <2> HIDE DEF P
  <2>3. Reassoc(P, <<t>>, Y) /\ Reassoc(P, M, Y)
      BY <1>3, <1>4, Regroup
  <2>4. Ends(dir, (P \o <<t>>) \o Y, n + 1)
      BY <2>2, <2>3 DEF Reassoc
  <2>5. Ends(dir, (P \o M) \o Y, n + 1)
      BY <1>4, <2>1, <2>4, EndsDamaged
  <2> QED BY <2>3, <2>5 DEF Reassoc
<1>13. buf' \o wire' = Z
    BY <1>6
<1>14. hurt' = H
    BY DEF H
<1>15. StreamType' /\ AllShown'
  <2>1. H \in SUBSET Nat
    <3>1. t.frame + 1 \in Nat
        BY <1>3
    <3>2. HurtBy(t) \in SUBSET Nat
      <4> DEFINE f == t.frame + 1
      <4>1. f \in Nat
          BY <3>1
      <4> HIDE DEF f
      <4>2. HurtBy(t) = {t.frame} \cup (IF t.byte = 0 THEN {f} ELSE {})
          BY DEF HurtBy, f
      <4> QED BY <1>3, <4>1, <4>2
    <3> QED BY <1>1, <3>2 DEF H
  <2>2. wire' \in Seq(OnLine)
    <3>1. X \o V \in Seq(OnLine)
      <4> HIDE DEF V
      <4> QED BY <1>4, LineCat
    <3> QED BY <3>1
  <2> QED BY <1>1, <1>14, <2>1, <2>2, LineStep
<1> HIDE DEF S, Z, P, T, V
<1>16. FramesKept'
  <2>1. Tracked(buf \o wire, out)'
      BY <1>10, <1>13, <1>14 DEF Tracked
  <2>2. Unsent(buf \o wire, out)'
      BY <1>11, <1>13, <1>14 DEF Unsent
  <2>3. Clean(buf \o wire)'
      BY <1>12, <1>13, <1>14 DEF Clean
  <2>4. Chain(buf \o wire)'
      BY DEF Chain
  <2> QED BY <2>1, <2>2, <2>3, <2>4 DEF FramesKept
<1> QED BY <1>15, <1>16 DEF StreamInv

\* The byte at i, what precedes it and what follows.
LEMMA Pick ==
    ASSUME NEW w \in Seq(OnLine), NEW i \in 1 .. Len(w)
    PROVE  /\ SubSeq(w, 1, i - 1) \in Seq(OnLine) /\ Len(SubSeq(w, 1, i - 1)) = i - 1
           /\ \A j \in 1 .. i - 1 : SubSeq(w, 1, i - 1)[j] = w[j]
           /\ SubSeq(w, i + 1, Len(w)) \in Seq(OnLine) /\ Len(SubSeq(w, i + 1, Len(w))) = Len(w) - i
           /\ \A j \in 1 .. Len(w) - i : SubSeq(w, i + 1, Len(w))[j] = w[i + j]
           /\ w[i] \in OnLine
           /\ w = SubSeq(w, 1, i - 1) \o (<<w[i]>> \o SubSeq(w, i + 1, Len(w)))
<1> DEFINE n == Len(w)
           X == SubSeq(w, 1, i - 1)
           Y == SubSeq(w, i + 1, n)
<1>1. /\ n \in Nat /\ i \in Nat /\ 1 \in 1 .. n + 1 /\ i - 1 \in 1 - 1 .. n
      /\ i + 1 \in 1 .. n + 1 /\ n \in (i + 1) - 1 .. n
    BY LineFacts
<1>2. X \in Seq(OnLine) /\ Len(X) = ((i - 1) - 1) + 1 /\ \A j \in 1 .. ((i - 1) - 1) + 1 : X[j] = w[(1 + j) - 1]
    BY <1>1, Part
<1>3. Y \in Seq(OnLine) /\ Len(Y) = (n - (i + 1)) + 1 /\ \A j \in 1 .. (n - (i + 1)) + 1 : Y[j] = w[((i + 1) + j) - 1]
    BY <1>1, Part
<1>4. w[i] \in OnLine
    BY LineFacts
<1>5. SubSeq(w, 1, n) = X \o (<<w[i]>> \o Y)
    BY <1>1, AdjacentOne
<1>6. SubSeq(w, 1, n) = w
    BY SubSeqFull
<1> HIDE DEF X, Y, n
<1>7. /\ ((i - 1) - 1) + 1 = i - 1 /\ (n - (i + 1)) + 1 = n - i
      /\ \A j \in Nat : (1 + j) - 1 = j /\ ((i + 1) + j) - 1 = i + j
    BY <1>1
<1>8. Len(X) = i - 1 /\ \A j \in 1 .. i - 1 : X[j] = w[j]
  <2>1. \A j \in 1 .. i - 1 : j \in Nat
      OBVIOUS
  <2> QED BY <1>2, <1>7, <2>1
<1>9. Len(Y) = n - i /\ \A j \in 1 .. n - i : Y[j] = w[i + j]
  <2>1. \A j \in 1 .. n - i : j \in Nat
      OBVIOUS
  <2> QED BY <1>3, <1>7, <2>1
<1> QED BY <1>2, <1>3, <1>4, <1>5, <1>6, <1>8, <1>9 DEF X, Y, n

LEMMA Flipped ==
    ASSUME NEW w \in Seq(OnLine), NEW i \in 1 .. Len(w), NEW b \in Byte
    PROVE  [w EXCEPT ![i].byte = b]
              = SubSeq(w, 1, i - 1) \o (<<[byte |-> b, frame |-> w[i].frame]>> \o SubSeq(w, i + 1, Len(w)))
<1> DEFINE n == Len(w)
           X == SubSeq(w, 1, i - 1)
           Y == SubSeq(w, i + 1, n)
           u == [byte |-> b, frame |-> w[i].frame]
           v == [w EXCEPT ![i].byte = b]
           T == <<u>> \o Y
           z == X \o T
<1>1. n \in Nat /\ i \in Nat /\ DOMAIN w = 1 .. n /\ \A j \in 1 .. n : w[j] \in OnLine
    BY LineFacts
<1>2. /\ X \in Seq(OnLine) /\ Len(X) = i - 1 /\ \A j \in 1 .. i - 1 : X[j] = w[j]
      /\ Y \in Seq(OnLine) /\ Len(Y) = n - i /\ \A j \in 1 .. n - i : Y[j] = w[i + j]
    BY Pick
<1>3. w[i] \in OnLine
    BY <1>1
<1>4. u \in OnLine
    BY <1>3 DEF OnLine
<1>5. v[i] = u /\ \A j \in 1 .. n : j # i => v[j] = w[j]
  <2>1. v[i] = [w[i] EXCEPT !.byte = b]
      BY <1>1
  <2>2. [w[i] EXCEPT !.byte = b] = u
      BY <1>3 DEF OnLine
  <2> QED BY <1>1, <2>1, <2>2
<1>6. DOMAIN v = 1 .. n
    BY <1>1
<1> HIDE DEF v, u, X, Y
<1>7. v \in Seq(OnLine) /\ Len(v) = n
  <2>1. \A j \in 1 .. n : v[j] \in OnLine
      BY <1>1, <1>4, <1>5
  <2>2. v = [j \in 1 .. n |-> v[j]]
      BY <1>6 DEF v
  <2>3. v \in [1 .. n -> OnLine]
      BY <2>1, <2>2
  <2>4. v \in Seq(OnLine)
      BY <1>1, <2>3, SeqDef
  <2> QED BY <1>1, <1>6, <2>4, LenProperties
<1>8. /\ T \in Seq(OnLine) /\ Len(T) = 1 + (n - i) /\ T[1] = u
      /\ \A j \in 1 .. n - i : T[1 + j] = Y[j]
  <2>0. Y \in Seq(OnLine)
      BY <1>2
  <2>1. <<u>> \in Seq(OnLine) /\ Len(<<u>>) = 1 /\ <<u>>[1] = u
      BY <1>4, One
  <2>2. /\ T \in Seq(OnLine) /\ Len(T) = Len(<<u>>) + Len(Y)
        /\ \A j \in 1 .. Len(<<u>>) : T[j] = <<u>>[j]
        /\ \A j \in 1 .. Len(Y) : T[Len(<<u>>) + j] = Y[j]
      BY <2>0, <2>1, Cat
  <2> HIDE DEF T
  <2> QED BY <1>2, <2>1, <2>2
<1> HIDE DEF T
<1>9. /\ z \in Seq(OnLine) /\ Len(z) = n
      /\ \A j \in 1 .. i - 1 : z[j] = X[j]
      /\ \A j \in 1 .. 1 + (n - i) : z[(i - 1) + j] = T[j]
  <2>0. X \in Seq(OnLine) /\ T \in Seq(OnLine)
      BY <1>2, <1>8
  <2>1. /\ z \in Seq(OnLine) /\ Len(z) = Len(X) + Len(T)
        /\ \A j \in 1 .. Len(X) : z[j] = X[j]
        /\ \A j \in 1 .. Len(T) : z[Len(X) + j] = T[j]
      BY <2>0, Cat
  <2> HIDE DEF z
  <2>2. (i - 1) + (1 + (n - i)) = n
      BY <1>1
  <2> QED BY <1>2, <1>8, <2>1, <2>2
<1> HIDE DEF z
<1>10. ASSUME NEW j \in 1 .. n PROVE v[j] = z[j]
  <2>1. CASE j < i
    <3>1. j \in 1 .. i - 1 /\ j # i
        BY <1>1, <2>1
    <3> QED BY <1>2, <1>5, <1>9, <3>1
  <2>2. CASE j = i
    <3>1. 1 \in 1 .. 1 + (n - i) /\ (i - 1) + 1 = i
        BY <1>1
    <3>2. z[(i - 1) + 1] = T[1]
        BY <1>9, <3>1
    <3> QED BY <1>5, <1>8, <2>2, <3>1, <3>2
  <2>3. CASE j > i
    <3> DEFINE m == j - i
    <3>1. /\ m \in 1 .. n - i /\ 1 + m \in 1 .. 1 + (n - i) /\ (i - 1) + (1 + m) = j /\ i + m = j /\ j # i
        BY <1>1, <2>3
    <3> HIDE DEF m
    <3>2. z[(i - 1) + (1 + m)] = T[1 + m] /\ T[1 + m] = Y[m] /\ Y[m] = w[i + m]
        BY <1>2, <1>8, <1>9, <3>1
    <3> QED BY <1>5, <3>1, <3>2
  <2> QED BY <1>1, <2>1, <2>2, <2>3
<1>11. v = z
    BY <1>7, <1>9, <1>10, SeqEqual
<1> QED BY <1>11 DEF v, z, T, u, X, Y

LEMMA StreamFlip ==
    ASSUME StreamInv, NEW i \in 1 .. Len(wire), NEW b \in Byte, Flip(i, b)
    PROVE  StreamInv'
<1> DEFINE X == SubSeq(wire, 1, i - 1)
           Y == SubSeq(wire, i + 1, Len(wire))
           t == wire[i]
           u == [byte |-> b, frame |-> wire[i].frame]
<1>1. wire \in Seq(OnLine)
    BY DEF StreamInv, StreamType
<1>2. X \in Seq(OnLine) /\ Y \in Seq(OnLine) /\ t \in OnLine /\ wire = X \o (<<t>> \o Y)
    BY <1>1, Pick
<1>3. [wire EXCEPT ![i].byte = b] = X \o (<<u>> \o Y)
    BY <1>1, Flipped
<1>4. /\ open /\ dir # "tcp" /\ wire' = [wire EXCEPT ![i].byte = b] /\ hurt' = hurt \cup HurtBy(t)
      /\ dir' = dir /\ sent' = sent /\ buf' = buf /\ out' = out /\ open' = open /\ fed' = fed
    BY DEF Flip, Fault, HurtAt, HurtBy
<1>5. u \in OnLine /\ u.frame = t.frame
    BY <1>2 DEF OnLine
<1> HIDE DEF X, Y, u, t
<1>6. <<u>> \in Seq(OnLine) /\ FramesOf(<<u>>) \subseteq {t.frame}
    BY <1>5, FramesOne
<1>7. wire' = X \o (<<u>> \o Y)
    BY <1>3, <1>4
<1> QED BY <1>2, <1>4, <1>6, <1>7, StreamDamage

LEMMA StreamLose ==
    ASSUME StreamInv, NEW i \in 1 .. Len(wire), Lose(i)
    PROVE  StreamInv'
<1> DEFINE X == SubSeq(wire, 1, i - 1)
           Y == SubSeq(wire, i + 1, Len(wire))
           t == wire[i]
<1>1. wire \in Seq(OnLine)
    BY DEF StreamInv, StreamType
<1>2. X \in Seq(OnLine) /\ Y \in Seq(OnLine) /\ t \in OnLine /\ wire = X \o (<<t>> \o Y)
    BY <1>1, Pick
<1>3. RemoveAt(wire, i) = X \o Y
    BY DEF RemoveAt
<1>4. /\ open /\ dir # "tcp" /\ wire' = RemoveAt(wire, i) /\ hurt' = hurt \cup HurtBy(t)
      /\ dir' = dir /\ sent' = sent /\ buf' = buf /\ out' = out /\ open' = open /\ fed' = fed
    BY DEF Lose, Fault, HurtAt, HurtBy
<1> HIDE DEF X, Y, t
<1>5. <<>> \in Seq(OnLine) /\ FramesOf(<<>>) \subseteq {t.frame} /\ <<>> \o Y = Y
    BY <1>2, CatNone, FramesNone
<1>6. wire' = X \o (<<>> \o Y)
    BY <1>3, <1>4, <1>5
<1> QED BY <1>2, <1>4, <1>5, <1>6, StreamDamage

LEMMA StreamInductive == StreamInv /\ [CodecNext]_codecVars => StreamInv'
<1> SUFFICES ASSUME StreamInv, [CodecNext]_codecVars PROVE StreamInv'
    OBVIOUS
<1>1. ASSUME NEW body \in Bodies[dir], Send(body) PROVE StreamInv'
    BY <1>1, StreamSend
<1>2. ASSUME NEW n \in 1 .. Len(wire), Feed(n) PROVE StreamInv'
    BY <1>2, StreamFeed
<1>3. ASSUME NEW i \in 1 .. Len(wire), NEW b \in Byte, Flip(i, b) PROVE StreamInv'
    BY <1>3, StreamFlip
<1>4. ASSUME NEW i \in 1 .. Len(wire), Lose(i) PROVE StreamInv'
    BY <1>4, StreamLose
<1>5. ASSUME NEW b \in Byte \ {0}, PrintText(b) PROVE StreamInv'
    BY <1>5, StreamPrint
<1>6. ASSUME Close PROVE StreamInv'
    BY <1>6, StreamClose
<1>7. ASSUME UNCHANGED codecVars PROVE StreamInv'
  <2>1. /\ dir' = dir /\ sent' = sent /\ wire' = wire /\ buf' = buf /\ out' = out /\ open' = open
        /\ hurt' = hurt /\ fed' = fed
      BY <1>7 DEF codecVars
  <2>2. StreamType'
      BY <2>1 DEF StreamInv, StreamType
  <2>3. AllShown'
      BY <2>1 DEF StreamInv, AllShown
  <2>4. FramesKept'
      BY <2>1 DEF StreamInv, FramesKept, Tracked, Unsent, Clean, Chain
  <2> QED BY <2>2, <2>3, <2>4 DEF StreamInv
<1> QED BY <1>1, <1>2, <1>3, <1>4, <1>5, <1>6, <1>7 DEF CodecNext

LEMMA StreamInvariant == CodecSpec => []StreamInv
<1>1. CodecInit => StreamInv
    BY StreamStart
<1>2. StreamInv /\ [CodecNext]_codecVars => StreamInv'
    BY StreamInductive
<1> QED BY <1>1, <1>2, PTL DEF CodecSpec

\* Every byte the decoder was given is in a frame, in console text or still held
\* back, in arrival order: whatever the stream, its cuts and its faults.
THEOREM StreamLosesNothing == CodecSpec => []EveryByteSurfaces
<1>1. StreamInv => EveryByteSurfaces
  <2> SUFFICES ASSUME StreamInv PROVE EveryByteSurfaces
      OBVIOUS
  <2>1. Visible(fed) = Shown(dir, fed)
      BY VisibleIs DEF StreamInv, StreamType
  <2> QED BY <2>1 DEF StreamInv, AllShown, Flat, EveryByteSurfaces
<1>2. CodecSpec => []StreamInv
    BY StreamInvariant
<1> QED BY <1>1, <1>2, PTL

\* Frame k, once it has been read, has been decoded once, to the body that was sent.
DecodedOnce(k) == Read(k) => \E i \in DOMAIN out : Copies(k) = {i} /\ out[i].body = sent[k]

\* Every frame the line left alone is decoded once, to the body that was sent, if
\* the encoder carries that body: one it does not carry costs its own frame only.
THEOREM CarriedFramesAreDecoded ==
    CodecSpec => [](\A k \in (1 .. Len(sent)) \ hurt : Carried(dir, sent[k]) => DecodedOnce(k))
<1>1. StreamInv => \A k \in (1 .. Len(sent)) \ hurt : Carried(dir, sent[k]) => DecodedOnce(k)
  <2> SUFFICES ASSUME StreamInv, NEW k \in (1 .. Len(sent)) \ hurt, Carried(dir, sent[k]), Read(k)
               PROVE  \E i \in DOMAIN out : Copies(k) = {i} /\ out[i].body = sent[k]
      BY DEF DecodedOnce
  <2> DEFINE S == buf \o wire
  <2>1. /\ dir \in Directions /\ sent \in Seq(Bodies[dir])
        /\ wire \in Seq(OnLine) /\ buf \in Seq(OnLine) /\ Tracked(S, out)
      BY DEF StreamInv, StreamType, FramesKept
  <2>2. sent[k] \in Bodies[dir] /\ k \in Nat
      BY <2>1, SentTypes
  <2>3. k \notin FramesOf(S)
    <3>1. FramesOf(S) = FramesOf(buf) \cup FramesOf(wire) /\ FramesOf(wire \o buf) = FramesOf(wire) \cup FramesOf(buf)
        BY <2>1, FramesCat
    <3> QED BY <3>1 DEF Read
  <2>4. ~ Pending(dir, S, out, sent[k], k)
    <3> SUFFICES ASSUME NEW A, NEW B, At(dir, S, sent[k], k, A, B) PROVE FALSE
        BY DEF Pending
    <3> DEFINE F == Frame(dir, sent[k], k)
    <3>1. F \in Seq(OnLine) /\ FramesOf(F) = {k}
        BY <2>1, <2>2, FrameFrames
    <3>2. A \in Seq(OnLine) /\ B \in Seq(OnLine) /\ S = A \o (F \o B)
        BY DEF At
    <3> HIDE DEF F, S
    <3>3. Three(A, F, B)
        BY <3>1, <3>2, ThreeFrames
    <3> QED BY <2>3, <3>1, <3>2, <3>3 DEF Three
  <2>5. PICK i : Only(out, i, k, sent[k])
      BY <2>1, <2>4 DEF Tracked, Arrived
  <2>6. /\ i \in DOMAIN out /\ out[i].kind = "frame" /\ FramesOf(out[i].bytes) = {k} /\ out[i].body = sent[k]
        /\ \A j \in DOMAIN out : j # i => k \notin FramesOf(out[j].bytes)
      BY <2>5 DEF Only
  <2>7. Copies(k) = {i}
      BY <2>6 DEF Copies
  <2> QED BY <2>6, <2>7
<1>2. CodecSpec => []StreamInv
    BY StreamInvariant
<1> QED BY <1>1, <1>2, PTL

\* Every frame the line left alone is decoded once, to the body that was sent, if
\* the bodies the gateway sends are bodies its encoder carries.
THEOREM IntactFramesAreDecoded ==
    ASSUME "down" \in Directions => \A body \in Bodies["down"] : Survivable(body)
    PROVE  CodecSpec => []IntactFramesArrive
<1>1. ASSUME StreamInv,
             \A k \in (1 .. Len(sent)) \ hurt : Carried(dir, sent[k]) => DecodedOnce(k)
      PROVE  IntactFramesArrive
  <2>1. dir \in Directions /\ sent \in Seq(Bodies[dir])
      BY <1>1 DEF StreamInv, StreamType
  <2>2. ASSUME NEW k \in (1 .. Len(sent)) \ hurt PROVE Carried(dir, sent[k])
    <3>1. sent[k] \in Bodies[dir]
        BY <2>1, <2>2, SentTypes
    <3> QED BY <2>1, <3>1 DEF Carried
  <2> QED BY <1>1, <2>2 DEF DecodedOnce, IntactFramesArrive
<1>2. CodecSpec => []StreamInv
    BY StreamInvariant
<1> QED BY <1>1, <1>2, CarriedFramesAreDecoded, PTL

-----------------------------------------------------------------------------
(* The types of the stream.                                                *)

\* Events of bodies that parse, and of text.
Made(ev) == \A i \in DOMAIN ev : ev[i].body \in Bodies[dir] \cup {<<>>}

LEMMA MadeNone == Made(<<>>)
BY DEF Made

LEMMA MadeRaw == \A D : Made(Raw(D))
<1> SUFFICES ASSUME NEW D PROVE Made(Raw(D))
    OBVIOUS
<1> DEFINE e == [kind |-> "raw", body |-> <<>>, bytes |-> D]
<1>1. Raw(D) = <<e>> /\ e.body = <<>>
    BY DEF Raw
<1> HIDE DEF e
<1> QED BY <1>1 DEF Made

LEMMA MadeDecoded == \A D, body : Parses(body) => Made(Decoded(body, D))
<1> SUFFICES ASSUME NEW D, NEW body, Parses(body) PROVE Made(Decoded(body, D))
    OBVIOUS
<1> DEFINE e == [kind |-> "frame", body |-> body, bytes |-> D]
<1>1. Decoded(body, D) = <<e>> /\ e.body = body
    BY DEF Decoded
<1> HIDE DEF e
<1> QED BY <1>1 DEF Made, Parses

LEMMA MadeCut == \A D : Made(CutEvents(D))
<1> SUFFICES ASSUME NEW D PROVE Made(CutEvents(D))
    OBVIOUS
<1>1. Made(DecodeBlock(D))
  <2> DEFINE bodies == {b \in Uncobs(Values(D)) : Parses(b)}
  <2>1. CASE bodies = {}
    <3>1. DecodeBlock(D) = Raw(D)
        BY <2>1 DEF DecodeBlock
    <3> QED BY <3>1, MadeRaw
  <2>2. CASE bodies # {}
    <3> DEFINE x == CHOOSE b \in bodies : TRUE
    <3>1. x \in bodies
        BY <2>2
    <3>2. Parses(x)
        BY <3>1
    <3>3. DecodeBlock(D) = Decoded(x, D)
        BY <2>2 DEF DecodeBlock
    <3> QED BY <3>2, <3>3, MadeDecoded
  <2> QED BY <2>1, <2>2
<1> QED BY <1>1, MadeNone DEF CutEvents

LEMMA MadeMessage == \A D : Made(MessageEvents(D))
BY MadeRaw, MadeDecoded DEF MessageEvents

LEMMA MadeCat ==
    ASSUME NEW s \in Seq(Event), NEW t \in Seq(Event), Made(s), Made(t)
    PROVE  Made(s \o t)
<1>1. /\ Len(s) \in Nat /\ Len(t) \in Nat /\ s \o t \in Seq(Event)
      /\ Len(s \o t) = Len(s) + Len(t)
      /\ \A i \in 1 .. Len(s) : (s \o t)[i] = s[i]
      /\ \A i \in 1 .. Len(t) : (s \o t)[Len(s) + i] = t[i]
    BY Cat
<1> DEFINE u == s \o t
<1>2. DOMAIN u = 1 .. Len(u) /\ DOMAIN s = 1 .. Len(s) /\ DOMAIN t = 1 .. Len(t)
    BY <1>1, EventFacts
<1>3. ASSUME NEW i \in DOMAIN u PROVE u[i].body \in Bodies[dir] \cup {<<>>}
  <2> HIDE DEF u
  <2>1. CASE i <= Len(s)
    <3>1. i \in 1 .. Len(s)
        BY <1>2, <1>3, <2>1
    <3>2. u[i] = s[i]
        BY <1>1, <3>1 DEF u
    <3> QED BY <1>2, <3>1, <3>2 DEF Made
  <2>2. CASE i > Len(s)
    <3> DEFINE j == i - Len(s)
    <3>1. j \in 1 .. Len(t) /\ Len(s) + j = i
        BY <1>1, <1>2, <1>3, <2>2 DEF u
    <3> HIDE DEF j
    <3>2. u[Len(s) + j] = t[j]
        BY <1>1, <3>1 DEF u
    <3> QED BY <1>2, <3>1, <3>2 DEF Made
  <2> QED BY <1>1, <1>2, <1>3, <2>1, <2>2
<1> QED BY <1>3 DEF Made

LEMMA CobsMade ==
    ASSUME NEW s \in Seq(OnLine)
    PROVE  Made(CobsFeed(s).events)
<1> DEFINE n == Len(s)
           m == n + 1
<1>1. n \in Nat /\ m \in Nat /\ 1 \in 1 .. m
    BY LineFacts
<1>2. PICK g : CobsFrom(s, g) /\ CobsFeed(s) = g[1]
    BY CobsAs
<1> DEFINE S == {i \in 1 .. m : g[i].events \in Seq(Event) /\ Made(g[i].events)}
<1>3. ASSUME NEW i \in 1 .. m, \A j \in i + 1 .. m : j \in S PROVE i \in S
  <2>1. g[i] = Cuts(s, g, i)
      BY <1>2, <1>3 DEF CobsFrom
  <2>2. CASE \A h : Cuts(s, h, i) = [events |-> <<>>, rest |-> SubSeq(s, i, Len(s))]
    <3>1. g[i].events = <<>>
        BY <2>1, <2>2
    <3> QED BY <1>3, <3>1, MadeNone, EmptySeq
  <2>3. ASSUME NEW d \in i .. Len(s), d + 1 \in i + 1 .. Len(s) + 1,
               \A h : Cuts(s, h, i) = [events |-> CutEvents(SubSeq(s, i, d - 1)) \o h[d + 1].events,
                                       rest |-> h[d + 1].rest]
        PROVE  i \in S
    <3> DEFINE D == SubSeq(s, i, d - 1)
               C == CutEvents(D)
               ev2 == g[d + 1].events
               R2 == g[d + 1].rest
    <3>1. d - 1 \in i - 1 .. n
        BY <1>1, <2>3
    <3>2. D \in Seq(OnLine)
        BY <1>3, <3>1, Part
    <3>3. g[i] = [events |-> C \o ev2, rest |-> R2]
        BY <2>1, <2>3
    <3>4. ev2 \in Seq(Event) /\ Made(ev2)
        BY <1>3, <2>3
    <3> HIDE DEF D
    <3>5. C \in Seq(Event) /\ Made(C)
        BY <3>2, CutType, MadeCut
    <3> HIDE DEF C, ev2, R2
    <3>6. g[i].events = C \o ev2
        BY <3>3
    <3>7. C \o ev2 \in Seq(Event) /\ Made(C \o ev2)
        BY <3>4, <3>5, EventsCat, MadeCat
    <3> QED BY <1>3, <3>6, <3>7
  <2> HIDE DEF S
  <2> QED BY <1>3, <2>2, <2>3, CutsAs
<1>4. 1 .. m \subseteq S
  <2> HIDE DEF S, m
  <2> QED BY <1>1, <1>3, Backwards
<1> QED BY <1>1, <1>2, <1>4

LEMMA PrefixMade ==
    ASSUME NEW s \in Seq(OnLine)
    PROVE  Made(PrefixFeed(s).events)
<1> DEFINE n == Len(s)
           m == n + 1
<1>1. n \in Nat /\ m \in Nat /\ 1 \in 1 .. m
    BY LineFacts
<1>2. PICK g : PrefixFrom(s, g) /\ PrefixFeed(s) = g[1]
    BY PrefixAs
<1> DEFINE S == {i \in 1 .. m : g[i].events \in Seq(Event) /\ Made(g[i].events)}
<1>3. ASSUME NEW i \in 1 .. m, \A j \in i + 1 .. m : j \in S PROVE i \in S
  <2>1. g[i] = Takes(s, g, i)
      BY <1>2, <1>3 DEF PrefixFrom
  <2>2. CASE \A h : Takes(s, h, i) = [events |-> <<>>, rest |-> SubSeq(s, i, Len(s))]
    <3>1. g[i].events = <<>>
        BY <2>1, <2>2
    <3> QED BY <1>3, <3>1, MadeNone, EmptySeq
  <2>3. ASSUME NEW e \in i .. Len(s), e + 1 \in i + 1 .. Len(s) + 1, Sized(SubSeq(s, i, e)),
               \A h : Takes(s, h, i) = [events |-> MessageEvents(SubSeq(s, i, e)) \o h[e + 1].events,
                                        rest |-> h[e + 1].rest]
        PROVE  i \in S
    <3> DEFINE D == SubSeq(s, i, e)
               C == MessageEvents(D)
               ev2 == g[e + 1].events
               R2 == g[e + 1].rest
    <3>1. e \in i - 1 .. n
        BY <1>1, <2>3
    <3>2. D \in Seq(OnLine) /\ Len(D) >= 2
        BY <1>3, <2>3, <3>1, Part DEF Sized
    <3>3. g[i] = [events |-> C \o ev2, rest |-> R2]
        BY <2>1, <2>3
    <3>4. ev2 \in Seq(Event) /\ Made(ev2)
        BY <1>3, <2>3
    <3> HIDE DEF D
    <3>5. C \in Seq(Event) /\ Made(C)
      <4>1. PICK x : C = <<x>> /\ Shows(x, D)
          BY <3>2, MessageShows
      <4> HIDE DEF C
      <4>2. C \in Seq(Event)
          BY <3>2, <4>1, OneEvent
      <4> QED BY <4>2, MadeMessage DEF C
    <3> HIDE DEF C, ev2, R2
    <3>6. g[i].events = C \o ev2
        BY <3>3
    <3>7. C \o ev2 \in Seq(Event) /\ Made(C \o ev2)
        BY <3>4, <3>5, EventsCat, MadeCat
    <3> QED BY <1>3, <3>6, <3>7
  <2> HIDE DEF S
  <2> QED BY <1>3, <2>2, <2>3, TakesAs
<1>4. 1 .. m \subseteq S
  <2> HIDE DEF S, m
  <2> QED BY <1>1, <1>3, Backwards
<1> QED BY <1>1, <1>2, <1>4

LEMMA TakesHolds ==
    ASSUME NEW s \in Seq(OnLine), NEW i \in 1 .. Len(s) + 1
    PROVE  \/ /\ Incomplete(SubSeq(s, i, Len(s)))
              /\ \A g : Takes(s, g, i).rest = SubSeq(s, i, Len(s))
           \/ \E e \in i + 1 .. Len(s) + 1 : \A g : Takes(s, g, i).rest = g[e].rest
<1> DEFINE n == Len(s)
           total == 2 + s[i].byte * (MaxByte + 1) + s[i + 1].byte
           R == SubSeq(s, i, n)
<1>1. n \in Nat /\ i \in Nat /\ n \in i - 1 .. n
    BY LineFacts
<1>2. Len(R) = (n - i) + 1 /\ \A j \in 1 .. (n - i) + 1 : R[j] = s[(i + j) - 1]
    BY <1>1, Part
<1>3. ASSUME n - i + 1 < 2 \/ n - i + 1 < total
      PROVE  Incomplete(R) /\ \A g : Takes(s, g, i).rest = R
  <2>1. \A g : Takes(s, g, i).rest = R
      BY <1>3 DEF Takes
  <2> HIDE DEF R
  <2>2. CASE n - i + 1 < 2
      BY <1>1, <1>2, <2>1, <2>2 DEF Incomplete
  <2>3. CASE ~ (n - i + 1 < 2)
    <3>1. 1 \in 1 .. (n - i) + 1 /\ 2 \in 1 .. (n - i) + 1 /\ (i + 1) - 1 = i /\ (i + 2) - 1 = i + 1
        BY <1>1, <2>3
    <3>2. R[1] = s[i] /\ R[2] = s[i + 1]
        BY <1>2, <3>1
    <3>3. Len(R) < total
      <4> HIDE DEF total
      <4> QED BY <1>1, <1>2, <1>3, <2>3
    <3> QED BY <2>1, <3>2, <3>3 DEF Incomplete
  <2> QED BY <2>2, <2>3
<1>4. CASE ~ (n - i + 1 < 2 \/ n - i + 1 < total)
  <2>1. \A g : Takes(s, g, i).rest = g[i + total].rest
      BY <1>4 DEF Takes
  <2>2. i + total \in i + 1 .. n + 1
    <3>1. i \in 1 .. n /\ i + 1 \in 1 .. n
        BY <1>1, <1>4
    <3> DEFINE a == s[i].byte * (MaxByte + 1)
               b == s[i + 1].byte
    <3>2. a \in Nat /\ b \in Nat
      <4>1. s[i].byte \in Nat /\ s[i + 1].byte \in Nat /\ MaxByte + 1 \in Nat
          BY <3>1, LineFacts, ByteSizes DEF Byte
      <4> QED BY <4>1
    <3>3. total = 2 + a + b
        OBVIOUS
    <3> HIDE DEF a, b, total
    <3> QED BY <1>1, <1>4, <3>2, <3>3
  <2> HIDE DEF total
  <2> QED BY <2>1, <2>2
<1> QED BY <1>3, <1>4

\* What the decoder of a length prefix holds back is less than a message.
LEMMA PrefixHolds ==
    ASSUME NEW s \in Seq(OnLine)
    PROVE  Incomplete(PrefixFeed(s).rest)
<1> DEFINE m == Len(s) + 1
<1>1. m \in Nat /\ 1 \in 1 .. m
    BY LineFacts
<1>2. PICK g : PrefixFrom(s, g) /\ PrefixFeed(s) = g[1]
    BY PrefixAs
<1> DEFINE S == {i \in 1 .. m : Incomplete(g[i].rest)}
<1>3. ASSUME NEW i \in 1 .. m, \A j \in i + 1 .. m : j \in S PROVE i \in S
  <2>1. g[i] = Takes(s, g, i)
      BY <1>2, <1>3 DEF PrefixFrom
  <2>2. CASE Incomplete(SubSeq(s, i, Len(s))) /\ \A h : Takes(s, h, i).rest = SubSeq(s, i, Len(s))
      BY <1>3, <2>1, <2>2
  <2>3. ASSUME NEW e \in i + 1 .. Len(s) + 1, \A h : Takes(s, h, i).rest = h[e].rest
        PROVE  i \in S
    <3>1. Incomplete(g[e].rest)
        BY <1>3, <2>3
    <3> QED BY <1>3, <2>1, <2>3, <3>1
  <2> HIDE DEF S
  <2> QED BY <1>3, <2>2, <2>3, TakesHolds
<1>4. 1 .. m \subseteq S
  <2> HIDE DEF S, m
  <2> QED BY <1>1, <1>3, Backwards
<1> QED BY <1>1, <1>2, <1>4

\* The board's decoder, one byte: its buffer never holds more than it can.
LEMMA PushMade ==
    ASSUME NEW acc \in Held, NEW t \in OnLine, Made(acc.events), Len(acc.rest) <= RawCap
    PROVE  Made(PushByte(acc, t).events) /\ Len(PushByte(acc, t).rest) <= RawCap
<1> DEFINE ev == acc.events
           R == acc.rest
<1>1. ev \in Seq(Event) /\ R \in Seq(OnLine) /\ acc = [events |-> ev, rest |-> R]
  <2>1. acc = [events |-> acc.events, rest |-> acc.rest]
      BY DEF Held
  <2> QED BY <2>1, HeldHas
<1>2. PushByte(acc, t) = IF t.byte = 0 THEN [events |-> ev \o CutEvents(R), rest |-> <<>>]
                         ELSE IF Full(R) THEN [events |-> ev \o Raw(R), rest |-> <<t>>]
                         ELSE [events |-> ev, rest |-> Append(R, t)]
    BY <1>1, PushByteAs
<1>3. Made(ev) /\ Len(R) <= RawCap
    OBVIOUS
<1> HIDE DEF ev, R
<1>4. Made(ev \o CutEvents(R)) /\ Made(ev \o Raw(R))
  <2>1. CutEvents(R) \in Seq(Event)
      BY <1>1, CutType
  <2>2. Raw(R) \in Seq(Event)
    <3>1. PICK e : Raw(R) = <<e>> /\ Shows(e, R)
        BY <1>1, RawShows
    <3> QED BY <1>1, <3>1, OneEvent
  <2> QED BY <1>1, <1>3, <2>1, <2>2, MadeCat, MadeCut, MadeRaw
<1>5. Len(<<>>) = 0 /\ Len(<<t>>) = 1 /\ Len(Append(R, t)) = Len(R) + 1 /\ Len(R) \in Nat
    BY <1>1, One, AppendProperties, LineFacts
<1>6. CASE t.byte = 0
  <2>1. PushByte(acc, t).events = ev \o CutEvents(R) /\ PushByte(acc, t).rest = <<>>
      BY <1>2, <1>6
  <2> QED BY <1>4, <1>5, <2>1, ByteSizes
<1>7. CASE t.byte # 0 /\ Full(R)
  <2>1. PushByte(acc, t).events = ev \o Raw(R) /\ PushByte(acc, t).rest = <<t>>
      BY <1>2, <1>7
  <2> QED BY <1>4, <1>5, <2>1, ByteSizes
<1>8. CASE t.byte # 0 /\ ~ Full(R)
  <2>1. PushByte(acc, t).events = ev /\ PushByte(acc, t).rest = Append(R, t)
      BY <1>2, <1>8
  <2>2. Len(R) < RawCap
      BY <1>5, <1>8, ByteSizes DEF Full
  <2>3. Len(Append(R, t)) <= RawCap
      BY <1>5, <2>2, ByteSizes
  <2> QED BY <1>3, <2>1, <2>3
<1> QED BY <1>6, <1>7, <1>8

LEMMA BoardMade ==
    ASSUME NEW held \in Seq(OnLine), NEW chunk \in Seq(OnLine), Len(held) <= RawCap
    PROVE  Made(BoardFeed(held, chunk).events) /\ Len(BoardFeed(held, chunk).rest) <= RawCap
<1> DEFINE g == CHOOSE h : PushedFrom(held, chunk, h)
           n == Len(chunk)
<1>1. PushedFrom(held, chunk, g)
    BY PushedExists
<1>2. BoardFeed(held, chunk) = g[n]
    BY DEF BoardFeed, PushedFrom
<1>3. n \in Nat
    BY LineFacts
<1> HIDE DEF g
<1> DEFINE Q(i) == g[i] \in Held /\ Made(g[i].events) /\ Len(g[i].rest) <= RawCap
           S == {i \in 0 .. n : Q(i)}
<1>4. 0 \in S
  <2>1. g[0] = [events |-> <<>>, rest |-> held]
      BY <1>1, <1>3 DEF PushedFrom
  <2>2. g[0] \in Held
      BY <2>1, CatNone, HeldIs
  <2>3. g[0].events = <<>> /\ g[0].rest = held
      BY <2>1
  <2> QED BY <1>3, <2>2, <2>3, MadeNone
<1>5. ASSUME NEW i \in 1 .. n, i - 1 \in S PROVE i \in S
  <2> DEFINE t == chunk[i]
             acc == g[i - 1]
  <2>1. t \in OnLine /\ i \in 0 .. n
      BY <1>3, <1>5, LineFacts
  <2>2. acc \in Held /\ Made(acc.events) /\ Len(acc.rest) <= RawCap
      BY <1>5
  <2>3. g[i] = PushByte(acc, t)
      BY <1>1, <1>3, <1>5 DEF PushedFrom
  <2> HIDE DEF t, acc
  <2>4. PushByte(acc, t) \in Held
      BY <2>1, <2>2, PushType
  <2>5. Made(PushByte(acc, t).events) /\ Len(PushByte(acc, t).rest) <= RawCap
      BY <2>1, <2>2, PushMade
  <2> QED BY <2>1, <2>3, <2>4, <2>5
<1>6. 0 .. n \subseteq S
  <2> HIDE DEF S, n
  <2> QED BY <1>3, <1>4, <1>5, Induct
<1>7. n \in S
    BY <1>3, <1>6
<1> QED BY <1>2, <1>7

LEMMA FedMade ==
    ASSUME dir \in Directions, NEW held \in Seq(OnLine), NEW chunk \in Seq(OnLine),
           dir = "down" => Len(held) <= RawCap
    PROVE  /\ Made(Fed(dir, held, chunk).events)
           /\ dir = "down" => Len(Fed(dir, held, chunk).rest) <= RawCap
           /\ dir = "tcp" => Incomplete(Fed(dir, held, chunk).rest)
<1>1. dir \in {"up", "down", "tcp"} /\ held \o chunk \in Seq(OnLine)
    BY CodecAssumption, LineCat
<1>2. CASE dir = "up"
  <2>1. Fed(dir, held, chunk) = CobsFeed(held \o chunk)
      BY <1>2 DEF Fed
  <2> QED BY <1>1, <1>2, <2>1, CobsMade
<1>3. CASE dir = "down"
  <2>1. Fed(dir, held, chunk) = BoardFeed(held, chunk)
      BY <1>3 DEF Fed
  <2> QED BY <1>3, <2>1, BoardMade
<1>4. CASE dir = "tcp"
  <2>1. Fed(dir, held, chunk) = PrefixFeed(held \o chunk)
      BY <1>4 DEF Fed
  <2> QED BY <1>1, <1>4, <2>1, PrefixMade, PrefixHolds
<1> QED BY <1>1, <1>2, <1>3, <1>4

\* What is shown of a stream was read from it.
LEMMA FramesShown ==
    ASSUME NEW d, NEW s \in Seq(OnLine)
    PROVE  FramesOf(Shown(d, s)) \subseteq FramesOf(s)
<1> DEFINE n == Len(s)
           P(i) == SubSeq(s, 1, i)
           Q(i) == FramesOf(Shown(d, P(i))) \subseteq FramesOf(P(i))
           S == {i \in 0 .. n : Q(i)}
<1>1. n \in Nat
    BY LineFacts
<1>2. 0 \in S
  <2>1. P(0) = <<>>
      BY SubSeqEmpty
  <2>2. FramesOf(Shown(d, <<>>)) \subseteq FramesOf(<<>>)
      BY ShownNone
  <2> HIDE DEF P
  <2> QED BY <1>1, <2>1, <2>2
<1>3. ASSUME NEW i \in 1 .. n, i - 1 \in S PROVE i \in S
  <2> DEFINE t == s[i]
             p == P(i - 1)
  <2>1. t \in OnLine /\ i \in 0 .. n /\ 1 \in 1 .. Len(s) /\ i \in 1 .. Len(s) /\ i - 1 \in 1 - 1 .. Len(s) /\ 1 \in 1 .. Len(s) + 1
      BY <1>1, <1>3, LineFacts
  <2>2. p \in Seq(OnLine)
      BY <2>1, Part
  <2>3. P(i) = p \o <<t>>
      BY <2>1, SubSeqRecursiveSecond
  <2>4. FramesOf(Shown(d, p)) \subseteq FramesOf(p)
      BY <1>3
  <2> HIDE DEF p, t, P
  <2>5. Shown(d, p \o <<t>>) = Shown(d, p) \o Seen(d, t)
      BY <2>1, <2>2, ShownAppend
  <2>6. <<t>> \in Seq(OnLine) /\ FramesOf(<<t>>) = {t.frame}
      BY <2>1, FramesOne
  <2>7. Seen(d, t) \in Seq(OnLine) /\ FramesOf(Seen(d, t)) \subseteq {t.frame}
      BY <2>6, FramesNone DEF Seen
  <2>8. Shown(d, p) \in Seq(OnLine)
      BY <2>2, ShownType
  <2>9. FramesOf(Shown(d, p) \o Seen(d, t)) = FramesOf(Shown(d, p)) \cup FramesOf(Seen(d, t))
      BY <2>7, <2>8, FramesCat
  <2>10. FramesOf(p \o <<t>>) = FramesOf(p) \cup {t.frame}
      BY <2>2, <2>6, FramesCat
  <2>11. Q(i)
      BY <2>3, <2>4, <2>5, <2>7, <2>9, <2>10
  <2> QED BY <2>1, <2>11
<1>4. 0 .. n \subseteq S
  <2> HIDE DEF S, n
  <2> QED BY <1>1, <1>2, <1>3, Induct
<1>5. Q(n)
    BY <1>1, <1>4
<1>6. P(n) = s
    BY SubSeqFull
<1> HIDE DEF P
<1> QED BY <1>5, <1>6

\* The bytes of an event are among those of all of them.
LEMMA FramesFlat ==
    ASSUME NEW o \in Seq(Event), NEW i \in DOMAIN o
    PROVE  FramesOf(o[i].bytes) \subseteq FramesOf(Flat(o))
<1>1. PICK g : FlatFrom(o, g)
    BY FlatExists
<1>2. Flat(o) = g[Len(o)]
    BY <1>1, FlatAs
<1> DEFINE n == Len(o)
           S == {j \in 0 .. n : \A k \in 1 .. j : FramesOf(o[k].bytes) \subseteq FramesOf(g[j])}
<1>3. n \in Nat /\ DOMAIN o = 1 .. n
    BY EventFacts
<1>4. 0 \in S
    BY <1>3
<1>5. ASSUME NEW j \in 1 .. n, j - 1 \in S PROVE j \in S
  <2>1. j \in 0 .. n /\ j - 1 \in 0 .. n /\ o[j].bytes \in Seq(OnLine)
      BY <1>3, <1>5, EventFacts
  <2>2. g[j - 1] \in Seq(OnLine) /\ g[j] = g[j - 1] \o o[j].bytes
      BY <1>1, <1>5, <2>1 DEF FlatFrom
  <2>3. FramesOf(g[j]) = FramesOf(g[j - 1]) \cup FramesOf(o[j].bytes)
      BY <2>1, <2>2, FramesCat
  <2>4. ASSUME NEW k \in 1 .. j PROVE FramesOf(o[k].bytes) \subseteq FramesOf(g[j])
    <3>1. CASE k = j
        BY <2>3, <3>1
    <3>2. CASE k # j
      <4>1. k \in 1 .. j - 1
          BY <1>3, <1>5, <2>4, <3>2
      <4>2. FramesOf(o[k].bytes) \subseteq FramesOf(g[j - 1])
          BY <1>5, <4>1
      <4> QED BY <2>3, <4>2
    <3> QED BY <3>1, <3>2
  <2> QED BY <2>1, <2>4
<1>6. 0 .. n \subseteq S
  <2> HIDE DEF S, n
  <2> QED BY <1>3, <1>4, <1>5, Induct
<1>7. n \in S
    BY <1>3, <1>6
<1> QED BY <1>2, <1>3, <1>7

Numbers == 1 .. MaxFrames + 1

LEMMA TaggedIs ==
    ASSUME NEW s \in Seq(OnLine), FramesOf(s) \subseteq Numbers
    PROVE  s \in TaggedBytes
<1>1. Len(s) \in Nat /\ DOMAIN s = 1 .. Len(s) /\ \A i \in 1 .. Len(s) : s[i] \in OnLine
    BY LineFacts
<1>2. ASSUME NEW i \in 1 .. Len(s) PROVE s[i] \in [byte : Byte, frame : Numbers]
  <2>1. s[i].frame \in FramesOf(s)
      BY <1>1 DEF FramesOf
  <2>2. s[i] = [byte |-> s[i].byte, frame |-> s[i].frame] /\ s[i].byte \in Byte
      BY <1>1 DEF OnLine
  <2>3. s[i].frame \in Numbers
      BY <2>1
  <2> HIDE DEF Numbers
  <2> QED BY <2>2, <2>3
<1> DEFINE U == [byte : Byte, frame : Numbers]
<1>3. \A i \in 1 .. Len(s) : s[i] \in U
    BY <1>2
<1> HIDE DEF U
<1>4. s \in Seq(U)
    BY <1>1, <1>3, SeqDef
<1> QED BY <1>4 DEF U, Numbers, TaggedBytes

\* The bounds of the model, and what the decoders hold.
StreamBound ==
    /\ Len(sent) <= MaxFrames /\ open \in BOOLEAN /\ faults \in 0 .. MaxFaults
    /\ FramesOf(wire) \subseteq Numbers /\ FramesOf(fed) \subseteq Numbers
    /\ hurt \subseteq 1 .. MaxFrames + 2
    /\ Made(out)
    /\ dir = "down" => Len(buf) <= RawCap
    /\ dir = "tcp" => Incomplete(buf)

\* What is held back, and what was shown, was read.
LEMMA FedFrames ==
    ASSUME StreamInv, StreamBound
    PROVE  /\ FramesOf(buf) \subseteq Numbers
           /\ \A i \in DOMAIN out : FramesOf(out[i].bytes) \subseteq Numbers
<1>1. /\ buf \in Seq(OnLine) /\ fed \in Seq(OnLine) /\ out \in Seq(Event) /\ Flat(out) \o buf = Shown(dir, fed)
    BY DEF StreamInv, StreamType, AllShown
<1>2. FramesOf(Shown(dir, fed)) \subseteq Numbers
  <2>1. FramesOf(fed) \subseteq Numbers
      BY DEF StreamBound
  <2>2. FramesOf(Shown(dir, fed)) \subseteq FramesOf(fed)
      BY <1>1, FramesShown
  <2> QED BY <2>1, <2>2
<1>3. Flat(out) \in Seq(OnLine)
    BY <1>1, FlatType
<1>4. FramesOf(Flat(out) \o buf) = FramesOf(Flat(out)) \cup FramesOf(buf)
    BY <1>1, <1>3, FramesCat
<1>5. FramesOf(Flat(out)) \subseteq Numbers /\ FramesOf(buf) \subseteq Numbers
    BY <1>1, <1>2, <1>4
<1>6. \A i \in DOMAIN out : FramesOf(out[i].bytes) \subseteq FramesOf(Flat(out))
    BY <1>1, FramesFlat
<1> QED BY <1>5, <1>6

LEMMA StreamTypes ==
    ASSUME StreamInv, StreamBound
    PROVE  CodecTypeOK
<1>1. /\ dir \in Directions /\ sent \in Seq(Bodies[dir])
      /\ wire \in Seq(OnLine) /\ buf \in Seq(OnLine) /\ fed \in Seq(OnLine)
      /\ out \in Seq(Event) /\ Whole(dir, buf)
    BY DEF StreamInv, StreamType
<1>2. wire \in TaggedBytes /\ fed \in TaggedBytes /\ buf \in TaggedBytes
  <2>1. FramesOf(wire) \subseteq Numbers /\ FramesOf(fed) \subseteq Numbers
      BY DEF StreamBound
  <2> QED BY <1>1, <2>1, FedFrames, TaggedIs
<1>3. ASSUME NEW i \in DOMAIN out
      PROVE  /\ out[i].kind \in {"frame", "raw"} /\ out[i].body \in Bodies[dir] \cup {<<>>}
             /\ out[i].bytes \in TaggedBytes
  <2>1. out[i] \in Event /\ out[i].bytes \in Seq(OnLine)
      BY <1>1, <1>3, EventFacts
  <2>2. out[i].body \in Bodies[dir] \cup {<<>>}
      BY <1>3 DEF StreamBound, Made
  <2>3. out[i].bytes \in TaggedBytes
      BY <1>3, <2>1, FedFrames, TaggedIs
  <2>4. out[i].kind \in {"frame", "raw"}
      BY <2>1 DEF Event
  <2> QED BY <2>2, <2>3, <2>4
<1>4. dir = "up" => 0 \notin ToSet(Values(buf))
  <2> SUFFICES ASSUME dir = "up", 0 \in ToSet(Values(buf)) PROVE FALSE
      OBVIOUS
  <2>1. PICK i \in DOMAIN buf : buf[i].byte = 0
    <3>1. DOMAIN Values(buf) = DOMAIN buf /\ \A i \in DOMAIN buf : Values(buf)[i] = buf[i].byte
        BY DEF Values
    <3>2. \E i \in DOMAIN Values(buf) : Values(buf)[i] = 0
        BY DEF ToSet
    <3> QED BY <3>1, <3>2
  <2>2. i \in 1 .. Len(buf)
      BY <1>1, <2>1, LineFacts
  <2> QED BY <1>1, <2>1, <2>2 DEF Whole
<1> QED BY <1>1, <1>2, <1>3, <1>4 DEF StreamBound, CodecTypeOK

LEMMA BoundStart == CodecInit => StreamBound
<1> SUFFICES ASSUME CodecInit PROVE StreamBound
    OBVIOUS
<1>1. FramesOf(<<>>) = {} /\ Len(<<>>) = 0 /\ Made(<<>>)
    BY FramesNone, MadeNone
<1>2. 0 \in 0 .. MaxFaults /\ 0 <= MaxFrames /\ 0 <= RawCap
    BY CodecAssumption
<1> QED BY <1>1, <1>2 DEF CodecInit, StreamBound, Incomplete

LEMMA BoundSend ==
    ASSUME StreamInv, StreamBound, NEW body \in Bodies[dir], Send(body)
    PROVE  StreamBound'
<1> DEFINE n == Len(sent)
           k == n + 1
           F == Tagged(OnTheWire(dir, body), n + 1)
           W == wire \o F
<1>1. /\ n < MaxFrames /\ sent' = Append(sent, body) /\ wire' = W
      /\ dir' = dir /\ buf' = buf /\ out' = out /\ open' = open /\ hurt' = hurt /\ fed' = fed /\ faults' = faults
    BY DEF Send
<1>2. dir \in Directions /\ sent \in Seq(Bodies[dir]) /\ wire \in Seq(OnLine)
    BY DEF StreamInv, StreamType
<1>3. n \in Nat /\ MaxFrames \in Nat /\ k \in Nat /\ k \in Numbers /\ Len(Append(sent, body)) = k
    BY <1>1, <1>2, AppendProperties, LenProperties, CodecAssumption DEF Numbers
<1>4. F = Frame(dir, body, k)
    BY DEF Frame
<1> HIDE DEF F
<1>5. F \in Seq(OnLine) /\ FramesOf(F) \subseteq {k}
    BY <1>2, <1>3, <1>4, FrameType
<1>6. FramesOf(W) = FramesOf(wire) \cup FramesOf(F)
    BY <1>2, <1>5, FramesCat
<1> HIDE DEF W
<1>7. FramesOf(W) \subseteq Numbers
    BY <1>3, <1>5, <1>6 DEF StreamBound
<1>8. k <= MaxFrames
    BY <1>1, <1>3
<1> QED BY <1>1, <1>3, <1>7, <1>8 DEF StreamBound, Made, Incomplete

LEMMA BoundFeed ==
    ASSUME StreamInv, StreamBound, NEW n \in 1 .. Len(wire), Feed(n)
    PROVE  StreamBound'
<1> DEFINE c == SubSeq(wire, 1, n)
           W == SubSeq(wire, n + 1, Len(wire))
           ev == Fed(dir, buf, c).events
           R == Fed(dir, buf, c).rest
           o == out \o ev
           f == fed \o c
<1>1. /\ out' = o /\ buf' = R /\ fed' = f /\ wire' = W
      /\ dir' = dir /\ sent' = sent /\ open' = open /\ hurt' = hurt /\ faults' = faults
    BY DEF Feed
<1>2. /\ dir \in Directions /\ sent \in Seq(Bodies[dir]) /\ Whole(dir, buf)
      /\ wire \in Seq(OnLine) /\ buf \in Seq(OnLine) /\ fed \in Seq(OnLine) /\ out \in Seq(Event)
    BY DEF StreamInv, StreamType
<1>3. c \in Seq(OnLine) /\ W \in Seq(OnLine) /\ wire = c \o W
  <2>1. /\ Len(wire) \in Nat /\ 1 \in 1 .. Len(wire) + 1 /\ n \in 1 - 1 .. Len(wire)
        /\ n + 1 \in 1 .. Len(wire) + 1 /\ Len(wire) \in (n + 1) - 1 .. Len(wire) /\ Len(wire) \in n .. Len(wire)
      BY <1>2, LineFacts
  <2>2. c \in Seq(OnLine) /\ W \in Seq(OnLine)
      BY <1>2, <2>1, Part
  <2>3. SubSeq(wire, 1, Len(wire)) = c \o W
      BY <1>2, <2>1, Adjacent
  <2>4. SubSeq(wire, 1, Len(wire)) = wire
      BY <1>2, SubSeqFull
  <2> QED BY <2>2, <2>3, <2>4
<1> HIDE DEF c, W
<1>4. FramesOf(wire) = FramesOf(c) \cup FramesOf(W) /\ FramesOf(f) = FramesOf(fed) \cup FramesOf(c)
    BY <1>2, <1>3, FramesCat
<1>5. Made(ev) /\ (dir = "down" => Len(R) <= RawCap) /\ (dir = "tcp" => Incomplete(R))
    BY <1>2, <1>3, FedMade DEF StreamBound
<1>6. ev \in Seq(Event)
    BY <1>2, <1>3, FedDecodes DEF Decodes
<1> HIDE DEF ev, R, f
<1>7. Made(o)
    BY <1>2, <1>5, <1>6, MadeCat DEF StreamBound
<1> HIDE DEF o
<1>8. FramesOf(W) \subseteq Numbers /\ FramesOf(f) \subseteq Numbers
    BY <1>4 DEF StreamBound
<1> QED BY <1>1, <1>5, <1>7, <1>8 DEF StreamBound, Made, Incomplete

LEMMA BoundClose ==
    ASSUME StreamInv, StreamBound, Close
    PROVE  StreamBound'
<1> DEFINE S == buf \o wire
           ev == Flushed(dir, buf)
           o == out \o ev
<1>1. /\ open' = FALSE /\ out' = o /\ buf' = (IF dir = "down" THEN buf ELSE <<>>)
      /\ hurt' = hurt \cup FramesOf(S) /\ wire' = <<>>
      /\ dir' = dir /\ sent' = sent /\ fed' = fed /\ faults' = faults
    BY DEF Close
<1>2. wire \in Seq(OnLine) /\ buf \in Seq(OnLine) /\ out \in Seq(Event)
    BY DEF StreamInv, StreamType
<1>3. FramesOf(S) = FramesOf(buf) \cup FramesOf(wire)
    BY <1>2, FramesCat
<1>4. FramesOf(S) \subseteq 1 .. MaxFrames + 2
  <2>1. FramesOf(S) \subseteq Numbers
      BY <1>3, FedFrames DEF StreamBound
  <2>2. Numbers \subseteq 1 .. MaxFrames + 2
      BY CodecAssumption DEF Numbers
  <2> QED BY <2>1, <2>2
<1>5. Made(ev) /\ ev \in Seq(Event)
  <2>1. PICK e : Raw(buf) = <<e>> /\ Shows(e, buf)
      BY <1>2, RawShows
  <2>2. Raw(buf) \in Seq(Event)
      BY <1>2, <2>1, OneEvent
  <2> QED BY <2>2, EmptySeq, MadeNone, MadeRaw DEF Flushed
<1> HIDE DEF S, ev
<1>6. Made(o)
    BY <1>2, <1>5, MadeCat DEF StreamBound
<1> HIDE DEF o
<1>7. FramesOf(<<>>) = {} /\ Len(<<>>) <= RawCap /\ Incomplete(<<>>)
    BY FramesNone, ByteSizes DEF Incomplete
<1>8. buf' = buf \/ buf' = <<>>
    BY <1>1
<1> QED BY <1>1, <1>4, <1>6, <1>7, <1>8 DEF StreamBound, Made, Incomplete

\* What the line does: bytes of the frames already on it.
LEMMA BoundFault ==
    ASSUME StreamInv, StreamBound, Fault,
           NEW W \in Seq(OnLine), NEW H, wire' = W, hurt' = hurt \cup H,
           FramesOf(W) \subseteq Numbers, H \subseteq 1 .. MaxFrames + 2
    PROVE  StreamBound'
<1>1. /\ faults' = faults + 1 /\ faults < MaxFaults
      /\ dir' = dir /\ sent' = sent /\ buf' = buf /\ out' = out /\ open' = open /\ fed' = fed
    BY DEF Fault
<1>2. faults + 1 \in 0 .. MaxFaults
    BY <1>1, CodecAssumption DEF StreamBound
<1>3. hurt \cup H \subseteq 1 .. MaxFrames + 2
    BY DEF StreamBound
<1> QED BY <1>1, <1>2, <1>3 DEF StreamBound, Made, Incomplete

LEMMA HurtBound ==
    ASSUME StreamInv, StreamBound, NEW i \in 1 .. Len(wire)
    PROVE  /\ wire[i].frame \in FramesOf(wire)
           /\ HurtAt(i) \subseteq 1 .. MaxFrames + 2
<1>1. wire \in Seq(OnLine) /\ FramesOf(wire) \subseteq Numbers
    BY DEF StreamInv, StreamType, StreamBound
<1>2. wire[i].frame \in FramesOf(wire)
    BY <1>1, FramesIn
<1> DEFINE f == wire[i].frame
<1>3. HurtAt(i) \subseteq {f, f + 1}
    BY DEF HurtAt
<1>4. f \in Numbers
    BY <1>1, <1>2
<1> HIDE DEF f
<1>5. f \in 1 .. MaxFrames + 2 /\ f + 1 \in 1 .. MaxFrames + 2
    BY <1>4, CodecAssumption DEF Numbers
<1> QED BY <1>2, <1>3, <1>5

LEMMA BoundFlip ==
    ASSUME StreamInv, StreamBound, NEW i \in 1 .. Len(wire), NEW b \in Byte, Flip(i, b)
    PROVE  StreamBound'
<1> DEFINE X == SubSeq(wire, 1, i - 1)
           Y == SubSeq(wire, i + 1, Len(wire))
           t == wire[i]
           u == [byte |-> b, frame |-> wire[i].frame]
           W == X \o (<<u>> \o Y)
<1>1. wire \in Seq(OnLine) /\ FramesOf(wire) \subseteq Numbers
    BY DEF StreamInv, StreamType, StreamBound
<1>2. X \in Seq(OnLine) /\ Y \in Seq(OnLine) /\ t \in OnLine /\ wire = X \o (<<t>> \o Y)
    BY <1>1, Pick
<1>3. wire' = W
    BY <1>1, Flipped DEF Flip
<1>4. u \in OnLine /\ u.frame = t.frame
    BY <1>2 DEF OnLine
<1> HIDE DEF X, Y, u, t
<1>5. <<u>> \in Seq(OnLine) /\ FramesOf(<<u>>) = {t.frame} /\ <<t>> \in Seq(OnLine) /\ FramesOf(<<t>>) = {t.frame}
    BY <1>2, <1>4, FramesOne
<1>6. Three(X, <<t>>, Y) /\ Three(X, <<u>>, Y)
    BY <1>2, <1>5, ThreeFrames
<1>7. FramesOf(W) = FramesOf(wire)
    BY <1>2, <1>5, <1>6 DEF Three
<1>8. <<u>> \o Y \in Seq(OnLine) /\ W \in Seq(OnLine)
  <2>1. <<u>> \o Y \in Seq(OnLine)
      BY <1>2, <1>5, LineCat
  <2> QED BY <1>2, <2>1, LineCat
<1> HIDE DEF W
<1> QED BY <1>1, <1>3, <1>7, <1>8, HurtBound, BoundFault DEF Flip

LEMMA BoundLose ==
    ASSUME StreamInv, StreamBound, NEW i \in 1 .. Len(wire), Lose(i)
    PROVE  StreamBound'
<1> DEFINE X == SubSeq(wire, 1, i - 1)
           Y == SubSeq(wire, i + 1, Len(wire))
           t == wire[i]
           W == X \o Y
<1>1. wire \in Seq(OnLine) /\ FramesOf(wire) \subseteq Numbers
    BY DEF StreamInv, StreamType, StreamBound
<1>2. X \in Seq(OnLine) /\ Y \in Seq(OnLine) /\ t \in OnLine /\ wire = X \o (<<t>> \o Y)
    BY <1>1, Pick
<1>3. wire' = W
    BY DEF Lose, RemoveAt
<1> HIDE DEF X, Y, t
<1>4. <<t>> \in Seq(OnLine)
    BY <1>2, FramesOne
<1>5. Three(X, <<t>>, Y) /\ FramesOf(W) = FramesOf(X) \cup FramesOf(Y)
    BY <1>2, <1>4, ThreeFrames, FramesCat
<1>6. FramesOf(W) \subseteq FramesOf(wire)
    BY <1>2, <1>5 DEF Three
<1>7. W \in Seq(OnLine)
    BY <1>2, LineCat
<1> HIDE DEF W
<1> QED BY <1>1, <1>3, <1>6, <1>7, HurtBound, BoundFault DEF Lose

LEMMA BoundPrint ==
    ASSUME StreamInv, StreamBound, NEW b \in Byte, PrintText(b)
    PROVE  StreamBound'
<1> DEFINE n == Len(sent)
           k == n + 1
           T == Tagged(<<b>>, n + 1)
           W == wire \o T
<1>1. sent \in Seq(Bodies[dir]) /\ wire \in Seq(OnLine) /\ FramesOf(wire) \subseteq Numbers
    BY DEF StreamInv, StreamType, StreamBound
<1>2. n \in Nat /\ k \in Nat /\ k \in Numbers /\ {k} \subseteq 1 .. MaxFrames + 2
  <2>1. n \in Nat /\ n <= MaxFrames /\ MaxFrames \in Nat
      BY <1>1, LenProperties, CodecAssumption DEF StreamBound
  <2> QED BY <2>1 DEF Numbers
<1>3. T \in Seq(OnLine) /\ FramesOf(T) \subseteq {k}
  <2>1. <<b>> \in Seq(Byte)
      BY One
  <2> QED BY <1>2, <2>1, TagsFacts
<1>4. wire' = W /\ hurt' = hurt \cup {k} /\ Fault
    BY DEF PrintText
<1> HIDE DEF T
<1>5. W \in Seq(OnLine) /\ FramesOf(W) = FramesOf(wire) \cup FramesOf(T)
    BY <1>1, <1>3, LineCat, FramesCat
<1> HIDE DEF W, k
<1>6. FramesOf(W) \subseteq Numbers
    BY <1>1, <1>2, <1>3, <1>5
<1> QED BY <1>2, <1>4, <1>5, <1>6, BoundFault

\* The decoder of the board never holds more than its buffer, the gateway's never
\* hold a complete frame back, and what they return as a frame is a body that
\* parses: whatever the stream, its cuts and its faults.
THEOREM StreamTyped == CodecSpec => []CodecTypeOK
<1>1. CodecInit => StreamBound
    BY BoundStart
<1>2. StreamInv /\ StreamBound /\ [CodecNext]_codecVars => StreamBound'
  <2> SUFFICES ASSUME StreamInv, StreamBound, [CodecNext]_codecVars PROVE StreamBound'
      OBVIOUS
  <2>1. ASSUME NEW body \in Bodies[dir], Send(body) PROVE StreamBound'
      BY <2>1, BoundSend
  <2>2. ASSUME NEW n \in 1 .. Len(wire), Feed(n) PROVE StreamBound'
      BY <2>2, BoundFeed
  <2>3. ASSUME NEW i \in 1 .. Len(wire), NEW b \in Byte, Flip(i, b) PROVE StreamBound'
      BY <2>3, BoundFlip
  <2>4. ASSUME NEW i \in 1 .. Len(wire), Lose(i) PROVE StreamBound'
      BY <2>4, BoundLose
  <2>5. ASSUME NEW b \in Byte \ {0}, PrintText(b) PROVE StreamBound'
      BY <2>5, BoundPrint
  <2>6. ASSUME Close PROVE StreamBound'
      BY <2>6, BoundClose
  <2>7. ASSUME UNCHANGED codecVars PROVE StreamBound'
      BY <2>7 DEF codecVars, StreamBound, Made, Incomplete
  <2> QED BY <2>1, <2>2, <2>3, <2>4, <2>5, <2>6, <2>7 DEF CodecNext
<1>3. StreamInv /\ StreamBound => CodecTypeOK
    BY StreamTypes
<1>4. CodecSpec => []StreamInv
    BY StreamInvariant
<1> QED BY <1>1, <1>2, <1>3, <1>4, PTL DEF CodecSpec

==============================================================================
