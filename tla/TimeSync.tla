------------------------------ MODULE TimeSync ------------------------------
(***************************************************************************)
(* How the gateway dates what a node says: the node stamps with its own    *)
(* milliseconds since boot, the gateway keeps one offset per node and adds *)
(* it.  An offset comes from a HELLO, which is a one-way measurement, or   *)
(* from an exchange of the TIME_SYNC loop.                                 *)
(*                                                                         *)
(* Time is counted in ticks, Res of them to a millisecond of the node, and *)
(* the uptime of a node is cut to whole milliseconds.  Offsets are halves  *)
(* of ticks, so they are kept doubled.  An era is a span of the clock of   *)
(* the node that one offset can be right for: a boot, or a lap of its 32   *)
(* bits.  Eras, the hour a frame was made and the last disturbance are     *)
(* ghosts that no action reads.                                            *)
(***************************************************************************)
EXTENDS Integers, Sequences

CONSTANTS
    Res,        \* ticks in a millisecond
    Wrap,       \* milliseconds after which the clock of a board wraps (2^32)
    Period,     \* ticks between the turns of the loop (30 s)
    Prompt,     \* ticks a prompt frame, or task, may take
    MaxFlight,  \* bound: frames on their way, and requests being answered
    MaxTime,    \* bound: the hour at which the clock stops
    Faults      \* bound: reboots, restarts and lost frames together

ASSUME TimeSyncAssumption ==
    /\ {Res, Wrap, Period, MaxFlight, MaxTime} \subseteq Nat \ {0}
    /\ {Prompt, Faults} \subseteq Nat
    /\ 3 * Prompt < Period    \* a prompt exchange is over before the next one

None == -1

VARIABLES
    now, born, era,     \* the hour; when the node started; its era
    kind,               \* "board" or "sim"
    answering,          \* the request a node is answering, received at t2
    up, down,           \* frames to the gateway, frames to the node
    loop, wake,         \* the TIME_SYNC loop and when its sleep is over
    pending,            \* _time_sync_pending of the node: t1
    row,                \* the node has a row in the store
    linked,             \* the node is in node_link
    offset,             \* its offset in the store
    calm,               \* hour of the last disturbance
    faults

node == <<born, era, kind, answering>>
gateway == <<loop, wake, pending, row, linked, offset>>
vars == <<now, node, up, down, gateway, calm, faults>>

InFlight == Len(up) + Len(down) + (IF answering.t1 = None THEN 0 ELSE 1)
NoOffset == [value2 |-> 0, rtt |-> 0, era |-> None, slack2 |-> 0]
NotAnswering == [t1 |-> None, t2 |-> 0, era |-> None]

Larger(a, b) == IF a > b THEN a ELSE b

\* uptime_ms of the simulated node, esps_time_now_ms of the board.
Uptime == LET ms == (now - born) \div Res
          IN  IF kind = "board" THEN ms % Wrap ELSE ms

Frame(t, t1, t2, t3, e) ==
    [type |-> t, t1 |-> t1, t2 |-> t2, t3 |-> t3, made |-> now, era |-> e]
Hello == Frame("hello", None, Uptime, Uptime, era)
Stamped == Frame("stamped", None, Uptime, None, era)   \* EVENT, LOG, TELEMETRY
-----------------------------------------------------------------------------
Init ==
    /\ now = 0 /\ born = 0 /\ era = 0 /\ kind \in {"board", "sim"}
    /\ answering = NotAnswering /\ up = <<>> /\ down = <<>>
    /\ loop = "running" /\ wake = Period /\ pending = None
    /\ row = FALSE /\ linked = FALSE /\ offset = NoOffset
    /\ calm = 0 /\ faults = 0

\* Something on its way, or at work, for longer than is prompt.
Late ==
    \/ \E i \in 1 .. Len(up) : now - up[i].made >= Prompt
    \/ \E i \in 1 .. Len(down) : now - down[i] >= Prompt
    \/ answering # NotAnswering /\ now - answering.t1 >= 2 * Prompt
    \/ loop = "running" /\ now - wake >= Prompt

Tick ==
    /\ now < MaxTime
    /\ now' = now + 1
    /\ LET lap == kind = "board" /\ (now' - born) % (Res * Wrap) = 0
       IN  /\ era' = IF lap THEN era + 1 ELSE era
           /\ calm' = IF lap \/ Late THEN now' ELSE calm
    /\ UNCHANGED <<born, kind, answering, up, down, gateway, faults>>
-----------------------------------------------------------------------------
(* The node. *)

Say(f) == up' = Append(up, f)

SendStamped ==
    /\ InFlight < MaxFlight /\ Say(Stamped)
    /\ UNCHANGED <<now, node, down, gateway, calm, faults>>

\* A board announces itself until it is heard, a simulated node when it is
\* attached.
SendHello ==
    /\ kind = "board" \/ now = born
    /\ InFlight < MaxFlight /\ Say(Hello)
    /\ UNCHANGED <<now, node, down, gateway, calm, faults>>

\* t2 is taken when the request is received, t3 when the answer is built.
ReceiveAsk ==
    /\ down # <<>> /\ answering = NotAnswering
    /\ down' = Tail(down)
    /\ answering' = [t1 |-> Head(down), t2 |-> Uptime, era |-> era]
    /\ UNCHANGED <<now, born, era, kind, up, gateway, calm, faults>>

Answer ==
    /\ answering # NotAnswering
    /\ Say(Frame("reply", answering.t1, answering.t2, Uptime, answering.era))
    /\ answering' = NotAnswering
    /\ UNCHANGED <<now, born, era, kind, down, gateway, calm, faults>>

Disturbed == faults < Faults /\ faults' = faults + 1 /\ calm' = now

Restarted ==
    /\ Disturbed
    /\ born' = now /\ era' = era + 1

\* The command of a simulated node, which then tells of the reboot and
\* announces itself; what it had sent is still on its way.
SimReboot ==
    /\ kind = "sim" /\ Restarted /\ answering = NotAnswering
    /\ InFlight + 2 <= MaxFlight
    /\ up' = up \o <<Frame("stamped", None, 0, None, era'), Frame("hello", None, 0, 0, era')>>
    /\ UNCHANGED <<now, kind, answering, down, gateway>>

\* A board forgets the request it was answering and what it had queued; a
\* part of that may be on the wire.
BoardReset ==
    /\ kind = "board" /\ Restarted
    /\ answering' = NotAnswering
    /\ \E n \in 0 .. Len(up) : up' = SubSeq(up, 1, n)
    /\ UNCHANGED <<now, kind, down, gateway>>

LoseUp == /\ up # <<>> /\ Disturbed /\ up' = Tail(up)
          /\ UNCHANGED <<now, node, down, gateway>>
LoseDown == /\ down # <<>> /\ Disturbed /\ down' = Tail(down)
            /\ UNCHANGED <<now, node, up, gateway>>
-----------------------------------------------------------------------------
(* The gateway. *)

\* compute_time_sync_offset.
RttUnclamped(t1, t2, t3, t4) == (t4 - t1) - (t3 - t2) * Res
Rtt(t1, t2, t3, t4) == Larger(0, (t4 - t1) - (t3 - t2) * Res)
Offset2(t1, t2, t3, t4) == 2 * t1 + Rtt(t1, t2, t3, t4) - 2 * t2 * Res

\* record_time_sync: an UPDATE, which does nothing without a row.
Recorded(f, t1, slack2) ==
    [value2 |-> Offset2(t1, f.t2, f.t3, now), rtt |-> Rtt(t1, f.t2, f.t3, now),
     era |-> f.era, slack2 |-> slack2]

\* to_epoch, doubled; without an offset it is 0.
ToEpoch2(ms) == 2 * ms * Res + offset.value2

Heard ==    \* any frame: node_link
    /\ up # <<>> /\ up' = Tail(up)
    /\ linked' = TRUE
    /\ UNCHANGED <<now, node, down, loop, wake, faults>>

OnHello ==
    /\ Heard /\ Head(up).type = "hello"
    /\ row' = TRUE
    /\ offset' = Recorded(Head(up), now, 2 * (now - Head(up).made))
    /\ calm' = IF row /\ linked THEN calm ELSE now
    /\ UNCHANGED pending

\* The rows it is stored in are not kept; DatesAreClose judges the date.
OnStamped ==
    /\ Heard /\ Head(up).type = "stamped"
    /\ calm' = IF linked THEN calm ELSE now
    /\ UNCHANGED <<pending, row, offset>>

\* _on_time_sync_reply: a stale reply is ignored, and uses up the request.
MatchesAny(f) == pending # None
Matches(f) == pending # None /\ f.t1 = pending

OnReply ==
    /\ Heard /\ Head(up).type = "reply"
    /\ pending' = None
    /\ offset' = IF Matches(Head(up)) /\ row
                 THEN Recorded(Head(up), pending, Rtt(pending, Head(up).t2, Head(up).t3, now))
                 ELSE offset
    /\ calm' = IF linked THEN calm ELSE now
    /\ UNCHANGED row

\* The sleep of the loop starts when its turn is over.
NextTurnTwice == now + 2 * Period
NextTurn == now + Period

LoopTurn ==
    /\ loop = "running" /\ now >= wake /\ InFlight < MaxFlight
    /\ wake' = NextTurn
    /\ IF linked THEN pending' = now /\ down' = Append(down, now)
                 ELSE UNCHANGED <<pending, down>>
    /\ UNCHANGED <<now, node, up, loop, row, linked, offset, calm, faults>>

\* A send raises, to this node or to another: the loop is over, for all.
LoopFails ==
    /\ loop = "running" /\ now >= wake /\ Disturbed
    /\ loop' = "over"
    /\ pending' \in IF linked THEN {pending, now} ELSE {pending}
    /\ UNCHANGED <<now, node, up, down, wake, row, linked, offset>>

\* The store survives; what was on its way does not.
GatewayRestart ==
    /\ kind = "board" /\ Disturbed
    /\ up' = <<>> /\ down' = <<>>
    /\ loop' = "running" /\ wake' = NextTurn /\ pending' = None /\ linked' = FALSE
    /\ UNCHANGED <<now, node, row, offset>>
-----------------------------------------------------------------------------
Next ==
    \/ Tick
    \/ SendStamped \/ SendHello \/ ReceiveAsk \/ Answer \/ SimReboot \/ BoardReset
    \/ LoseUp \/ LoseDown
    \/ OnHello \/ OnStamped \/ OnReply \/ LoopTurn \/ LoopFails \/ GatewayRestart

Spec == Init /\ [][Next]_vars
-----------------------------------------------------------------------------
Hours == 0 .. MaxTime
FrameType ==
    [type : {"hello", "stamped", "reply"}, t1 : Hours \cup {None}, t2 : Hours,
     t3 : Hours \cup {None}, made : Hours, era : Nat]

(* The type invariant; the measured round trip is never negative. *)
TypeOK ==
    /\ now \in Hours /\ born \in 0 .. now /\ era \in Nat /\ kind \in {"board", "sim"}
    /\ answering = NotAnswering \/ answering \in [t1 : 0 .. now, t2 : Hours, era : 0 .. era]
    /\ up \in Seq(FrameType) /\ down \in Seq(0 .. now)
    /\ InFlight <= MaxFlight
    /\ loop \in {"running", "over"} /\ wake \in Nat
    /\ pending \in (0 .. now) \cup {None} /\ row \in BOOLEAN /\ linked \in BOOLEAN
    /\ offset = NoOffset \/ (row /\ offset.rtt \in Nat /\ offset.era \in 0 .. era)
    /\ offset.value2 \in Int /\ offset.slack2 \in Nat
    /\ calm \in 0 .. now /\ faults \in 0 .. Faults

Apart(a, b) == IF a > b THEN a - b ELSE b - a

(* PROTOCOL.md 4.11, store.py: whatever was lost, delayed, answered late   *)
(* or asked again, a frame dated with an offset of its own era is wrong by *)
(* no more than half the round trip of the exchange, or the transit of the *)
(* HELLO, that the offset comes from, and the milliseconds cut off.        *)
DatesAreClose ==
    [][OnStamped /\ Head(up).era = offset.era
        => Apart(ToEpoch2(Head(up).t2), 2 * Head(up).made) <= offset.slack2 + 2 * Res]_vars

(* ARCHITECTURE.md, data flow: TIME_SYNC establishes the mapping.  After a *)
(* reboot, a lap of the clock, a restart of the gateway or a lost HELLO,   *)
(* one period of the loop and a prompt exchange are enough for the offset  *)
(* to be of the present era, as long as the loop is alive.  The five:      *)
(* the answer to an older request, which uses up the present one; the turn *)
(* after that, a late one; a request, a task and an answer.                *)
SyncedInTime ==
    linked /\ row /\ loop = "running" /\ now - calm > Period + 5 * Prompt
        => offset.era = era

(* D-10: "the gateway must detect and handle the wrap".  It does not: what *)
(* a board that never stopped stamps after the wrap is dated a lap too     *)
(* early, until the next exchange.                                         *)
WrapHandled ==
    [][OnStamped /\ offset.era # None /\ faults = 0
        => Apart(ToEpoch2(Head(up).t2), 2 * Head(up).made) <= offset.slack2 + 2 * Res]_vars
-----------------------------------------------------------------------------
(* What makes DatesAreClose inductive: every era has an hour at which its  *)
(* clock read zero, and every stamp was read off that clock.               *)

Ms(t) == t * Res    \* the ticks of t milliseconds of the node

Starts == [0 .. era -> 0 .. now]

\* A clock that started at this hour shows t at hour h.
Reads(start, t, h) == start + Ms(t) <= h /\ h < start + Ms(t) + Res

\* The clock of a board starts anew with each lap.
ErasInv(starts) ==
    /\ \A e, f \in 0 .. era : e <= f => starts[e] <= starts[f]
    /\ kind = "sim" => starts[era] = born
    /\ kind = "board" =>
          /\ now - starts[era] < Ms(Wrap)
          /\ \E laps \in 0 .. now : starts[era] = born + laps * Ms(Wrap)

\* A reply has two stamps, and the era of the first.
FrameInv(starts, f) ==
    /\ f.type # "reply" => Reads(starts[f.era], f.t2, f.made)
    /\ f.type = "hello" => f.t3 = f.t2
    /\ f.type = "reply" =>
          /\ f.t1 # None /\ f.t3 # None
          /\ \E h \in f.t1 .. f.made : Reads(starts[f.era], f.t2, h)
          /\ starts[f.era] + Ms(f.t3) <= f.made

AnsweringInv(starts) ==
    answering # NotAnswering =>
        \E h \in answering.t1 .. now : Reads(starts[answering.era], answering.t2, h)

OffsetInv(starts) ==
    offset # NoOffset =>
        /\ offset.value2 - 2 * starts[offset.era] >= - offset.slack2
        /\ offset.value2 - 2 * starts[offset.era] <= offset.slack2 + 2 * Res

ClockInv(starts) ==
    /\ ErasInv(starts)
    /\ \A i \in 1 .. Len(up) :
          up[i].made <= now /\ up[i].era <= era /\ FrameInv(starts, up[i])
    /\ AnsweringInv(starts)
    /\ OffsetInv(starts)

IInv == TypeOK /\ \E starts \in Starts : ClockInv(starts)
=============================================================================
