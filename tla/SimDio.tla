------------------------------- MODULE SimDio -------------------------------
(***************************************************************************)
(* The digital link of the simulator: node A drives dio.tx and sends       *)
(* bursts and handshakes, a virtual wire delays, loses and disturbs them,  *)
(* node B polls the wire and reports.  A simulated node and a real one are *)
(* to look alike to the station: beside B's monitor and A's link state     *)
(* stand the receiver and the link watch of the firmware (twin), given the *)
(* same bits and the same outcomes.                                        *)
(*                                                                         *)
(* dio_step awaits nothing that suspends it, so that a step of a node is   *)
(* one action.  Times on the wire are counted from now, in ticks; only the *)
(* rate limiters read the clock.                                           *)
(***************************************************************************)
EXTENDS DioFrame, FiniteSets

CONSTANTS
    GapBits,          \* IDLE_GAP_BITS (16)
    FramesPerBurst,   \* frames_per_burst (20)
    LostAfter,        \* lost_after_timeouts (3)
    Limits,           \* event_limits: of each event, its window and how many fit in it
    Delays,           \* one-way delays: delay_us, give or take jitter_us
    GlitchWidth,      \* glitch_width_us
    Wrap,             \* the clock of the limiters wraps (2^32 ms)
    Flips,            \* bound: the bits of a frame that may be flipped
    StepEvery,        \* bound: ticks between two steps of B
    MaxOps,           \* bound: blinks, writes, bursts and handshakes
    MaxMishaps        \* bound: edges and frames lost, flips, glitches, reboots

ASSUME SimAssumption ==
    /\ {FramesPerBurst, LostAfter, Wrap} \subseteq Nat \ {0}
    /\ {GapBits, GlitchWidth, StepEvery, MaxOps, MaxMishaps} \subseteq Nat
    /\ Delays \subseteq Nat /\ Delays # {} /\ Flips \subseteq Nat \ {0}
    /\ \A k \in 0 .. MaxOps * FramesPerBurst : Body(k) \in Seq(Word) /\ Len(Body(k)) < MaxPayload
    /\ DOMAIN Limits = {"dio.edge", "link.lost.frames", "link.frame_ok", "link.crc_err"}
    /\ \A key \in DOMAIN Limits : Limits[key] \in [window : 1 .. Wrap - 1, max : Nat]

Keys == DOMAIN Limits

VARIABLES
    now,          \* the millisecond clock of the limiters
    manual,       \* manual mode of A
    back,         \* whether B is cabled back to A
    tx_seq,       \* A: the next test frame
    watch,        \* A: link_state and consec_timeouts
    wire,         \* the cable: last level sent, levels and frames on their way
    sight,        \* the cable: what the receiver sees of the level
    sincePoll,    \* ticks since B polled it
    rx_level,     \* B: the level it believes
    edges,        \* B: edges_rx and edges_reported
    monitor,      \* B: FrameRx, statistics and expected index
    limiters,     \* B: one for each event
    ops,          \* operations so far
    mishaps,      \* mishaps so far
    edgeLost,     \* history: the last edge sent was lost
    disturbed,    \* history: a bit was flipped or a node has rebooted
    gapped,       \* history: more frames lost in a row than their first word can tell
    arrived,      \* history: frames that reached B, and the number after the last of them
    ledger,       \* history: of each event, its refusals, what was told of them, age of the window
    twin          \* history: the firmware's receiver and link watch

nodeA == <<manual, back, tx_seq, watch>>
nodeB == <<rx_level, edges, monitor, limiters>>
cable == <<wire, sight, sincePoll>>
bounds == <<ops, mishaps>>
wireHistory == <<edgeLost, disturbed, gapped, arrived>>
simVars == <<now, nodeA, nodeB, cable, bounds, wireHistory, ledger, twin>>

-----------------------------------------------------------------------------
(* Plausible mistakes.                                                     *)

\* Jitter alone decides when something arrives.
ArrivalByJitter(w, delay) == delay

\* One timeout too many before the link is lost.
GivesUpLate(timeouts) == timeouts > LostAfter

\* Times subtracted without regard to the wrap.
ElapsedUnbounded(then) == now - then

\* A valid frame is compared with the frame expected.
ResyncIndexStays(expected, byte0) == expected

-----------------------------------------------------------------------------
\* What becomes of base, step after step, for the members of s in their order.
Over(step(_, _), base, s) ==
    LET sofar[i \in 0 .. Len(s)] == IF i = 0 THEN base ELSE step(sofar[i - 1], s[i])
    IN  sofar[Len(s)]

-----------------------------------------------------------------------------
(* VirtualWire.  Heap and frames are kept in the order in which they are   *)
(* popped.                                                                 *)

\* Behind what is due no later.
Put(heap, e) ==
    LET sooner == {i \in DOMAIN heap : heap[i].in <= e.in}
        place == CHOOSE n \in 0 .. Len(heap) :
                    n \in sooner \cup {0} /\ \A i \in sooner : i <= n
    IN  SubSeq(heap, 1, place) \o <<e>> \o SubSeq(heap, place + 1, Len(heap))

\* Nothing overtakes what was sent before, however large the jitter.
Arrival(w, delay) == IF delay < w.behind THEN w.behind ELSE delay

EdgeFates == [lost : {FALSE}, delay : Delays] \cup [lost : {TRUE}, delay : {0}]
FrameFates == [lost : {FALSE}, delay : Delays, flip : Flips \cup {0}]
              \cup [lost : {TRUE}, delay : {0}, flip : {0}]
Struck(fate) == IF fate.lost THEN 1 ELSE 0

\* What fates there are to choose from, if there is anything to be sent.
Fates(sent, fates) == IF sent THEN fates ELSE {CHOOSE fate \in fates : ~fate.lost}

\* send_level.  A level that is there already sends nothing.
SendLevel(w, level, fate) ==
    IF level = w.sent THEN w
    ELSE IF fate.lost THEN [w EXCEPT !.sent = level]
    ELSE LET in == Arrival(w, fate.delay)
         IN [w EXCEPT !.sent = level, !.behind = in,
                      !.heap = Put(@, [in |-> in, kind |-> "set", value |-> level])]

EdgeLost(level, fate) == IF level = wire.sent THEN edgeLost ELSE fate.lost

\* carry_frame: dropped whole, or delayed, with at most one bit flipped.
Flipped(bits, flip) == [i \in DOMAIN bits |-> IF i = flip THEN 1 - bits[i] ELSE bits[i]]

CarryFrame(w, carried) ==
    IF carried.fate.lost THEN w
    ELSE LET in == Arrival(w, carried.fate.delay)
         IN [w EXCEPT !.behind = in,
                      !.frames = Append(@,
                          [in |-> in, seq |-> carried.seq,
                           bits |-> Flipped(FrameBits(carried.seq), carried.fate.flip)])]

\* One event popped by poll.
Applied(s, e) ==
    CASE e.kind = "set" -> [s EXCEPT !.real = e.value]
      [] e.kind = "on"  -> [s EXCEPT !.glitching = @ + 1]
      [] e.kind = "off" -> [s EXCEPT !.glitching = @ - 1]

Visible(s) == IF s.glitching > 0 THEN 1 - s.real ELSE s.real

Seen(s, e) ==
    LET t == Applied(s, e)
    IN  [t EXCEPT !.visible = Visible(t), !.edges = @ + (IF Visible(t) # s.visible THEN 1 ELSE 0)]

\* _inject_glitches: pulses that began since the last poll, at the times given.
Glitched(heap, times) ==
    LET Pulse(h, t) == Put(Put(h, [in |-> t, kind |-> "on", value |-> 0]),
                           [in |-> t + GlitchWidth, kind |-> "off", value |-> 0])
        upto[n \in 0 .. sincePoll] ==
            IF n = 0 THEN heap
            ELSE IF n - sincePoll \in times THEN Pulse(upto[n - 1], n - sincePoll)
            ELSE upto[n - 1]
    IN  upto[sincePoll]

\* How many are popped: those before the first that is still on its way.
Ripe(queue) ==
    CHOOSE n \in 0 .. Len(queue) :
        /\ \A i \in 1 .. n : queue[i].in <= 0
        /\ n < Len(queue) => queue[n + 1].in > 0

Due(queue) == SubSeq(queue, 1, Ripe(queue))
NotDue(queue) == SubSeq(queue, Ripe(queue) + 1, Len(queue))

-----------------------------------------------------------------------------
(* FrameRx and LinkMonitor.                                                *)

RxReset == [state |-> "HUNT", shift |-> Zero, cur |-> <<>>, len |-> 0, buf |-> <<>>]

NoReport == [status |-> "none", len |-> 0, payload |-> <<>>]

\* A byte completes: the register forgets what it has seen.
ByteTaken(rx, byte) ==
    LET fresh == [rx EXCEPT !.cur = <<>>, !.shift = Zero]
        buf == Append(rx.buf, byte)
    IN CASE rx.state = "LEN" /\ Value(byte) \notin 1 .. MaxPayload -> RxReset
         [] rx.state = "LEN" /\ Value(byte) \in 1 .. MaxPayload ->
                [fresh EXCEPT !.state = "PAYLOAD", !.len = Value(byte), !.buf = <<>>]
         [] rx.state = "PAYLOAD" ->
                [fresh EXCEPT !.buf = buf, !.state = IF Len(buf) = rx.len THEN "CRC" ELSE "PAYLOAD"]
         [] rx.state = "CRC" -> RxReset

ByteReport(rx, byte) ==
    CASE rx.state = "LEN" /\ Value(byte) \notin 1 .. MaxPayload -> [NoReport EXCEPT !.status = "len_err"]
      [] rx.state = "CRC" ->
            [status |-> IF Checksum(<<ToWord(rx.len)>> \o rx.buf) = byte THEN "ok" ELSE "crc_err",
             len |-> rx.len, payload |-> rx.buf]
      [] OTHER -> NoReport

ByteIsFull(rx) == rx.state # "HUNT" /\ Len(rx.cur) = WordBits - 1

\* feed_bit
Fed(rx, b) ==
    LET shift == Append(Tail(rx.shift), b)
    IN IF ByteIsFull(rx) THEN ByteTaken(rx, Append(rx.cur, b))
       ELSE IF rx.state # "HUNT" THEN [rx EXCEPT !.cur = Append(@, b)]
       ELSE [rx EXCEPT !.shift = shift, !.state = IF shift = Sync THEN "LEN" ELSE "HUNT"]

FedReport(rx, b) == IF ByteIsFull(rx) THEN ByteReport(rx, Append(rx.cur, b)) ELSE NoReport

\* resync_index of the simulator.
Resynced(expected, byte0) == expected + ((Value(byte0) - expected) % Values)

\* payload_bit_errors: over the bytes that arrived, the expected ones padded with zeros.
BitErrors(received, expected) ==
    Cardinality({ij \in (DOMAIN received) \X (1 .. WordBits) :
        received[ij[1]][ij[2]] # (IF ij[1] <= Len(expected) THEN expected[ij[1]] ELSE Zero)[ij[2]]})

NewMonitor == [rx |-> RxReset, expected |-> 0, ok |-> 0, crc_err |-> 0, len_err |-> 0, bit_errors |-> 0]

\* _account
Accounted(m, r) ==
    LET k == IF r.status = "ok" THEN Resynced(m.expected, r.payload[1]) ELSE m.expected
    IN IF r.status = "len_err" THEN [m EXCEPT !.len_err = @ + 1]
       ELSE [m EXCEPT !.expected = k + 1,
                      !.ok = IF r.status = "ok" THEN @ + 1 ELSE @,
                      !.crc_err = IF r.status = "crc_err" THEN @ + 1 ELSE @,
                      !.bit_errors = @ + BitErrors(r.payload, TestPayload(k))]

\* The events of one report, in the order of _dio_frame_report.
EventsOf(m, r) ==
    IF r.status # "ok" THEN <<"link.crc_err">>
    ELSE (IF Resynced(m.expected, r.payload[1]) # m.expected THEN <<"link.lost.frames">> ELSE <<>>)
         \o <<"link.frame_ok">>

\* feed_bits, one bit of it.
Monitored(acc, b) ==
    LET m == [acc.monitor EXCEPT !.rx = Fed(acc.monitor.rx, b)]
        r == FedReport(acc.monitor.rx, b)
    IN IF r.status = "none" THEN [acc EXCEPT !.monitor = m]
       ELSE [acc EXCEPT !.monitor = Accounted(m, r), !.events = @ \o EventsOf(m, r)]

\* The bits of a frame, and the gap after it.
Burst(f) == f.bits \o [i \in 1 .. GapBits |-> 0]

Heard(acc, f) == Over(Monitored, acc, Burst(f))

-----------------------------------------------------------------------------
(* The firmware, for comparison.                                           *)

NewTwin == [rx |-> RxInit, expect |-> 0, ok |-> 0, crc_err |-> 0, len_err |-> 0, bit_errors |-> FALSE]
NewWatch == [bad |-> 0, good |-> 0, up |-> FALSE, known |-> FALSE]

\* isr_rx_clk_b and handle_rx, for one bit.
Firmware(t, b) ==
    LET msg == Pushed(t.rx, b)
        u == [t EXCEPT !.rx = PushBit(t.rx, b)]
        k == IF msg.result = "OK" THEN ResyncIndex(t.expect, msg.payload[1]) ELSE t.expect
    IN CASE msg.result = "NONE" -> u
         [] msg.result = "LEN_ERR" -> [u EXCEPT !.len_err = @ + 1]
         [] OTHER -> [u EXCEPT !.expect = k + 1,
                               !.ok = IF msg.result = "OK" THEN @ + 1 ELSE @,
                               !.crc_err = IF msg.result = "CRC_ERR" THEN @ + 1 ELSE @,
                               !.bit_errors = @ \/ Differs(msg.payload, TestPayload(k))]

Clocked(t, f) == Over(Firmware, t, Burst(f))

\* esps_dio_linkwatch_update, with up_after = 1.  Its counters saturate at 65535, which
\* no threshold, a u16 itself, exceeds: saturation decides nothing.
LinkWatch(w, ok) ==
    LET good == IF ok THEN w.good + 1 ELSE 0
        bad == IF ok THEN 0 ELSE w.bad + 1
        rises == ok /\ (~w.known \/ ~w.up) /\ good >= 1
        falls == ~ok /\ (~w.known \/ w.up) /\ bad >= LostAfter
    IN [bad |-> bad, good |-> good,
        up |-> IF rises THEN TRUE ELSE IF falls THEN FALSE ELSE w.up,
        known |-> IF rises \/ falls THEN TRUE ELSE w.known]

\* The link state of A after a handshake.
GivesUp(timeouts) == timeouts >= LostAfter

Shaken(state, ok) ==
    LET timeouts == IF ok THEN 0 ELSE state.consec_timeouts + 1
    IN [consec_timeouts |-> timeouts,
        link_state |-> IF ok THEN "up" ELSE IF GivesUp(timeouts) THEN "lost" ELSE state.link_state]

-----------------------------------------------------------------------------
(* RateLimit.                                                              *)

Elapsed(then) == (now - then) % Wrap

Expired(l, key) == ~l.started \/ Elapsed(l.start) >= Limits[key].window
Admits(count, key) == count < Limits[key].max

\* What fills the window when the next event comes, and whether that is let through.
Filled(l, key) == IF Expired(l, key) THEN 0 ELSE l.count
Allowed(l, key) == Admits(Filled(l, key), key)

\* allow, and take_suppressed if it did.
Limited(l, key) ==
    [started |-> TRUE, start |-> IF Expired(l, key) THEN now ELSE l.start,
     count |-> Filled(l, key) + (IF Allowed(l, key) THEN 1 ELSE 0),
     suppressed |-> IF Allowed(l, key) THEN 0 ELSE l.suppressed + 1]

\* The same in the ledger.
Entered(e, l, key) ==
    [age |-> IF Expired(l, key) THEN 0 ELSE e.age,
     refused |-> e.refused + (IF Allowed(l, key) THEN 0 ELSE 1),
     told |-> e.told + (IF Allowed(l, key) THEN l.suppressed ELSE 0)]

\* _dio_event_limited
Emitted(acc, key) ==
    LET l == acc.limiters[key]
    IN [limiters |-> [acc.limiters EXCEPT ![key] = Limited(l, key)],
        ledger |-> [acc.ledger EXCEPT ![key] = Entered(@, l, key)]]

-----------------------------------------------------------------------------
(* The cable is plugged in while the pin of A is at some level, and B has polled once. *)
SimInit ==
    /\ now = 0
    /\ manual \in BOOLEAN /\ back \in BOOLEAN
    /\ tx_seq = 0 /\ watch = [link_state |-> "init", consec_timeouts |-> 0]
    /\ \E level \in {0, 1} :
          /\ wire = [sent |-> level, behind |-> 0, heap |-> <<>>, frames |-> <<>>]
          /\ sight = [real |-> level, glitching |-> 0, visible |-> level, edges |-> 0]
    /\ sincePoll = 0
    /\ rx_level = 0 /\ edges = [rx |-> 0, reported |-> 0]
    /\ monitor = NewMonitor
    /\ limiters = [key \in Keys |-> [started |-> FALSE, start |-> 0, count |-> 0, suppressed |-> 0]]
    /\ ops = 0 /\ mishaps = 0
    /\ edgeLost = FALSE /\ disturbed = FALSE /\ gapped = FALSE
    /\ arrived = [frames |-> 0, next |-> 0]
    /\ ledger = [key \in Keys |-> [age |-> 0, refused |-> 0, told |-> 0]]
    /\ twin = [board |-> NewTwin, watch |-> NewWatch]

Operate(n) == ops' = ops + n /\ ops' <= MaxOps
Mishaps(n) == mishaps' = mishaps + n /\ mishaps' <= MaxMishaps

\* set_gpio on the pin of dio.tx: the link owns it, but for manual mode.
SetGpio ==
    /\ manual
    /\ Operate(1)
    /\ \E level \in {0, 1}, fate \in EdgeFates :
          /\ wire' = SendLevel(wire, level, fate)
          /\ edgeLost' = EdgeLost(level, fate)
          /\ Mishaps(Struck(fate))
    /\ UNCHANGED <<now, nodeA, nodeB, sight, sincePoll, disturbed, gapped, arrived, ledger, twin>>

\* _dio_handshake of A, and the link watch told the same.
Handshake(answered) ==
    /\ watch' = Shaken(watch, answered)
    /\ twin' = [twin EXCEPT !.watch = LinkWatch(@, answered)]

\* dio_step of A: what has fallen due of the blinking, the bursts and the handshakes, in
\* that order.  A handshake needs the cable back, and both of its legs.
Phases == {"blink", "burst", "handshake"}

StepA ==
    /\ ~manual
    /\ \E due \in (SUBSET Phases) \ {{}} :
       \E edge \in Fates("blink" \in due, EdgeFates),
          burst \in [1 .. FramesPerBurst -> Fates("burst" \in due, FrameFates)],
          legs \in IF "handshake" \in due THEN BOOLEAN ELSE {TRUE} :
          LET blinked == IF "blink" \in due THEN SendLevel(wire, 1 - wire.sent, edge) ELSE wire
              frames == [i \in 1 .. FramesPerBurst |-> [seq |-> tx_seq + i - 1, fate |-> burst[i]]]
              hit == {i \in DOMAIN burst :
                         "burst" \in due /\ (burst[i].lost \/ burst[i].flip # 0)}
          IN /\ Operate(Cardinality(due))
             /\ wire' = IF "burst" \in due THEN Over(CarryFrame, blinked, frames) ELSE blinked
             /\ tx_seq' = IF "burst" \in due THEN tx_seq + FramesPerBurst ELSE tx_seq
             /\ disturbed' = (disturbed \/ \E i \in hit : burst[i].flip # 0)
             /\ edgeLost' = IF "blink" \in due THEN edge.lost ELSE edgeLost
             /\ IF "handshake" \in due THEN Handshake(back /\ legs) ELSE UNCHANGED <<watch, twin>>
             /\ Mishaps(Struck(edge) + Cardinality(hit))
    /\ UNCHANGED <<now, manual, back, nodeB, sight, sincePoll, gapped, arrived, ledger>>

\* dio_step of B: the levels that have arrived, the report of them, the frames that have
\* arrived, each of them followed by a gap.
StepB ==
    \E times \in SUBSET (1 - sincePoll .. 0) :
       LET heap == Glitched(wire.heap, times)
           seen == Over(Seen, [sight EXCEPT !.edges = 0], Due(heap))
           count == edges.rx + seen.edges
           came == Due(wire.frames)
           fed == Over(Heard, [monitor |-> monitor, events |-> <<>>], came)
           events == (IF count # edges.reported THEN <<"dio.edge">> ELSE <<>>) \o fed.events
           told == Over(Emitted, [limiters |-> limiters, ledger |-> ledger], events)
           nexts == <<arrived.next>> \o [i \in DOMAIN came |-> came[i].seq + 1]
       IN /\ Mishaps(Cardinality(times))
          /\ wire' = [wire EXCEPT !.heap = NotDue(heap), !.frames = NotDue(@)]
          /\ sight' = [seen EXCEPT !.edges = 0]
          /\ sincePoll' = 0
          /\ rx_level' = IF seen.edges > 0 THEN seen.visible ELSE rx_level
          /\ edges' = [rx |-> count, reported |-> count]
          /\ monitor' = fed.monitor
          /\ limiters' = told.limiters /\ ledger' = told.ledger
          /\ twin' = [twin EXCEPT !.board = Over(Clocked, @, came)]
          /\ arrived' = [frames |-> arrived.frames + Len(came), next |-> nexts[Len(nexts)]]
          /\ gapped' = (gapped \/ \E i \in DOMAIN came : came[i].seq - nexts[i] >= Values)
    /\ UNCHANGED <<now, nodeA, ops, edgeLost, disturbed>>

\* _dio_on_boot.  The pin falls to 0, which is an edge if it was not.
RebootA ==
    /\ \E fate \in EdgeFates :
          /\ wire' = SendLevel(wire, 0, fate)
          /\ edgeLost' = EdgeLost(0, fate)
          /\ Mishaps(1 + Struck(fate))
    /\ tx_seq' = 0 /\ watch' = [link_state |-> "init", consec_timeouts |-> 0]
    /\ disturbed' = TRUE
    /\ twin' = [twin EXCEPT !.watch = NewWatch]
    /\ UNCHANGED <<now, manual, back, nodeB, sight, sincePoll, ops, gapped, arrived, ledger>>

\* Neither the level B believes, nor its count of edges, nor its limiters are cleared.
RebootB ==
    /\ Mishaps(1)
    /\ monitor' = NewMonitor /\ disturbed' = TRUE
    /\ twin' = [twin EXCEPT !.board = NewTwin]
    /\ UNCHANGED <<now, nodeA, rx_level, edges, limiters, cable, ops, edgeLost, gapped, arrived, ledger>>

Nearer(queue) == [i \in DOMAIN queue |-> [queue[i] EXCEPT !.in = @ - 1]]

Tick ==
    /\ sincePoll < StepEvery
    /\ sincePoll' = sincePoll + 1
    /\ now' = (now + 1) % Wrap
    /\ wire' = [wire EXCEPT !.behind = IF @ > 0 THEN @ - 1 ELSE 0,
                            !.heap = Nearer(@), !.frames = Nearer(@)]
    /\ ledger' = [key \in Keys |-> [ledger[key] EXCEPT !.age =
                    IF limiters[key].started /\ @ < Wrap THEN @ + 1 ELSE @]]
    /\ UNCHANGED <<nodeA, nodeB, sight, bounds, wireHistory, twin>>

SimNext == SetGpio \/ StepA \/ StepB \/ RebootA \/ RebootB \/ Tick

SimSpec == SimInit /\ [][SimNext]_simVars
-----------------------------------------------------------------------------
(* Properties.                                                             *)

SimTypeOK ==
    /\ now \in 0 .. Wrap - 1 /\ sincePoll \in 0 .. StepEvery
    /\ tx_seq \in 0 .. MaxOps * FramesPerBurst
    /\ watch \in [link_state : {"init", "up", "lost"}, consec_timeouts : 0 .. MaxOps]
    /\ {wire.sent, sight.real, sight.visible, rx_level} \subseteq {0, 1}
    /\ sight.glitching \in 0 .. MaxMishaps
    /\ monitor.rx.state \in {"HUNT", "LEN", "PAYLOAD", "CRC"} /\ monitor.rx.shift \in Word
    /\ Len(monitor.rx.cur) < WordBits /\ Len(monitor.rx.buf) <= MaxPayload
    /\ \A key \in Keys : limiters[key].start \in 0 .. Wrap - 1 /\ limiters[key].count <= Limits[key].max

\* Once the last level sent has arrived and no glitch is left, B believes it: whatever was
\* lost before it, however late and uneven the edges came, and whatever pulses lay over
\* them.  The level at which the cable was plugged in is the exception: it is no edge.
LevelSettles ==
    wire.heap = <<>> /\ ~edgeLost /\ edges.rx > 0 => rx_level = wire.sent

\* On a cable that flips no bit, with no reboot, lost frames are missed and nothing else:
\* every frame that arrives is valid and free of errors, and B knows its number, as long
\* as fewer frames than a word can tell apart are lost in a row.
LostFramesAreOnlyMissed ==
    ~disturbed /\ ~gapped =>
        /\ monitor.ok = arrived.frames /\ monitor.expected = arrived.next
        /\ monitor.crc_err = 0 /\ monitor.len_err = 0 /\ monitor.bit_errors = 0

\* The simulated node counts and expects what the firmware would of the same bits, and
\* believes of the link what the link watch would: their events are alike.
TwinsAgree ==
    /\ monitor.expected = twin.board.expect
    /\ monitor.ok = twin.board.ok /\ monitor.crc_err = twin.board.crc_err
    /\ monitor.len_err = twin.board.len_err
    /\ (monitor.bit_errors > 0) = twin.board.bit_errors
    /\ monitor.rx.state = twin.board.rx.state
    /\ watch.consec_timeouts = twin.watch.bad
    /\ watch.link_state = IF ~twin.watch.known THEN "init" ELSE IF twin.watch.up THEN "up" ELSE "lost"

\* No event is held back but within a window that is full, also when the clock wraps
\* within it, and each is told of with the next one that gets through.
HushedIsTold ==
    [][\A key \in Keys :
          /\ ledger'[key].refused > ledger[key].refused =>
                ledger'[key].age < Limits[key].window \/ ledger'[key].age = Wrap
          /\ ledger'[key].refused = ledger'[key].told + limiters'[key].suppressed]_simVars

\* test_sim_wire.py:500: "a lost frame is not a bit error".  Not of more frames in a row
\* than the first word of a payload can tell apart: every later frame is then compared
\* with the wrong one.
LostFrameIsNoBitError == ~disturbed => monitor.bit_errors = 0
=============================================================================
