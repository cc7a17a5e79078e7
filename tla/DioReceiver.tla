----------------------------- MODULE DioReceiver -----------------------------
(***************************************************************************)
(* The N3 phase of the digital link between two boards: role A clocks      *)
(* bursts of test frames out bit by bit, role B receives one bit per       *)
(* interrupt, queues the frames it completes for its task, and counts.     *)
(*                                                                         *)
(* The interrupt handler alone writes the receiver s_rx; the task of role  *)
(* B looks at it between two bits, and asks for a reset by a flag when it  *)
(* finds the receiver parked in mid-frame.  The task's look is three reads *)
(* with interrupts between them.                                           *)
(*                                                                         *)
(* The events the task emits, with their rate limits, are left out here:   *)
(* SimDio has those of its twin.                                           *)
(***************************************************************************)
EXTENDS DioFrame

CONSTANTS
    QueueDepth,  \* depth of s_rx_q (24)
    BurstFrames, \* frames of a burst (20)
    ClockFirst,  \* the build: whether idle_ms reads the clock before s_last_bit_us32
    MaxBursts,   \* bound: bursts
    MaxFaults    \* bound: flipped bits, pulled cables and resets together

ASSUME LinkAssumption ==
    /\ \A k \in 0 .. MaxBursts * BurstFrames : Body(k) \in Seq(Word) /\ Len(Body(k)) < MaxPayload
    /\ QueueDepth \in Nat \ {0} /\ BurstFrames \in 1 .. Values
    /\ ClockFirst \in BOOLEAN
    /\ MaxBursts \in Nat /\ MaxFaults \in Nat

VARIABLES
    s_tx_seq,         \* role A: number of the frame being sent, or sent next
    left,             \* role A: frames of the burst still to be sent
    out,              \* role A: bits of the present frame still to be clocked out
    plugged,          \* whether the cable carries the bits
    s_rx,             \* role B: the receiver
    s_rx_resync_req,  \* role B: the task wants the receiver reset
    s_rx_q,           \* role B: frames from the interrupt handler to the task
    s_rx_dropped,     \* role B: frames the full queue refused
    quiet,            \* no bit for ESPS_DIO_RX_IDLE_MS
    task,             \* role B: where maybe_resync is, and what it read
    s_expect,         \* role B: the frame the task expects next
    s_stats,          \* role B: the counters
    bursts,           \* bursts so far
    faults,           \* faults so far
    intact,           \* history: the present frame met a clean receiver and arrived whole
    got,              \* history: what the last bit completed
    completed,        \* history: frames the receiver completed
    noise             \* history: a bit was lost, flipped or thrown away, or a board reset

sender == <<s_tx_seq, left, out, bursts>>
receiver == <<s_rx, s_rx_resync_req, s_rx_q, s_rx_dropped, quiet>>
consumer == <<task, s_expect, s_stats>>
history == <<intact, got, completed, noise>>
vars == <<sender, plugged, receiver, consumer, faults, history>>

-----------------------------------------------------------------------------
(* Plausible mistakes.                                                     *)

\* The interrupt handler clears the flag and forgets to reset.
ReceiverKept == s_rx

\* A frame the queue refuses is not counted.
RefusedForgotten(full) == s_rx_dropped

\* Only a receiver that waits for payload counts as parked.
ParkedInPayload(rx) == rx.state = "PAYLOAD"

-----------------------------------------------------------------------------
TaskInit == [pc |-> "loop", idle |-> FALSE]
StatsInit == [ok |-> 0, crc_err |-> 0, len_err |-> 0, bit_errors |-> FALSE]

Init ==
    /\ s_tx_seq = 0 /\ left = 0 /\ out = <<>>
    /\ plugged = TRUE
    /\ s_rx = RxInit /\ s_rx_resync_req = FALSE
    /\ s_rx_q = <<>> /\ s_rx_dropped = 0
    /\ quiet = TRUE
    /\ task = TaskInit /\ s_expect = 0 /\ s_stats = StatsInit
    /\ bursts = 0 /\ faults = 0
    /\ intact = FALSE /\ got = None /\ completed = 0 /\ noise = FALSE

-----------------------------------------------------------------------------
(* Role A: run_n3_burst.                                                   *)

\* A burst falls due.  Bursts are 10 s apart: by then the line has been quiet for
\* long, and role B's task has emptied its queue.
StartBurst ==
    /\ left = 0
    /\ bursts < MaxBursts
    /\ quiet /\ s_rx_q = <<>>
    /\ left' = BurstFrames
    /\ bursts' = bursts + 1
    /\ UNCHANGED <<s_tx_seq, out, plugged, receiver, consumer, faults, history>>

\* esps_dio_frame_build and esps_dio_txbits_init.
StartFrame ==
    /\ left > 0 /\ out = <<>>
    /\ out' = FrameBits(s_tx_seq)
    /\ UNCHANGED <<s_tx_seq, left, bursts, plugged, receiver, consumer, faults, history>>

FirstBit == Len(out) = Len(FrameBits(s_tx_seq))

-----------------------------------------------------------------------------
(* Role B: isr_rx_clk_b.                                                   *)

\* The receiver the bit is pushed into: a fresh one if the task asked for it.
Receiver == IF s_rx_resync_req THEN RxInit ELSE s_rx

Refused(full) == IF full THEN s_rx_dropped + 1 ELSE s_rx_dropped

OnBit(bit) ==
    LET msg == Pushed(Receiver, bit)
        full == msg # None /\ Len(s_rx_q) >= QueueDepth
    IN /\ s_rx' = PushBit(Receiver, bit)
       /\ s_rx_resync_req' = FALSE
       /\ quiet' = FALSE
       /\ s_rx_q' = IF msg # None /\ ~full THEN Append(s_rx_q, msg) ELSE s_rx_q
       /\ s_rx_dropped' = Refused(full)
       /\ got' = msg
       /\ completed' = IF msg # None THEN completed + 1 ELSE completed

\* A bit later than the time the task has just read: the unsigned difference
\* idle_ms comes out huge.
Overtaken == IF task.pc = "clock" THEN [task EXCEPT !.idle = TRUE] ELSE task

\* tx_frame clocks one bit out; role B is interrupted by it, if it arrives.
ClockBit(flip) ==
    /\ out # <<>>
    /\ flip => plugged
    /\ out' = Tail(out)
    /\ s_tx_seq' = IF Len(out) = 1 THEN s_tx_seq + 1 ELSE s_tx_seq
    /\ left' = IF Len(out) = 1 THEN left - 1 ELSE left
    /\ IF plugged
       THEN /\ OnBit(IF flip THEN 1 - Head(out) ELSE Head(out))
            /\ task' = Overtaken
       ELSE UNCHANGED <<receiver, got, completed, task>>
    /\ intact' = (/\ plugged /\ ~flip
                  /\ IF FirstBit THEN s_rx_resync_req \/ s_rx = RxInit
                     ELSE intact /\ ~s_rx_resync_req)
    /\ noise' = (noise \/ ~plugged \/ flip \/ (s_rx_resync_req /\ ~FirstBit))
    /\ UNCHANGED <<bursts, plugged, s_expect, s_stats>>

SendBit == ClockBit(FALSE) /\ UNCHANGED faults

\* No bit has arrived for 250 ms.  Between the frames of a burst there are only a
\* few milliseconds.
Silence ==
    /\ ~quiet
    /\ (left = 0 /\ out = <<>>) \/ ~plugged
    /\ quiet' = TRUE
    /\ UNCHANGED <<sender, plugged, s_rx, s_rx_resync_req, s_rx_q, s_rx_dropped, consumer,
                   faults, history>>

-----------------------------------------------------------------------------
(* Role B: dio_task.                                                       *)

\* esps_dio_stats_account, for a completed frame compared with frame k.  Of the
\* counts of bits, whether there are bit errors at all is kept.
Account(msg, k) ==
    [s_stats EXCEPT
        !.ok = IF msg.result = "OK" THEN @ + 1 ELSE @,
        !.crc_err = IF msg.result = "CRC_ERR" THEN @ + 1 ELSE @,
        !.bit_errors = @ \/ Differs(msg.payload, TestPayload(k))]

\* handle_rx.  A frame without a valid length moves nothing; a good frame says
\* which one it is; good or bad, the next one is expected then.
HandleRx ==
    /\ task.pc = "loop"
    /\ s_rx_q # <<>>
    /\ LET msg == Head(s_rx_q)
           k == IF msg.result = "OK" THEN ResyncIndex(s_expect, msg.payload[1]) ELSE s_expect
       IN IF msg.result = "LEN_ERR"
          THEN /\ s_stats' = [s_stats EXCEPT !.len_err = @ + 1]
               /\ UNCHANGED s_expect
          ELSE /\ s_stats' = Account(msg, k)
               /\ s_expect' = k + 1
    /\ s_rx_q' = Tail(s_rx_q)
    /\ UNCHANGED <<sender, plugged, s_rx, s_rx_resync_req, s_rx_dropped, quiet, task, faults,
                   history>>

\* maybe_resync, every 100 ms: the clock and the time of the last bit are read.
\* If the clock is read first, a bit may come in between.
ReadClock ==
    /\ task.pc = "loop"
    /\ task' = [pc |-> IF ClockFirst THEN "clock" ELSE "idle", idle |-> quiet]
    /\ UNCHANGED <<sender, plugged, receiver, s_expect, s_stats, faults, history>>

ReadLastBit ==
    /\ task.pc = "clock"
    /\ task' = [task EXCEPT !.pc = "idle"]
    /\ UNCHANGED <<sender, plugged, receiver, s_expect, s_stats, faults, history>>

\* esps_dio_rx_stalled, but for the time.
Parked(rx) == rx.state # "HUNT"

\* rx_state_read.
ReadState ==
    /\ task.pc = "idle"
    /\ task' = IF task.idle /\ Parked(s_rx) THEN [task EXCEPT !.pc = "ask"] ELSE TaskInit
    /\ UNCHANGED <<sender, plugged, receiver, s_expect, s_stats, faults, history>>

Ask ==
    /\ task.pc = "ask"
    /\ s_rx_resync_req' = TRUE
    /\ task' = TaskInit
    /\ UNCHANGED <<sender, plugged, s_rx, s_rx_q, s_rx_dropped, quiet, s_expect, s_stats,
                   faults, history>>

-----------------------------------------------------------------------------
(* Faults.                                                                 *)

Strike == faults < MaxFaults /\ faults' = faults + 1

FlipBit == Strike /\ ClockBit(TRUE)

Pull ==
    /\ Strike
    /\ plugged
    /\ plugged' = FALSE
    /\ UNCHANGED <<sender, receiver, consumer, history>>

Plug ==
    /\ ~plugged
    /\ plugged' = TRUE
    /\ UNCHANGED <<sender, receiver, consumer, faults, history>>

\* The pull-downs of role B keep the line at rest while role A boots.
ResetA ==
    /\ Strike
    /\ s_tx_seq' = 0 /\ left' = 0 /\ out' = <<>>
    /\ intact' = FALSE /\ noise' = TRUE
    /\ UNCHANGED <<bursts, plugged, receiver, consumer, got, completed>>

\* Role B boots while role A goes on.
ResetB ==
    /\ Strike
    /\ s_rx' = RxInit /\ s_rx_resync_req' = FALSE /\ s_rx_q' = <<>> /\ s_rx_dropped' = 0
    /\ quiet' = TRUE
    /\ task' = TaskInit /\ s_expect' = 0 /\ s_stats' = StatsInit
    /\ intact' = FALSE /\ got' = None /\ completed' = 0 /\ noise' = TRUE
    /\ UNCHANGED <<sender, plugged>>

-----------------------------------------------------------------------------
roleA == StartBurst \/ StartFrame \/ SendBit
Housekeeping == ReadClock \/ ReadLastBit \/ ReadState \/ Ask
Fault == FlipBit \/ Pull \/ ResetA \/ ResetB

Next == roleA \/ Silence \/ HandleRx \/ Housekeeping \/ Fault \/ Plug

Spec == Init /\ [][Next]_vars

\* The task of role B runs, and a run of frames does not keep it from its
\* housekeeping, which has a cadence of its own.
FairSpec == Spec /\ WF_vars(HandleRx) /\ WF_vars(Housekeeping)

-----------------------------------------------------------------------------
Message == [result : {"OK", "CRC_ERR", "LEN_ERR"}, payload : Seq(Word)]

TypeOK ==
    /\ s_tx_seq \in 0 .. MaxBursts * BurstFrames /\ left \in 0 .. BurstFrames
    /\ out \in Seq({0, 1})
    /\ s_rx.state \in {"HUNT", "LEN", "PAYLOAD", "CRC"}
    /\ s_rx.acc \in Word /\ s_rx.crc \in Word
    /\ s_rx.nbits \in 0 .. WordBits - 1
    /\ s_rx.len \in 0 .. MaxPayload /\ Len(s_rx.payload) <= s_rx.len
    /\ s_rx_q \in Seq(Message) /\ Len(s_rx_q) <= QueueDepth
    /\ s_rx_dropped \in Nat /\ s_expect \in Nat /\ completed \in Nat
    /\ task.pc \in {"loop", "clock", "idle", "ask"}

\* A frame whose bits all arrive at a receiver that hunts with an empty register,
\* or whose reset is pending, is completed by its last bit, whole and valid:
\* whatever happened to the frames before it.  So the reset saves the first
\* frame after a cable came back.
IntactFrameIsDelivered ==
    intact /\ out = <<>> =>
        got = [result |-> "OK", payload |-> TestPayload(s_tx_seq - 1)]

\* Every frame the receiver completed is counted, once: in the statistics, in
\* the queue, or among those the full queue refused.
EveryFrameAccounted ==
    completed = s_stats.ok + s_stats.crc_err + s_stats.len_err + Len(s_rx_q) + s_rx_dropped

\* On a line without noise nothing is blamed on the cable: no frame is lost but
\* those the full queue refused, and no bit error is counted even when it did
\* refuse some.
NoPhantomErrors ==
    ~noise =>
        /\ s_stats.crc_err = 0 /\ s_stats.len_err = 0 /\ ~s_stats.bit_errors
        /\ s_stats.ok + Len(s_rx_q) + s_rx_dropped = s_tx_seq

\* A receiver parked in mid-frame on a quiet line does not stay so: its reset is
\* requested, unless bits arrive again before.
ParkedIsReset ==
    (quiet /\ s_rx.state # "HUNT") ~> (s_rx_resync_req \/ ~quiet \/ s_rx.state = "HUNT")

-----------------------------------------------------------------------------
\* esps_dio.c:275: "The value may of course be stale the instant it is read;
\* maybe_resync() only needs "not HUNT for a long time", which a stale read can
\* at worst delay by one housekeeping tick".  Then a line on which nothing ever
\* goes wrong loses no frame.
StaleReadOnlyDelays ==
    faults = 0 => s_stats.ok + Len(s_rx_q) + s_rx_dropped = s_tx_seq
=============================================================================
