------------------------------ MODULE Telemetry ------------------------------
(***************************************************************************)
(* Samples on their way into the station's database, and the TELEM_ACK     *)
(* watermark on its way back.                                              *)
(*                                                                         *)
(* Two kinds of node run the same protocol.  A board (main.c) hands each   *)
(* batch to a bounded transmit queue and forgets it; what the queue        *)
(* refuses or the wire corrupts is lost, and a reset restarts its sequence *)
(* numbers.  A simulated node (SimNode) runs inside the gateway process    *)
(* over a lossless in-process queue, and buffers what it samples while its *)
(* link is dropped.  The gateway commits the samples of one frame and      *)
(* raises the watermark in a single transaction, and acknowledges the      *)
(* watermark in a step of its own.                                         *)
(***************************************************************************)
EXTENDS Integers, Sequences, SequencesExt, FiniteSets

CONSTANTS
    NumChannels,  \* channels of the node's NDB, all sampled at every tick
    SeqSpace,     \* sequence numbers of the frame header (65536 in the code)
    PerFrame,     \* samples one TELEMETRY frame takes (64 in the code)
    MaxBacklog,   \* samples the simulated node buffers (2000 in the code)
    QueueDepth,   \* bound: frames between node and gateway
    AckDepth,     \* bound: TELEM_ACKs between gateway and node
    MaxTicks,     \* bound: sampling ticks
    MaxOthers,    \* bound: frames of other types that consume a sequence number
    MaxFaults     \* bound: losses, resets, restarts, link drops and erasures together

ASSUME BoundsAssumption ==
    /\ NumChannels \in Nat \ {0} /\ SeqSpace \in Nat \ {0} /\ PerFrame \in Nat \ {0}
    /\ MaxBacklog \in Nat \ {0} /\ QueueDepth \in Nat \ {0} /\ AckDepth \in Nat \ {0}
    /\ MaxTicks \in Nat /\ MaxOthers \in Nat /\ MaxFaults \in Nat

VARIABLES
    kind,       \* "board" or "sim", fixed at the start
    ticks,      \* sampling ticks so far
    others,     \* other frames so far
    faults,     \* faults so far
    boot,       \* which boot of the node this is
    seq,        \* the node's frame counter, shared by every message type
    dropped,    \* SimNode._link_dropped
    lost_pending, \* SimNode._link_was_lost_pending
    backlog,    \* SimNode._backlog
    up,         \* frames on their way to the gateway
    ndb,        \* channels of the node in the gateway's registry ({}: no HELLO yet)
    table,      \* the samples table: the rows each transaction inserted, in order
    wm,         \* telemetry_watermark.last_committed_seq
    acking,     \* the watermark the pump is about to send, inside link.send_frame
    down,       \* TELEM_ACKs on their way to the node
    handed,     \* history: the telemetry frames the node made, in their order
    gone        \* history: samples that will never be committed, and why

nodeVars == <<ticks, others, boot, seq, dropped, lost_pending, backlog>>
stationVars == <<ndb, table, wm, acking>>
vars == <<kind, faults, nodeVars, up, stationVars, down, handed, gone>>

Channel == 1 .. NumChannels
Sample == [t : 1 .. MaxTicks, ch : Channel]
SeqNo == 0 .. SeqSpace - 1
None == -1      \* no watermark row yet, nothing to acknowledge

\* A frame: TELEMETRY carries samples, HELLO a slice of the NDB, any other
\* message nothing that matters here.
Frame == [type : {"TELEMETRY", "HELLO", "OTHER"}, boot : Nat, seq : SeqNo,
          samples : Seq(Sample), ndb : SUBSET Channel, replay : BOOLEAN, gap : BOOLEAN]

Lost == {"overflow", "erased", "refused", "corrupted", "unknown"}

InUp == UNION {ToSet(up[i].samples) : i \in DOMAIN up}
Rows == UNION {table[i] : i \in DOMAIN table}
Gone == {g.sample : g \in gone}
Why(S, why) == {[sample |-> s, why |-> why] : s \in S}

-----------------------------------------------------------------------------
(* Plausible mistakes.                                                     *)

\* Live data first, the backlog after it.
LiveFirst(replay, live) == live \o replay

\* The watermark says which frame is expected next.
RaiseToNext(old, new) == IF old > new THEN old ELSE (new + 1) % SeqSpace

\* Frames are numbered without the modulus.
NumberedNoWrap(n) == seq + n - 1

\* The last, partly filled frame of a batch is forgotten.
FramesWhole(entries) == Len(entries) \div PerFrame

\* The pump is never done with the acknowledgement.
SendTelemAckAgain ==
    /\ acking # None
    /\ Len(down) < AckDepth
    /\ down' = Append(down, acking)
    /\ UNCHANGED <<kind, faults, nodeVars, up, stationVars, handed, gone>>

-----------------------------------------------------------------------------
(* Framing.                                                                *)

\* Number the n-th of the frames made by one call.
Numbered(n) == (seq + n - 1) % SeqSpace

Telemetry(entries, n, isReplay, isGap) ==
    [type |-> "TELEMETRY", boot |-> boot, seq |-> Numbered(n), samples |-> entries,
     ndb |-> {}, replay |-> isReplay, gap |-> isGap]

Hello(chans) ==
    [type |-> "HELLO", boot |-> boot, seq |-> Numbered(1), samples |-> <<>>,
     ndb |-> chans, replay |-> FALSE, gap |-> FALSE]

Other == [type |-> "OTHER", boot |-> boot, seq |-> Numbered(1), samples |-> <<>>,
          ndb |-> {}, replay |-> FALSE, gap |-> FALSE]

\* _send_telemetry_batches: frames of at most PerFrame entries each, numbered
\* after the `before` frames of the same call.  A frame is taken to span less than the
\* 65.5 s its dt_ms can count; a longer one would raise.
Frames(entries) == (Len(entries) + PerFrame - 1) \div PerFrame
Slice(entries, i) ==
    SubSeq(entries, (i - 1) * PerFrame + 1,
           IF i * PerFrame < Len(entries) THEN i * PerFrame ELSE Len(entries))
Batches(entries, before, isReplay, isGap) ==
    [i \in 1 .. Frames(entries) |->
        Telemetry(Slice(entries, i), before + i, isReplay, isGap)]

\* Every channel is due at every tick.
Due == [c \in Channel |-> [t |-> ticks + 1, ch |-> c]]

\* _backlog: what does not fit pushes the oldest out.
Newest(entries) ==
    SubSeq(entries, IF Len(entries) > MaxBacklog THEN Len(entries) - MaxBacklog + 1 ELSE 1,
           Len(entries))

\* The backlog is replayed before the live samples.
Emitted(replay, live) == replay \o live

-----------------------------------------------------------------------------

Init ==
    /\ kind \in {"board", "sim"}
    /\ ticks = 0 /\ others = 0 /\ faults = 0
    /\ boot = 1 /\ seq = 0
    /\ dropped = FALSE /\ lost_pending = FALSE /\ backlog = <<>>
    /\ up = <<>> /\ down = <<>>
    /\ ndb = {} /\ table = <<>> /\ wm = None /\ acking = None
    /\ handed = <<>> /\ gone = {}

-----------------------------------------------------------------------------
(* The simulated node.                                                     *)

\* _emit_samples with the link dropped: everything due goes to the backlog.
SimBuffer ==
    /\ kind = "sim" /\ dropped
    /\ ticks < MaxTicks
    /\ ticks' = ticks + 1
    /\ backlog' = Newest(backlog \o Due)
    /\ gone' = gone \cup Why(ToSet(backlog \o Due) \ ToSet(Newest(backlog \o Due)), "overflow")
    /\ UNCHANGED <<kind, faults, others, boot, seq, dropped, lost_pending, up, stationVars,
                   down, handed>>

\* _emit_samples with the link up: the backlog first, then what is due, with
\* the gap flag if the link had been dropped since the last live frame.
SimEmit ==
    /\ kind = "sim" /\ ~dropped
    /\ ticks < MaxTicks
    /\ LET out == Emitted(Batches(backlog, 0, TRUE, FALSE),
                          Batches(Due, Frames(backlog), FALSE, lost_pending))
       IN /\ Len(up) + Len(out) <= QueueDepth
          /\ up' = up \o out
          /\ handed' = handed \o out
          /\ seq' = (seq + Len(out)) % SeqSpace
    /\ ticks' = ticks + 1
    /\ backlog' = <<>>
    /\ lost_pending' = FALSE
    /\ UNCHANGED <<kind, faults, others, boot, dropped, stationVars, down, gone>>

\* apply_fault("link_drop").
LinkDrop ==
    /\ kind = "sim" /\ ~dropped
    /\ faults < MaxFaults
    /\ dropped' = TRUE
    /\ faults' = faults + 1
    /\ UNCHANGED <<kind, ticks, others, boot, seq, lost_pending, backlog, up, stationVars,
                   down, handed, gone>>

LinkRestore ==
    /\ kind = "sim" /\ dropped
    /\ dropped' = FALSE
    /\ lost_pending' = TRUE
    /\ UNCHANGED <<kind, faults, ticks, others, boot, seq, backlog, up, stationVars, down,
                   handed, gone>>

\* CMD store.erase.  Its CMD_ACK takes a sequence number.
StoreErase ==
    /\ kind = "sim"
    /\ faults < MaxFaults
    /\ Len(up) < QueueDepth
    /\ backlog' = <<>>
    /\ gone' = gone \cup Why(ToSet(backlog), "erased")
    /\ up' = Append(up, Other)
    /\ seq' = (seq + 1) % SeqSpace
    /\ faults' = faults + 1
    /\ UNCHANGED <<kind, ticks, others, boot, dropped, lost_pending, stationVars, down, handed>>

-----------------------------------------------------------------------------
(* The board.                                                              *)

\* telemetry_task: one frame with every channel.  A full queue refuses it; its
\* sequence number is spent all the same and the next frame carries no flag.
BoardEmit ==
    /\ kind = "board"
    /\ ticks < MaxTicks
    /\ ticks' = ticks + 1
    /\ seq' = (seq + 1) % SeqSpace
    /\ handed' = Append(handed, Telemetry(Due, 1, FALSE, FALSE))
    /\ \/ /\ Len(up) < QueueDepth
          /\ up' = Append(up, Telemetry(Due, 1, FALSE, FALSE))
          /\ UNCHANGED gone
       \/ /\ Len(up) >= QueueDepth
          /\ gone' = gone \cup Why(ToSet(Due), "refused")
          /\ UNCHANGED up
    /\ UNCHANGED <<kind, faults, others, boot, dropped, lost_pending, backlog, stationVars, down>>

\* A reset: the counter starts again and what the queue still held is gone.
BoardReset ==
    /\ kind = "board"
    /\ faults < MaxFaults
    /\ boot' = boot + 1
    /\ seq' = 0
    /\ \E sentOut \in 0 .. Len(up) :
          /\ up' = SubSeq(up, 1, sentOut)
          /\ gone' = gone \cup
                Why(UNION {ToSet(up[i].samples) : i \in sentOut + 1 .. Len(up)}, "refused")
    /\ faults' = faults + 1
    /\ UNCHANGED <<kind, ticks, others, dropped, lost_pending, backlog, stationVars, down, handed>>

\* The CRC of a frame does not match: the gateway's decoder drops it.
Corrupt ==
    /\ kind = "board"
    /\ faults < MaxFaults
    /\ up # <<>>
    /\ up' = Tail(up)
    /\ gone' = gone \cup Why(ToSet(Head(up).samples), "corrupted")
    /\ faults' = faults + 1
    /\ UNCHANGED <<kind, nodeVars, stationVars, down, handed>>

-----------------------------------------------------------------------------
(* Either node: a slice of the NDB is announced, another message is sent.  *)

Announce(chans) ==
    /\ others < MaxOthers
    /\ Len(up) < QueueDepth
    /\ up' = Append(up, Hello(chans))
    /\ others' = others + 1
    /\ seq' = (seq + 1) % SeqSpace
    /\ UNCHANGED <<kind, faults, ticks, boot, dropped, lost_pending, backlog, stationVars,
                   down, handed, gone>>

SendOther ==
    /\ others < MaxOthers
    /\ Len(up) < QueueDepth
    /\ up' = Append(up, Other)
    /\ others' = others + 1
    /\ seq' = (seq + 1) % SeqSpace
    /\ UNCHANGED <<kind, faults, ticks, boot, dropped, lost_pending, backlog, stationVars,
                   down, handed, gone>>

\* on_frame / on_station_frame, TELEM_ACK: nothing to free, in either node.
OnTelemAck ==
    /\ down # <<>>
    /\ down' = Tail(down)
    /\ UNCHANGED <<kind, faults, nodeVars, up, stationVars, handed, gone>>

-----------------------------------------------------------------------------
(* The gateway: one pump per link, which handles one frame at a time.      *)

\* NodeDatabase.convert raises for a channel the NDB does not declare; without
\* any NDB the value is taken as it is.
Convertible(s) == ndb = {} \/ s.ch \in ndb

\* last_committed_seq = MAX(last_committed_seq, excluded.last_committed_seq)
Raise(old, new) == IF old > new THEN old ELSE new

\* _on_telemetry up to its first await: convert, commit rows and watermark in
\* one transaction, read the watermark back.
OnTelemetry ==
    /\ acking = None
    /\ up # <<>>
    /\ Head(up).type = "TELEMETRY"
    /\ table' = Append(table, {s \in ToSet(Head(up).samples) : Convertible(s)})
    /\ gone' = gone \cup Why({s \in ToSet(Head(up).samples) : ~Convertible(s)}, "unknown")
    /\ wm' = Raise(wm, Head(up).seq)
    /\ acking' = wm'
    /\ up' = Tail(up)
    /\ UNCHANGED <<kind, faults, nodeVars, ndb, down, handed>>

\* link.send_frame of the TELEM_ACK.
SendTelemAck ==
    /\ acking # None
    /\ Len(down) < AckDepth
    /\ down' = Append(down, acking)
    /\ acking' = None
    /\ UNCHANGED <<kind, faults, nodeVars, up, ndb, table, wm, handed, gone>>

\* _on_hello: the slice is merged.
OnHello ==
    /\ acking = None
    /\ up # <<>>
    /\ Head(up).type = "HELLO"
    /\ ndb' = ndb \cup Head(up).ndb
    /\ up' = Tail(up)
    /\ UNCHANGED <<kind, faults, nodeVars, table, wm, acking, down, handed, gone>>

OnOther ==
    /\ acking = None
    /\ up # <<>>
    /\ Head(up).type = "OTHER"
    /\ up' = Tail(up)
    /\ UNCHANGED <<kind, faults, nodeVars, stationVars, down, handed, gone>>

\* The gateway process dies and comes back: the registry is empty, an ACK it
\* was about to send is not sent, what the host had buffered is gone.  (A
\* simulated node lives in the gateway process and dies with it.)
GatewayRestart ==
    /\ kind = "board"
    /\ faults < MaxFaults
    /\ ndb' = {}
    /\ acking' = None
    /\ up' = <<>>
    /\ gone' = gone \cup Why(InUp, "corrupted")
    /\ faults' = faults + 1
    /\ UNCHANGED <<kind, nodeVars, table, wm, down, handed>>

-----------------------------------------------------------------------------
sampling == SimBuffer \/ SimEmit \/ BoardEmit
pump == OnTelemetry \/ SendTelemAck \/ OnHello \/ OnOther
Fault == LinkDrop \/ StoreErase \/ BoardReset \/ Corrupt \/ GatewayRestart

Next ==
    \/ sampling \/ pump \/ Fault
    \/ LinkRestore \/ SendOther \/ OnTelemAck
    \/ \E chans \in SUBSET Channel \ {{}} : Announce(chans)

Spec == Init /\ [][Next]_vars

\* The node samples for ever, the pump takes every frame, the node's receive
\* task every ACK.
Fairness == WF_vars(sampling) /\ WF_vars(pump) /\ WF_vars(OnTelemAck)

FairSpec == Spec /\ Fairness

-----------------------------------------------------------------------------
Before(s, r) == s.t < r.t \/ (s.t = r.t /\ s.ch < r.ch)

TypeOK ==
    /\ kind \in {"board", "sim"}
    /\ ticks \in 0 .. MaxTicks /\ others \in 0 .. MaxOthers /\ faults \in 0 .. MaxFaults
    /\ boot \in Nat /\ seq \in SeqNo
    /\ dropped \in BOOLEAN /\ lost_pending \in BOOLEAN
    /\ backlog \in Seq(Sample) /\ Len(backlog) <= MaxBacklog
    /\ up \in Seq(Frame)
    /\ ndb \in SUBSET Channel
    /\ table \in Seq(SUBSET Sample)
    /\ wm \in SeqNo \cup {None} /\ acking \in SeqNo \cup {None}
    /\ down \in Seq(SeqNo)
    /\ handed \in Seq(Frame)
    /\ gone \in SUBSET [sample : Sample, why : Lost]

\* Every sample ever taken is in exactly one place: buffered in the node, on
\* the wire, committed, or discarded for a reason the code states.
NothingVanishes ==
    LET taken == [t : 1 .. ticks, ch : Channel]
    IN /\ ToSet(backlog) \cup InUp \cup Rows \cup Gone = taken
       /\ ToSet(backlog) \cap (InUp \cup Rows \cup Gone) = {}
       /\ InUp \cap (Rows \cup Gone) = {}
       /\ Rows \cap Gone = {}

\* Samples enter the database in the order in which they were taken, and none
\* twice, also when a backlog is replayed and whatever was lost.
CommittedInOrder ==
    \A i, j \in DOMAIN table : i < j => \A s \in table[i], r \in table[j] : Before(s, r)

\* What the watermark is worth: within the first boot and before the counter
\* wraps, an ACK of s means that every frame numbered up to s is done with:
\* each of its samples is committed, or was discarded.
FirstBootAckIsDurable ==
    boot = 1 /\ others + Len(handed) + faults <= SeqSpace =>
        \A i \in DOMAIN down, k \in DOMAIN handed :
            handed[k].seq <= down[i] => ToSet(handed[k].samples) \subseteq Rows \cup Gone

\* No sample waits for ever: once sampling is over every one is committed or
\* discarded, but for those whose link is still dropped, or was restored after
\* the last tick.
EverySampleSettles ==
    <>[](\A s \in Sample :
            s.t <= ticks => \/ s \in Rows \cup Gone
                            \/ s \in ToSet(backlog) /\ (dropped \/ lost_pending))

-----------------------------------------------------------------------------
(* What the code says of the watermark, and its behaviour does not keep.   *)

\* store.py:10: "the station may only acknowledge a sequence number *after* the
\* samples that seq covers are committed -- never optimistically".
AckedSamplesAreCommitted ==
    \A i \in DOMAIN down, k \in DOMAIN handed :
        handed[k].boot = boot /\ handed[k].seq = down[i]
            => ToSet(handed[k].samples) \subseteq Rows
=============================================================================
