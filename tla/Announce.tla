------------------------------- MODULE Announce -------------------------------
(***************************************************************************)
(* How a node makes itself known to the station: hello_task on the ESP32   *)
(* announces its channel table (NDB) as NumChunks complete HELLO frames,   *)
(* the gateway merges each one into the table it holds and answers every   *)
(* one with a HELLO_ACK, and the node goes quiet once it has counted as    *)
(* many ACKs as frames its transmit queue accepted.                        *)
(*                                                                         *)
(* Three tasks of the node run in parallel: hello_task, the link's         *)
(* transmit task and its receive task.  The station is one asyncio pump    *)
(* per link.  Frames travel through three FIFOs: tx_queue inside the node, *)
(* up (the UART and the host's buffers) and down (the ACKs on their way    *)
(* back).                                                                  *)
(***************************************************************************)
EXTENDS Integers, Sequences, FiniteSets

CONSTANTS
    NumChunks,  \* HELLO frames one announcement round takes (at most 8 in the code)
    TxDepth,    \* depth of the transmit queue (16 in the code)
    UpDepth,    \* bound: frames between the transmit task and the gateway
    DownDepth,  \* bound: HELLO_ACKs between the gateway and the receive task
    MaxFaults   \* bound: corrupted frames, node resets and gateway restarts together

ASSUME SizesAssumption ==
    /\ NumChunks \in Nat \ {0}
    /\ TxDepth \in Nat \ {0}
    /\ UpDepth \in Nat \ {0}
    /\ DownDepth \in Nat \ {0}
    /\ MaxFaults \in Nat

VARIABLES
    pc,            \* where hello_task is: "boot", "reset", "send", "wait" or "quiet"
    next,          \* the chunk send_hello's loop hands over next
    sent,          \* chunks of this round the transmit queue accepted
    g_hello_acks,  \* the counter the receive task increments
    rx,            \* <<>>, or the increment the receive task has loaded and not stored
    tx_queue,      \* frames waiting for the transmit task
    up,            \* frames on their way to the gateway
    down,          \* HELLO_ACKs on their way to the node
    registry,      \* chunks merged into the gateway's in-memory NDB
    stored,        \* chunks merged into nodes.ndb_json in SQLite
    regime,        \* the environment of this behaviour, fixed at the start
    faults,        \* faults that happened so far
    handed,        \* history: the chunks of this round the queue accepted
    fresh,         \* history: chunks of this round whose ACK was counted
    tainted        \* history: an ACK of an earlier round was counted in this one

nodeVars == <<pc, next, sent, g_hello_acks, rx>>
wireVars == <<tx_queue, up, down>>
stationVars == <<registry, stored>>
history == <<handed, fresh, tainted>>
vars == <<nodeVars, wireVars, stationVars, regime, faults, history>>

Chunk == 1 .. NumChunks

\* Any other frame the node sends (heartbeat, telemetry, log) shares the queue.
Other == 0

\* cur tells whether the frame belongs to the round in progress.  Neither the
\* wire nor the code carries it: properties alone read it.
Frame == [chunk : Chunk \cup {Other}, cur : BOOLEAN]
Ack == [chunk : Chunk, cur : BOOLEAN]

\* The increment under way: the value loaded, and the ACK it counts.
Load == [val : Nat, chunk : Chunk, cur : BOOLEAN]

\* prompt: every ACK that arrives at all arrives well within the 30 s window
\* and within the time a board takes to boot.  crowded: other tasks fill the
\* transmit queue.  resets: the board may reset.  restarts: the gateway process
\* may restart.
Regime == [prompt : BOOLEAN, crowded : BOOLEAN, resets : BOOLEAN, restarts : BOOLEAN]

\* The frames of q once a new round has begun: none of them is current.
Stale(q) == [i \in 1 .. Len(q) |-> [q[i] EXCEPT !.cur = FALSE]]

InFlight == tx_queue # <<>> \/ up # <<>> \/ down # <<>> \/ rx # <<>>

-----------------------------------------------------------------------------
(* Plausible mistakes, against which the properties below are tried.       *)

\* send_hello's loop runs one chunk too far.
LastChunkOffByOne(c) == c = NumChunks + 1

\* The regression the counter was introduced for: the first ACK ends the round.
RoundCompleteLatched == g_hello_acks > 0

\* The test forgets the round in which the queue refused everything.
RoundCompleteUnsent == g_hello_acks >= sent

\* hello_task announces once and ends.
WaitExpiresOnce ==
    /\ pc = "wait" /\ rx = <<>>
    /\ pc' = "quiet"
    /\ UNCHANGED <<next, sent, g_hello_acks, rx, wireVars, stationVars, regime, faults, history>>

-----------------------------------------------------------------------------
LastChunk(c) == c = NumChunks

Init ==
    /\ pc = "boot"
    /\ next = 1 /\ sent = 0 /\ g_hello_acks = 0 /\ rx = <<>>
    /\ tx_queue = <<>> /\ up = <<>> /\ down = <<>>
    /\ registry = {} /\ stored = {}
    /\ regime \in Regime
    /\ faults = 0
    /\ handed = {} /\ fresh = {} /\ tainted = FALSE

-----------------------------------------------------------------------------
(* The node.                                                               *)

\* app_main: the link is open and hello_task starts.  In the prompt regime a
\* boot outlasts whatever was on the wire when the board was reset.
Boot ==
    /\ pc = "boot"
    /\ regime.prompt => ~InFlight
    /\ pc' = "reset"
    /\ UNCHANGED <<next, sent, g_hello_acks, rx, wireVars, stationVars, regime, faults, history>>

\* send_hello clears the counter before the first chunk goes out.
BeginRound ==
    /\ pc = "reset"
    /\ pc' = "send"
    /\ next' = 1
    /\ sent' = 0
    /\ g_hello_acks' = 0
    /\ rx' = Stale(rx)
    /\ tx_queue' = Stale(tx_queue)
    /\ up' = Stale(up)
    /\ down' = Stale(down)
    /\ handed' = {}
    /\ fresh' = {}
    /\ tainted' = FALSE
    /\ UNCHANGED <<stationVars, regime, faults>>

\* send_hello hands one chunk to the transmit queue, which never blocks: a
\* full queue refuses it and send_hello goes on with the next one.
SendChunk ==
    /\ pc = "send"
    /\ next' = next + 1
    /\ pc' = IF LastChunk(next) THEN "wait" ELSE "send"
    /\ \/ /\ Len(tx_queue) < TxDepth
          /\ tx_queue' = Append(tx_queue, [chunk |-> next, cur |-> TRUE])
          /\ sent' = sent + 1
          /\ handed' = handed \cup {next}
       \/ /\ Len(tx_queue) >= TxDepth
          /\ UNCHANGED <<tx_queue, sent, handed>>
    /\ UNCHANGED <<g_hello_acks, rx, up, down, stationVars, regime, faults, fresh, tainted>>

RoundComplete == sent > 0 /\ g_hello_acks >= sent

\* hello_task sees enough ACKs, at a poll or at its last look, and ends.
GoQuiet ==
    /\ pc = "wait"
    /\ RoundComplete
    /\ pc' = "quiet"
    /\ UNCHANGED <<next, sent, g_hello_acks, rx, wireVars, stationVars, regime, faults, history>>

\* The 30 s window closes without enough ACKs: every chunk is sent again.  The
\* receive task is not held between its load and its store for a whole window.
WaitExpires ==
    /\ pc = "wait"
    /\ ~RoundComplete
    /\ rx = <<>>
    /\ regime.prompt => ~InFlight
    /\ pc' = "reset"
    /\ UNCHANGED <<next, sent, g_hello_acks, rx, wireVars, stationVars, regime, faults, history>>

\* Another task's frame takes a place in the queue.
OtherTraffic ==
    /\ regime.crowded
    /\ pc # "boot"
    /\ Len(tx_queue) < TxDepth
    /\ tx_queue' = Append(tx_queue, [chunk |-> Other, cur |-> FALSE])
    /\ UNCHANGED <<nodeVars, up, down, stationVars, regime, faults, history>>

\* tx_task_fn writes the oldest frame to the UART.
Transmit ==
    /\ tx_queue # <<>>
    /\ Len(up) < UpDepth
    /\ up' = Append(up, Head(tx_queue))
    /\ tx_queue' = Tail(tx_queue)
    /\ UNCHANGED <<nodeVars, down, stationVars, regime, faults, history>>

\* on_frame, HELLO_ACK: g_hello_acks++ is a load and a store on the receive
\* task, and hello_task may run on the other core between the two.
AckLoad ==
    /\ pc # "boot"
    /\ rx = <<>>
    /\ down # <<>>
    /\ rx' = <<[val |-> g_hello_acks, chunk |-> Head(down).chunk, cur |-> Head(down).cur]>>
    /\ down' = Tail(down)
    /\ UNCHANGED <<pc, next, sent, g_hello_acks, tx_queue, up, stationVars, regime, faults, history>>

AckStore ==
    /\ rx # <<>>
    /\ g_hello_acks' = Head(rx).val + 1
    /\ rx' = <<>>
    /\ fresh' = IF Head(rx).cur THEN fresh \cup {Head(rx).chunk} ELSE fresh
    /\ tainted' = (tainted \/ ~Head(rx).cur)
    /\ UNCHANGED <<pc, next, sent, wireVars, stationVars, regime, faults, handed>>

\* Until the link is open again nobody receives: the bytes are lost.
AckWhileBooting ==
    /\ pc = "boot"
    /\ down # <<>>
    /\ down' = Tail(down)
    /\ UNCHANGED <<nodeVars, tx_queue, up, stationVars, regime, faults, history>>

-----------------------------------------------------------------------------
(* The station.                                                            *)

\* A HELLO never replaces what is known, neither in memory nor in the table.
Merge(known, chunk) == known \cup {chunk}

\* _on_hello: merge into the registry, upsert the node, answer this very frame.
OnHello ==
    /\ up # <<>>
    /\ Head(up).chunk # Other
    /\ Len(down) < DownDepth
    /\ registry' = Merge(registry, Head(up).chunk)
    /\ stored' = Merge(stored, Head(up).chunk)
    /\ down' = Append(down, Head(up))
    /\ up' = Tail(up)
    /\ UNCHANGED <<nodeVars, tx_queue, regime, faults, history>>

\* _dispatch_frame, any other message type.
OnOther ==
    /\ up # <<>>
    /\ Head(up).chunk = Other
    /\ up' = Tail(up)
    /\ UNCHANGED <<nodeVars, tx_queue, down, stationVars, regime, faults, history>>

-----------------------------------------------------------------------------
(* Faults.                                                                 *)

\* The CRC of a frame does not match and the receiving decoder drops it.
LoseUp ==
    /\ faults < MaxFaults
    /\ up # <<>>
    /\ up' = Tail(up)
    /\ faults' = faults + 1
    /\ UNCHANGED <<nodeVars, tx_queue, down, stationVars, regime, history>>

LoseDown ==
    /\ faults < MaxFaults
    /\ down # <<>>
    /\ down' = Tail(down)
    /\ faults' = faults + 1
    /\ UNCHANGED <<nodeVars, tx_queue, up, stationVars, regime, history>>

\* The board resets: its RAM is gone, what it already sent is not.
NodeReset ==
    /\ regime.resets
    /\ faults < MaxFaults
    /\ pc # "boot"
    /\ pc' = "boot"
    /\ next' = 1 /\ sent' = 0 /\ g_hello_acks' = 0 /\ rx' = <<>>
    /\ tx_queue' = <<>>
    /\ up' = Stale(up)
    /\ down' = Stale(down)
    /\ handed' = {} /\ fresh' = {} /\ tainted' = FALSE
    /\ faults' = faults + 1
    /\ UNCHANGED <<stationVars, regime>>

\* The gateway process restarts: NodeRegistry starts empty and is never
\* filled from the database, and what the host had buffered is gone.
GatewayRestart ==
    /\ regime.restarts
    /\ faults < MaxFaults
    /\ registry' = {}
    /\ up' = <<>>
    /\ faults' = faults + 1
    /\ UNCHANGED <<nodeVars, tx_queue, down, stored, regime, history>>

-----------------------------------------------------------------------------
helloTask == Boot \/ BeginRound \/ SendChunk \/ GoQuiet \/ WaitExpires
rxTask == AckLoad \/ AckStore \/ AckWhileBooting
station == OnHello \/ OnOther
Fault == LoseUp \/ LoseDown \/ NodeReset \/ GatewayRestart

Next == helloTask \/ OtherTraffic \/ Transmit \/ rxTask \/ station \/ Fault

Spec == Init /\ [][Next]_vars

\* The FreeRTOS scheduler runs every ready task and the pump every frame it
\* received.  Faults and other traffic happen or not.
Fairness ==
    /\ WF_vars(helloTask)
    /\ WF_vars(Transmit)
    /\ WF_vars(rxTask)
    /\ WF_vars(station)

FairSpec == Spec /\ Fairness

-----------------------------------------------------------------------------
TypeOK ==
    /\ pc \in {"boot", "reset", "send", "wait", "quiet"}
    /\ next \in 1 .. NumChunks + 1
    /\ sent \in Nat
    /\ g_hello_acks \in Nat
    /\ rx \in Seq(Load) /\ Len(rx) <= 1
    /\ tx_queue \in Seq(Frame)
    /\ up \in Seq(Frame)
    /\ down \in Seq(Ack)
    /\ registry \in SUBSET Chunk
    /\ stored \in SUBSET Chunk
    /\ regime \in Regime
    /\ faults \in Nat
    /\ handed \in SUBSET Chunk
    /\ fresh \in SUBSET Chunk
    /\ tainted \in BOOLEAN

\* A node never goes quiet unheard: when hello_task has ended, the station has
\* stored at least one slice of it, whatever was lost, late or refused.
QuietOnlyAfterHeard == pc = "quiet" => stored # {}

\* A round that went as the code's comment describes it (the queue took every
\* chunk, and only ACKs of this round were counted) ends with the whole NDB in
\* the station's database.  This is what counting ACKs instead of latching on
\* the first one buys.
CleanRoundIsComplete ==
    pc = "quiet" /\ handed = Chunk /\ ~tainted => stored = Chunk

\* With a quiet transmit queue, ACKs that keep up with the 30 s window and no
\* gateway restart, a finite number of lost frames and node resets delays the
\* announcement but never defeats it: the node ends quiet and wholly known.
AnnounceReachesStation ==
    regime.prompt /\ ~regime.crowded /\ ~regime.restarts
        => <>[](pc = "quiet" /\ registry = Chunk)

-----------------------------------------------------------------------------
(* Claims of the code's comments that its behaviour does not keep.         *)

\* main.c:126: "an ACK arriving mid-round counts towards the round in flight,
\* and any ACK still in flight from the previous round is correctly discarded".
\* If it were, a node that never resets and whose queue took every chunk would
\* only go quiet with the station knowing all of them.
StaleAcksDiscarded ==
    pc = "quiet" /\ ~regime.resets /\ handed = Chunk /\ ~InFlight => stored = Chunk

\* main.c:116: "Stopping on the first one loses every other chunk permanently";
\* PROTOCOL.md, HELLO: a node announcing in slices "keeps re-announcing all of
\* them until it has received one accepted HELLO_ACK per slice of the current
\* round".  Even when every ACK keeps up with the window, a slice that the
\* transmit queue refused is neither counted nor announced again.
QuietMeansEverySliceAcked == pc = "quiet" /\ regime.prompt => fresh = Chunk

-----------------------------------------------------------------------------
(* The inductive invariant behind QuietOnlyAfterHeard and                  *)
(* CleanRoundIsComplete.                                                   *)

\* The chunks of this round's frames in q.
CurIn(q) == {q[i].chunk : i \in {j \in 1 .. Len(q) : q[j].cur}}

\* No chunk of this round is in q twice.
NoTwice(q) ==
    \A i, j \in 1 .. Len(q) : q[i].cur /\ q[j].cur /\ i # j => q[i].chunk # q[j].chunk

\* The loop is inside its range, and what it handed over lies behind it.
SendingInv == pc = "send" => next \in Chunk /\ handed \subseteq 1 .. next - 1

\* Each accepted chunk is in at most one place between queue and counter.
PlacesInv ==
    /\ NoTwice(tx_queue) /\ NoTwice(up) /\ NoTwice(down)
    /\ CurIn(tx_queue) \subseteq handed
    /\ CurIn(up) \subseteq handed \ CurIn(tx_queue)
    /\ CurIn(down) \subseteq handed \ (CurIn(tx_queue) \cup CurIn(up))
    /\ CurIn(rx) \subseteq handed \ (CurIn(tx_queue) \cup CurIn(up) \cup CurIn(down))
    /\ fresh \subseteq
          handed \ (CurIn(tx_queue) \cup CurIn(up) \cup CurIn(down) \cup CurIn(rx))

\* An ACK on its way back, and an ACK counted, is about a slice the station has.
AckedInv ==
    /\ CurIn(down) \cup CurIn(rx) \cup fresh \subseteq stored
    /\ down # <<>> \/ rx # <<>> \/ g_hello_acks > 0 => stored # {}

\* While only ACKs of this round were counted, the counter counts them exactly.
CountInv ==
    /\ sent = Cardinality(handed)
    /\ ~tainted => g_hello_acks = Cardinality(fresh)
    /\ ~tainted /\ rx # <<>> /\ rx[1].cur => rx[1].val = Cardinality(fresh)

IInv ==
    /\ TypeOK
    /\ SendingInv
    /\ PlacesInv
    /\ AckedInv
    /\ CountInv
    /\ QuietOnlyAfterHeard
    /\ CleanRoundIsComplete
=============================================================================
