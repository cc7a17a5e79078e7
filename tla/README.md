# espstation: models, checks and proofs

TLA+ modules for the protocol core of espstation: the ESP32 firmware
(`firmware/`), the Python gateway (`gateway/`) and the serial protocol between
them (`protocol/PROTOCOL.md`). Every definition is translated from the code; the
documents are quoted only where a run shows that the code does something else.
`PROJECT.json` gives, for each definition, the lines it stands for.

## 1. The system

| part | code | state it keeps | what it does |
|---|---|---|---|
| node, firmware | `firmware/main/main.c` | channel table, `g_hello_acks`, frame sequence counter | announces its channels in slices, samples and sends TELEMETRY, heartbeats, executes CMD |
| UART link, firmware | `esps_link_uart.c` | transmit queue of 16 frames, stream decoder | one transmit task, one receive task; a full queue refuses a frame |
| simulated node | `transports/sim/node.py` | NDB, backlog, experiment runtime, clock | everything the firmware does, and experiments; lives in the gateway process |
| links | `transports/base.py`, `serial_port.py`, `tcp.py` | decoder, counters, outbox | frames in, frames out, error and closed events |
| gateway runtime | `runtime.py` | `links`, `node_link`, `_pending_cmds`, `_cmd_id_seq`, `_active_run`, pending time requests | one pump per link dispatches frames; REST handlers send commands and experiments |
| NDB registry | `protocol/ndb.py` | channels by id and by key, per node, in memory | merges HELLO slices, converts samples |
| store | `store.py` | SQLite: nodes, samples, watermark, runs, events, time offsets | one transaction per frame, upserts |
| codec | `frames.py`, `cobs.py`, `enlp.c`, `cobs.c` | partial frame of a stream | finds frames, drops corrupted ones |
| digital link | `esps_dio/` | bit receiver, queue of frames, statistics, link watch | bit-serial bursts (N3) and edge handshakes (N2) between two boards |
| Morse | `esps_morse/`, `morse_sketch.py` | key debouncer, symbol buffer | decodes a key, polls counters |
| desktop | `desktop/src` | gateway process, stream socket, stores of the UI | starts the gateway, follows its stream |

How they interact: a board's tasks share a bounded transmit queue; the UART
carries frames both ways and may corrupt any of them; the gateway's pumps,
request handlers and timers are coroutines of one event loop, which interleave
at each `await`; a serial write runs in an executor thread; a simulated node is
called synchronously inside `link.send_frame` and answers through an outbox the
pump reads later. Between boards, one board's pins interrupt the other.

What is hard about it: acknowledgements that carry nothing to tie them to what
they acknowledge; a counter shared by two tasks on two cores; a watermark over a
16-bit sequence number that wraps and restarts; retries of operations that are
not idempotent; state read before an `await` and used after it; frames of one
node overtaking each other's meaning (EXP_STATE and the samples of its run);
an interrupt handler and a task that looks at its state between two bits;
resets of the board, the gateway or the cable at any moment. `PROJECT.json`
lists these under `hazards`, each at its line, with the properties that cover
it or a note why none does yet.

## 2. The modules

Each component has a module with its state, one action per handler or step, its
properties and mutated definitions against which each property is tried (in a
section *Plausible mistakes*, or beside the definition they spoil).
`MC<Module>.tla` with its `.cfg` is the instance TLC checks, `<Module>Proofs.tla`
holds theorems and their proofs.

| module | models | used with |
|---|---|---|
| `Announce` | HELLO / HELLO_ACK between `hello_task`, the link's tasks and `_on_hello` | `AnnounceProofs` |
| `Telemetry` | a sample from the sensor to the database and its acknowledgement | `TelemetryProofs` |
| `Experiment` | the experiment runtime and the run samples are filed under | `ExperimentProofs` |
| `Command` | `send_command`, its retries and late answers | `CommandProofs` |
| `Links` | attach, pump, poll, detach and shutdown of the gateway's links | `LinksProofs` |
| `TimeSync` | the clock of a node, the offset kept for it, the exchange loop | `TimeSyncProofs` |
| `Codec` | COBS, length prefix and the stream decoders of both ends | `LinksProofs` |
| `DioFrame` | the frame of the digital link: format, CRC, receiver, index rule | `DioReceiver`, `SimDio` |
| `DioReceiver` | bursts of role A, interrupt, queue and task of role B | `DioReceiverProofs` |
| `SimDio` | the simulated cable between two simulated nodes, beside the firmware | `DioReceiverProofs` |
| `MorseText` | the form of the lines a Morse board prints | `MorseLines`, `MorseLink` |
| `MorseLines` | what a Morse board promises to print (abstract) | `MorseLink`, `MorseSketch` |
| `MorseLink` | interrupt, buffer and decoder of a Morse board; implements `MorseLines` | `MorseLinkProofs` |
| `MorseSketch` | the gateway's adapter, composed with `MorseLines` | `MorseLinkProofs` |

### Announce: a node makes itself known

`hello_task` of `main.c` announces `NumChunks` HELLO frames, the gateway merges
and acknowledges each, and the node ends its announcement once it counted as
many HELLO_ACKs as the queue accepted frames. `pc`, `next`, `sent` are the
control state of `hello_task` and `send_hello`; `g_hello_acks` is the counter,
and `rx` is the receive task between loading and storing it (`++` on a volatile
is not atomic across cores: `AckLoad`, `AckStore`). `tx_queue`, `up` and `down`
are the three FIFOs a frame or an ACK passes. `registry` and `stored` are the two
copies of the NDB at the station.

A behaviour picks its environment at the start (`regime`): whether ACKs keep up
with the 30 s window, whether other tasks crowd the queue, whether the board or
the gateway may restart. So one run covers all of them, and each property names
the environment it needs.

* `QuietOnlyAfterHeard`: a node that went quiet is known to the station.
* `CleanRoundIsComplete`: if the queue took every chunk and no ACK of an earlier
  round was counted, the station has the whole table.
* `AnnounceReachesStation`: finitely many losses and resets only delay it.

### Telemetry: a sample on its way into the database

Two kinds of node in one module, chosen at the start: a board, whose queue
refuses and whose resets restart the numbering, and a simulated node, which
buffers while its link is dropped and replays the backlog before live data.
`OnTelemetry` is `_on_telemetry` up to its first `await` (conversion, one
transaction with rows and watermark), `SendTelemAck` the send after it; the
gateway may die in between. `table` is the sequence of transactions, each the set of
its rows. `handed` and `gone` are histories: the frames made, and the samples that
will never be committed, with the reason.

* `NothingVanishes`: every sample is in exactly one place, or was discarded for a
  reason the code states; nothing is doubled.
* `CommittedInOrder`: also across a replay, samples are committed in the order
  they were taken.
* `FirstBootAckIsDurable`: what an acknowledged watermark is worth, in the first
  boot and before the counter wraps. After that a watermark that is a plain maximum
  covers frames not yet sent.
* `EverySampleSettles`: no sample stays behind.

### Experiment: runs, triggers and the tag of a sample

The experiment runtime of the simulated node as one record (`node`), because a
trigger runs several of its methods in a row; `Tick` is one iteration of
`_master_loop` (sample, expire bursts, advance the run); clocks stop at `Horizon`,
past every time a spec speaks of. The gateway keeps
`active_run`, by which it tags samples, and the `runs` table. Condition and
sampling moments are chosen freely at every tick. `LinkDrop` and `LinkRestore` are
`apply_fault("link_drop")`: while the link is dropped, samples stay in `backlog`, which
goes out before the next live sample; EXP_STATE does not look at the link and is sent
at once. `CmdErase` (`store.erase`) forgets the backlog. Of a TELEMETRY frame the model
keeps the replay flag and, as history, the run each sample was taken in and the run in
progress when it was sent.

* `SamplesFiledUnderTheirRun`: unless a run is cut short, a sample sent as it was taken
  is filed under the run it was taken in, and under none outside of runs. The exception
  is a sample held back by a dropped link: it is filed under the run in progress when it
  is replayed, which may be none or the next. That `docs/EXPERIMENTS.md` promises more
  is `EverySampleTagged`, which TLC refutes (section 6).
* `TriggerDebounced`, `TimedRunsAreClosed`. The type invariant contains one thing
  that could be wrong: a burst is never remembered as the rate to return to.

### Command: calls, retries and late answers

`send_command`, run by several callers at once against a board (lossy wire) or a
simulated node (synchronous handler). A call is a record: the phase between its
awaits, the future, the attempt, the link it was given at the start. `Timer`
fires between the arrival of an answer and the resumption of the caller or not;
which of the two wins depends on the Python, so it is a constant.

* `AnswerIsOwn`: a call returns the answer to its own command, short of a restart
  of the gateway (the ids begin again).
* `ExecutedAsOften`: at most as often as sent, at most `Tries` times, at least
  once if answered.
* `NothingLeftPending`: a call that is over leaves no entry, unless sending raised.
* `EveryCallEnds`.

### Links: attach, pump, poll, detach

The gateway is one event loop: an action is what one task does between two
suspensions. `stage` follows a request through attach (the port is opened in an
executor) and detach (`Stop` up to the cancellation, `Closed` when the pump is
gone), `pump` and `poll` are the two tasks of a link, `medium` is the transport
that ends or breaks underneath, `told` the last thing subscribers heard. The poll
of a Morse board asks for its mode until it knows it and then sends `v` at most
once: `v` toggles. The board is modelled too: it boots, misses what comes before,
prints its mode, answers `r` and `v`.

* `ConnectedMeansPumping`: a link that says it is connected is registered and read.
* `EndsAreReported`: an end or an error of the medium reaches the subscribers, also
  when the pump was suspended in a send.
* `PrimingSticks`: a board once told to be verbose is never toggled back.
* `PollsEnd`: no poll outlives its link.

### TimeSync: whose clock a date came from

Time is counted in ticks, several to a millisecond of the node, so that the cut to
milliseconds is visible. A node stamps with its uptime; the uptime of a board wraps.
Frames keep, as history, the hour they were made (`made`) and the era of the clock
(`era`: a boot, or a lap). The gateway has one offset per node, from a HELLO (one
way) or an exchange (half-way formula); offsets are kept doubled. The loop sends one
request per period, remembers one `t1`, and ends for good if a send raises.

* `DatesAreClose`: a frame dated with an offset of its own era is wrong by no more
  than half the round trip, or the transit of the HELLO, behind the offset, and the
  milliseconds cut off. Stale, repeated and lost replies, reboots between the two
  stamps of a reply and laps of the clock are all in the model.
* `SyncedInTime`: one period and five prompt delays after the last disturbance, the
  offset is of the present era, as long as the loop is alive. Five: the answer
  to an older request uses up the present one, the turn of the loop after it may be
  late, and then come a request, a task and an answer.

### Codec: finding frames in a stream

Both COBS encoders, both decoders, the length prefix of TCP and the three stream
decoders, as functions over tagged bytes; the connection has one direction and one
framing (`dir`). The receiver reads chunks cut anywhere, a serial line flips and
loses bytes and carries the text a board prints. CRC and header are an ideal check:
a block parses exactly if it is a body the two ends exchange. The loops of the code
are recursive functions over positions (`GatewayCobs`, `BoardCobs`, `Uncobs`,
`CobsFeed`, `BoardFeed`, `PrefixFeed`), so that they can be proved about; `CodecSpec`
is the specification.

* `IntactFramesArrive`: a frame whose bytes, and the delimiter before it, the line
  left alone is decoded once, to what was sent.
* `EveryByteSurfaces`: every byte read is in a frame, in console text or still held,
  in order, once.
* The run `codec_cobs` shows the one thing found wrong: see section 6.

### DioFrame and DioReceiver: bits, an interrupt and a task

The N3 phase between two boards, bit by bit: `ClockBit` is one turn of
`tx_frame`'s loop and the interrupt it causes (`OnBit`, the whole of
`isr_rx_clk_b` with `esps_dio_rx_push_bit`); `HandleRx` is `handle_rx`;
`ReadClock`, `ReadLastBit`, `ReadState`, `Ask` are the separate accesses of
`maybe_resync`, with interrupts between them. The frame format, CRC, bit order
and index rule are the code's, for words of any length; they are in `DioFrame`,
which the simulator's model shares.

* `IntactFrameIsDelivered`: a frame that meets a clean receiver, or one whose
  reset is pending, is delivered whole, whatever happened before.
* `EveryFrameAccounted`: statistics, queue and drop counter together are exact.
* `NoPhantomErrors`: without noise on the line nothing is lost but what the full
  queue refused, and no bit error is counted even then.
* `ParkedIsReset`: a receiver parked in mid-frame gets its reset requested.

### SimDio: the simulated cable, and the firmware beside it

`VirtualWire` as a heap of edges due in so many ticks and a queue of frames, each
with a fate (lost, delayed, a bit flipped) and with glitches thrown in at each poll;
node A blinks, bursts and shakes hands (`StepA`, `Handshake`), node B polls (`StepB`). `Monitored`
is `FrameRx` and `LinkMonitor`, `Shaken` the link state of A, `Emitted` the rate
limiter with a clock that wraps (`Filled`, `Allowed`, `Limited`: its window, its
answer, what it keeps). `twin` is the firmware: the receiver and the link
watch of `esps_dio` given the same bits and outcomes.

* `TwinsAgree`: simulator and firmware count, expect and believe the same, bit by bit.
* `LevelSettles`: when nothing is on its way, B believes the level sent last, unless
  that edge was lost or there was never one.
* `LostFramesAreOnlyMissed`: without flips and reboots, lost frames make no errors,
  as long as fewer than a word can tell apart are lost in a row.
* `HushedIsTold`: an event is held back only inside a full window, and is accounted
  for by the next one let through.

### MorseLines, MorseLink, MorseSketch: a board and its adapter

`MorseLines` is the abstract board: which line may follow which, and that a silence
that lasts closes letter and word. It has no clock and no code table. `MorseLink` is
the board: the interrupt that stamps edges into a ring, the loop that drains it and
looks at the silence, durations as differences of a clock that wraps.
`PrintsItsLines` is the refinement: `INSTANCE MorseLines WITH letter <- dec.symbol #
<<>>, ...` with its fairness. `MorseSketch` composes the adapter of the gateway with
`MorseLines`, so what it relies on is what the board was shown to do: a symbol and its
duration are two lines, the adapter holds one symbol for each hand, lines arrive
spoiled, the mode changes, the stream ends.

* `LettersAreAsKeyed`: a letter printed is the pulses between two letter pauses of the
  wire, with glitches, a late loop and the wrap; an overlong one is not decoded.
* `SymbolsAreReportedOrHeld`, `DurationIsItsOwn`, `HeldIsReported`: a symbol is
  reported once, with its own duration or none, and not held for ever.

## 3. The runs

| run | instance and bounds | distinct states | checked |
|---|---|---|---|
| `announce` | 2 chunks, queue of 2, one frame on each wire, 2 faults | 614,028 | 3 invariants, 1 liveness |
| `telemetry` | 2 channels, 3 ticks, sequence numbers 0..3, 2 samples a frame, backlog of 3, 2 faults, 2 other frames | 510,578 | 4 invariants, 1 liveness |
| `experiment` | five specs: every start mode, trigger action, once or not; backlog of 2, 3 frames on their way, 3 requests or link drops, 2 runs | 178,491 | 3 invariants, 1 liveness |
| `command` | 2 callers, 2 tries, 2 calls, 2 links, 2 faults | 258,432 | 3 invariants, 1 liveness |
| `links` | a Morse board and a link of any other kind, 3 tries, 2 commands and 2 lines on their way | 237,953 | 1 invariant, 1 action, 2 liveness |
| `timesync` | 2 ticks a millisecond, wrap after 2 ms, period 1, 2 frames on their way, 6 ticks, 1 fault | 1,279,807 | 2 invariants, 1 action |
| `codec` | bytes 0..3, blocks of 2, buffer of 6, 3 frames, 1 fault, all directions | 153,707 | 2 invariants |
| `codec_cobs` | one frame down a perfect line, a full block followed by a zero | | violation |
| `dio` | words of 2 bits, payloads of 1 and 2 words, 2 bursts of 2 frames, queue of 1, one fault | 538,974 | 4 invariants, 1 liveness |
| `simdio` | words of 2 bits, lost after 2, one event per window of 2, clock of 3, 3 operations, 1 fault | 445,299 | 3 invariants, 1 action |
| `morse_link` | debounce 1, dot 2, letter 3, word 4, clock of 7, letters of 2, ring of 2, loop 1 late | 979,098 | 1 action, refinement |
| `morse_sketch` | 2 durations, 2 spoiled lines of a hand in a row | 98,533 | 2 invariants, 1 liveness |

Why the bounds are enough for the cases that matter:

* Announce: with two chunks a round can be half accepted, half acknowledged and
  half stale; a queue of 2 can refuse the first or the second; two faults can
  lose an ACK and reset the board, and a third round is reached.
* Telemetry: the sequence space of 4 wraps within the run, a backlog of 3
  overflows at the second buffered tick, a tick of 2 channels with 2 samples a
  frame makes whole and split frames, and two faults are enough to drop and erase
  or to reset twice.
* Experiment: durations, debounce and burst lengths of 1 to 3 ticks, so a burst can
  outlive its run, a run can end in the tick its trigger fires, and a debounce can
  be interrupted. A backlog of 2 holds a sample of a run and one taken after it, and
  overflows at the third; three requests start a run, drop its link and start the next.
* Command: two callers compete for ids and for the pump; two tries give a late
  answer to a first try during the second, or after the end.
* Links: two links suffice, because links share only the registry and the shutdown;
  three tries reach the last ask with and without an answer; two commands on their
  way let an `r` be answered after the `v` that followed it.
* TimeSync: six ticks hold a lap of the clock, a reboot, and two exchanges of which
  the second overtakes the reply of the first; a fault is needed for every
  misdating, and one is enough for each.
* Codec: with blocks of two bytes every body meets the boundary of the length code;
  three frames leave one before and one after the one that is hit; a buffer of six
  overflows when a delimiter is lost.
* DioReceiver, SimDio: words of two bits in which every other word looks like a SYNC,
  so false synchronisation is much more likely than with eight; four frames wrap the
  index carried in the first word; a burst of two overflows a queue of one; a clock of
  three wraps within a window. One fault is enough in `dio`: a pulled cable may lose
  any run of bits. In `simdio` a flip is placed in the length or the payload.
* MorseLink: a clock of seven wraps within a word pause; letters of two symbols
  overflow with three pulses; a ring of two overflows with a pulse and an edge.
* MorseSketch: two spoiled lines in a row lose a duration and the line after it.

`CHECK_DEADLOCK FALSE` is in most configurations because the bounds on faults, ticks
and calls let a behaviour stop; in the system, too, a quiet node with nothing to send
may stop. `morse_link` and `morse_sketch` never stop, and deadlock is checked there.

## 4. Fairness

Only what a scheduler or the event loop gives is assumed, always weak:

* Announce: each FreeRTOS task with something to do runs, and the pump handles
  what it received. No fairness for faults, other traffic or restarts.
* Telemetry: the node samples, the pump handles each frame and finishes its ACK,
  the node's receive task takes each ACK. Restoring a dropped link is not fair.
* Experiment: the master loop ticks, the pump takes each frame; operators do
  what they like.
* Command: ready tasks, timers, the executor thread and the board run. Nothing
  makes a lost frame reappear.
* Links: a suspended task is resumed, executors return, the sleeps of the poll end.
  Nothing is assumed of the medium, the board or the requests.
* DioReceiver: the task handles its queue, and its housekeeping is not starved by
  it (the code gives it a cadence of its own). Role A and the cable are free.
* MorseLink: the loop of the board turns and the clock goes on; nobody has to press or
  let go. MorseSketch: the board closes letters and words, which is what `MorseLines`
  promises and `MorseLink` was shown to do.
* TimeSync, Codec and SimDio have no liveness: what must happen in time is stated with
  times (`SyncedInTime`) or when nothing is on its way (`LevelSettles`).

## 5. What is proved

| theorem | of | for every |
|---|---|---|
| `TelemetryProofs`: `Conserved`, `Ordered`, `Durable`, `TypeCorrect` | `NothingVanishes`, `CommittedInOrder`, `FirstBootAckIsDurable`, `TypeOK` | batch, backlog, queue, sequence space, faults |
| `ExperimentProofs`: `Filed`, `Debounced`, `TypeCorrect` | `SamplesFiledUnderTheirRun`, `TriggerDebounced`, `TypeOK` | specs, lists of actions, backlog, runs, requests, reboots, link drops |
| `AnnounceProofs`: `QuietHeard`, `CleanRound`, `TypeCorrect` | `QuietOnlyAfterHeard`, `CleanRoundIsComplete`, `TypeOK` | number of chunks, queue, faults |
| `CommandProofs`: `OwnAnswer`, `Executed`, `NothingPending`, `TypeCorrect` | `AnswerIsOwn`, `ExecutedAsOften`, `NothingLeftPending`, `TypeOK` | number of callers, tries, links, restarts |
| `DioReceiverProofs`: `FramesAccounted`, `Delivered`, `NothingBlamed`, `TypeCorrect` | `EveryFrameAccounted`, `IntactFrameIsDelivered`, `NoPhantomErrors`, `TypeOK` | word length, polynomial, payload, queue, burst, faults |
| `DioReceiverProofs`: `TwinsDoNotPart`, `LostFramesAreNotErrors`, `LevelDoesSettle`, `HushedIsNotLost` | `TwinsAgree`, `LostFramesAreOnlyMissed`, `LevelSettles`, `HushedIsTold` of `SimDio` | word length, payload, delays, glitches, limits, wrap, operations, mishaps |
| `LinksProofs`: `Connected`, `Priming`, `TypeCorrect` | `ConnectedMeansPumping`, `PrimingSticks`, `TypeOK` | number of links, tries, boot time |
| `LinksProofs`: `StreamLosesNothing`, `IntactFramesAreDecoded`, `StreamTyped` | `EveryByteSurfaces`, `IntactFramesArrive`, `CodecTypeOK` of `Codec` | byte, block, buffer, bodies, cuts of the stream, faults |
| `LinksProofs`: `CarriedFramesAreDecoded`, `GatewayCarries`, `BoardCarries` | the frame of one body; the COBS encoders | byte, block, body |
| `MorseLinkProofs`: `LinesInOrder`, `DecoderTyped` | the safety half of `PrintsItsLines` | thresholds, ring, clock, lateness |
| `MorseLinkProofs`: `LettersFollowTheHand`, `TypeCorrect` | `LettersAreAsKeyed`, `TypeOK` | the same, and glitches |
| `MorseLinkProofs`: `SymbolsAreNotLost`, `DurationsAreOwn` | `SymbolsAreReportedOrHeld`, `DurationIsItsOwn` of `MorseSketch` | durations, changes of mode |
| `TimeSyncProofs`: `Dated`, `Synchronised`, `ClocksAreRead`, `TypeCorrect` | `DatesAreClose`, `SyncedInTime`, `IInv`, `TypeOK` | resolution, wrap, period, delay, faults |

The assumptions are the named ones on the constants (`SizesAssumption`,
`LinksAssumption`, `TimeSyncAssumption` and so on): sizes are positive numbers, and
what the code's own constants satisfy. Those that say more:

* `WordAssumption`: a payload is no longer than a word can count (32 of 255), or the
  length in a frame would not be its length. `LinkAssumption`: a burst has no more
  frames than the index can tell apart (20 of 256).
* `TimeSyncAssumption`: three prompt delays fit into a period (the period is 30 s).
* `MorseAssumption`: the loop is late by less than a letter pause, and neither a word
  pause nor the glitches that may stretch a letter pause (`OldAge`) go once round the
  clock, which at 32 bits of milliseconds takes 49 days.
* `CodecAssumption`: the board's buffer holds the encoding of the longest body sent to
  it (`ESPS_ENLP_STREAM_MAX` is `ESPS_COBS_MAX_ENCODED` of it, `esps_enlp.h:94`,
  `esps_cobs.h:31`), and the length of a message over TCP fits into two bytes.

Three hypotheses stand in theorems themselves. `TwinsDoNotPart` and
`LostFramesAreNotErrors` assume `BodyIsTotal`, a body for every number, where the
assumption of `SimDio` gives one to each frame that may be sent: a receiver that lost
count compares a payload with the body of a frame that never was, and all naturals
are more than TLC can go through. `DurationsAreOwn` assumes that at most two lines
of a hand in a row are spoiled, since with three the durations do come apart; that bound
is the property, not a convenience. `IntactFramesAreDecoded` assumes that the bodies sent
to a board are `Survivable`, which `GatewayCarries` shows to be exactly the bodies its
encoder carries; the bodies of the run `codec` are. `CarriedFramesAreDecoded` has no
such hypothesis: a body the encoder spoils costs its own frame and no other.

*The announcement.* `CleanRoundIsComplete` is not inductive, since it says nothing of
a round in progress. `IInv` (at the end of `Announce.tla`) follows one chunk of the
present round: it is in the queue, on the wire, on its way back, loaded or counted, in
at most one of these places and at most once (`PlacesInv`); once it is on its way back
the station has it (`AckedInv`); and as long as no older ACK was counted, the counter
is exactly the number of chunks counted (`CountInv`). When the count reaches the
number of accepted chunks and all of them were accepted, the counted chunks are all
chunks, and the station has them. The non-atomic increment is part of it: a load that
belongs to this round holds the present count, and a load from before the reset makes
the round tainted.

*Telemetry.* `NothingVanishes` counts over the whole path, so its invariant spreads the
samples over it: the rows of the table, the frames on the wire, the backlog, in this
order, are in the order they were taken, no sample is in two of these places, and one
that is in none is in `gone` with its reason. An overtaking replay and a doubled row
would both break it. `FirstBootAckIsDurable` needs that before the wrap a sequence
number names one frame, and that a frame neither committed nor accounted for is on the
wire, behind every frame whose watermark has been acknowledged.

*Experiments.* The station's belief lags behind the node by the frames in the outbox. So
the invariant speaks of the belief of a station that has heard them: starting from
`active_run`, that belief becomes the node's present run, and every sample passed on
the way is of the run believed in at that point (`Tracks`); a replayed one is so of the
run it was sent in. Taking a sample, holding it back or replaying the backlog tells the
station nothing about runs, and so leaves the belief alone. The methods of the node
need less between one another, since a trigger may stop, reboot and restart a run in
one go: `Agrees` says what such a listener knows when a reboot was not told. Each method
keeps it (`Moves`), so a list of actions of any length does (`FireTriggerMoves`), by a
least counterexample. The debounce rests on the condition having held at least as long
as the node remembers (`Debounce`), which has to survive a trigger that restarts its
own run.

*The digital link.* For `FramesAccounted` the counters are numbers, the queue holds
nothing but completed frames, and each step moves a frame from one place to the next or
leaves all of them alone. `Delivered` and `NothingBlamed` need what the receiver makes
of the bits. That is a recursion, once over the bits of a word, once over the words of a
frame, and `Induct` (a set of numbers with 0 and every successor holds all of them; from
the library's least-element lemma) proves what it computes: the CRC register stays a word,
and a clean receiver is, after each bit of a frame, where the bits sent so far have
led it (`Reached`, `Follow`). `Follow` is inductive with the shape of what is being sent
(`Sending`), and the last bit of an intact frame completes it. `NothingBlamed` adds what a
line without noise leaves alone (`Clean`), that nothing has been blamed so far, and that
the queue holds, in order, frames no further apart than one word can tell (`InOrder`,
with a `Lag` that a full queue may add during a burst and that ends with it): therefore
`handle_rx` finds each frame's number from its low bits.

*The simulated link.* `TwinsAgree` is three equalities (`SameCount`, `SameRx`,
`SameWatch`), each kept by the steps it could part in, under `Wired`: what is in the wire
is an edge of either level, a pulse that begins or ends, or a frame of bits. The rest is
the index rule, which simulator and firmware write differently. `HushedIsTold` rests on
`Ledgered`: for each limiter the events refused are those told of and those still to be
told of, and the age of its window is what the limiter makes of a clock that wraps. As a
step may pass through a limiter many times, `Later` says what holds from one ledger to
any later one. `LostFramesAreOnlyMissed` rests on `Flowing`: the frames on the wire come
in the order of their numbers, the first of them after the last that arrived (`Flow`), and
between two frames the receiver is clean and has found nothing wrong (`Clear`), so each
is met by a receiver that misses fewer frames than a word can tell. `LevelSettles` rests
on `Settling`: the level of the last edge on its way is the one A sent, or there is none
and B's cable shows it already, unless that edge was lost (`Leads`), no edge is due later
than the last (`InTime`), which is what keeps jitter from reversing two, and the pulses
that have begun and those on their way all end (`Balanced`).

*Commands.* `AnswerIsOwn` needs that ids are fresh until a restart: every command and
every answer on the wire, and every entry of the table, carries the id its call was
given, and no id is given twice (`OwnInv`). For `ExecutedAsOften` the executions of a
command and its copies on the wire are together at most its sendings, and an answer
anywhere on its way back implies an execution (`ExecInv`). `NothingLeftPending` needs that an entry
belongs to a call still in progress or to one whose send raised, and to one only
(`LeftInv`).

*Links.* `ConnInv` ties stage, pump, medium and the news of a link together, which is
what the conjuncts of `ConnectedMeansPumping` say of one another's states.
`ToggleInv` counts the `v` on their way: at most one, sent only when the board had
printed that it was off, and never by a poll that will send another.

*The Morse board.* The lines of the concrete board carry a code and durations, which
the abstract one takes from sets; `DecInv` says that the decoder and the ring hold
nothing else. Then each step of the board is one of `MorseLines` or a stutter: one
lemma per pure step of the decoder, one per action. `LettersAreAsKeyed` compares what
is printed with what the hand did, which the board sees late, through a ring, and with
glitches in it. `HandInv` has one part for each place a pulse can be in: the edges in the
ring can be numbered so that they are the last pulses of the hand (`RingInv`), the letter under
way is the pulses drained before them (`LetterInv`), the wire may be in one more
(`WireInv`). The others bound times: no letter has a long pause inside (`PauseInv`), what
came after the ring was drained is younger than the turn of the loop (`LookInv`), and a
letter not yet closed is no older than its glitches could hide (`AgeInv`).

*The adapter.* `TallyInv` is conservation: the symbols that are owed are those held.
`OwnInv` says how many lines of a hand must have been spoiled for a symbol still to be held
at this point of what the board prints (`Needed`); as fewer are, the duration that
comes next is not taken for that of an older symbol.

*The codec.* Every decoder is a recursion over positions the data determine, and a
recursive function has to be shown to exist before it can be unfolded: `FixedPoint` does
it for those that look ahead, `Unfold` for those that go byte by byte. What a decoder
does to the stream is then a relation, `Decodes(S, ev, R)`: of the stream `S` the events
`ev` are returned and `R` is held back, nothing is lost (`Showing`) and no frame is lost
sight of (`Keeping`). It holds of a block between two delimiters (`Cut`), of a full
buffer (`Spill`) and of a message with its length (`WholeMessage`), and one chunk can be
put after another (`Compose`); so the cuts of the stream do not matter. The invariant
`StreamInv` says what of the connection is kept: all that was shown and is held back is
what was read (`AllShown`), and each intact frame is either still in the stream in one
piece, after a delimiter, or in one event and nowhere else (`Tracked`); no frame not yet
sent is in either (`Unsent`), a serial stream ends with a delimiter unless the next frame
is hurt (`Clean`), and over TCP nothing is hurt (`Chain`). A fault keeps it for
the frames it does not touch (`StreamDamage`). That a frame in one piece decodes to its
body is the round trip of the encoder that made it: for the board's by following the
blocks it closes (`Encoded`), for the gateway's from the last block backwards
(`GoodBlocksAll`), as long as no zero follows a full block. Where one does, a zero is gone
for good, since what is decoded is shorter than what was encoded (`ShortenedAll`).

*Time.* `DatesAreClose` compares two stamps that never meet in one state. `IInv` (at
the end of `TimeSync.tla`) says that there is, for each era, an hour at which its clock
read zero, such that every stamp on the wire, in a request being answered or behind the
offset was read off that clock (`ClockInv`), and that for a board the present clock
began a whole number of laps after the boot (`ErasInv`). The hours are not a variable of
the model: each step shows which function serves after it. That the second stamp of a
reply may be of a later era, after a lap, is why the round trip is clamped at zero and
why the hours grow with the eras. The rest is the half-way formula (`HelloOffset`,
`ReplyOffset`), over ticks that a few laws of multiplication keep linear.
`SyncedInTime` is a deadline handed on from leg to leg of an exchange: frames and tasks
are on time once nothing disturbs them (`Punctual`), the loop asks once a period and
remembers its last request (`Turns`), and either the offset is right, or the next turn
comes in time, or the exchange that will put it right is under way and no older request
is still open to take its place (`Progress`).

*What the attempts to prove have changed.* Two formulas that TLC had accepted on its
small instance were too strong, and the invariant that would not close showed the case:
`SyncedInTime` promised four delays and takes five, and the longest age of a pause
(`OldAge`) had room for one lateness per glitch, where both ends of the pulse that hides
the glitch may be late. In `SimDio` the history of a lost edge was written for a burst
whose edge was not due yet. The assumption on the length of a payload was missing. In
`Codec` the assumptions on the board's buffer and on the length of a message were missing:
a body longer than either is cut, and the code rules it out elsewhere. Its type invariant
bounded the frames hurt by one too few, which three faults on one printed byte exceed.

Model-checked only:

* liveness, and the fairness half of the refinement: the prover has no rule for it.

Every invariant and every action property that a passing run checks is a theorem.

## 6. What the code does differently from what is said of it

*Shown by a run.* `codec_cobs`: `cobs.encode` of the gateway skips a zero that follows
a full block of 254 bytes, so the board cannot decode the frame; `test_cobs.py:6-9`
says that any data survives. `GatewayCarries` proves which bodies are lost: exactly those
in which a zero follows a run of other bytes as long as one or more full blocks. The COBS
encoder of the firmware loses none (`BoardCarries`).

*Stated in the modules, refuted by TLC when they are made the invariant or property of
the module's configuration, and in none of the runs.* Each is preceded by the text it
quotes. What does hold in its place is checked.

| stated as | said at | what happens |
|---|---|---|
| `Announce!StaleAcksDiscarded` | `main.c:125-127` | an ACK of the last round that arrives after the reset is counted in the new one |
| `Announce!QuietMeansEverySliceAcked` | `PROTOCOL.md:173-174` | a slice the queue refused is neither sent nor waited for |
| `Telemetry!AckedSamplesAreCommitted` | `store.py:10-13` | samples of an undeclared channel are dropped inside an acknowledged frame |
| `Experiment!FiresOncePerExcursion` | `node.py:1016-1018` | the trigger re-arms by time, and fires again while the condition holds |
| `Experiment!EveryTransitionReported` | `EXPERIMENTS.md:90` | a reboot ends a run without EXP_STATE |
| `Experiment!EverySampleTagged` | `EXPERIMENTS.md:91-93` | samples of a run held back by a dropped link and replayed after its end are filed under no run or the next |
| `Command!TimeoutMeansUnacked` | `PROTOCOL.md:261-262` | `node.set_id` is acknowledged under the new id and times out |
| `DioReceiver!StaleReadOnlyDelays` | `esps_dio.c:275-277` | a stale read of the receiver's state can destroy an intact frame |
| `Links!NodeIdsDistinct` | `runtime.py:155-161` | two Morse sources attached at once choose the same node id |
| `TimeSync!WrapHandled` | `DECISIONS.md:106-107` | after the wrap a board is dated a lap too early until the next exchange |
| `MorseSketch!SymbolNeverLost` | `morse_sketch.py:293-295` | a symbol held is dropped with the line that lets go of it, if its number is unusable |
| `SimDio!LostFrameIsNoBitError` | `test_sim_wire.py:500` | after 256 frames lost in a row every later one is compared with the wrong one |

*Met while modelling, and modelled as the code has it.*

* A reboot of a simulated node leaves `handshakes_ok`, `timeouts`, `edges_rx` and the
  rate limiters as they were, though `node.py:633` says that link counters live in RAM
  and a reboot clears them.
* A replay that spans more than 65.5 s in one frame of 64 samples, which needs less than
  one sample a second over all channels, does not fit `dt_ms`, a u16
  (`messages.py:423`): packing raises after the backlog was cleared (`node.py:935`), and
  the loop that called it, which expects only its cancellation, ends. `Telemetry` and
  `Experiment` carry no such times and take every replay as packable.
* `store.erase` empties the backlog and leaves the run as it is (`node.py:466-468`); the
  lifecycle of `docs/EXPERIMENTS.md:80-88` has it lead from done back to idle.
* The level at which a cable is plugged in is no edge: B does not know it until the
  first change. The last count of hushed events is told only with a later event.
* Before the first exchange a node's samples are dated with an offset of 0
  (`store.py:228-230`), that is, in 1970.
* `_do_reboot` of the simulated node tells of the reboot before its HELLO, so that
  first event is dated with the offset of the boot before.
* One send that raises ends the time-sync loop for all nodes, and a stale reply uses
  up the pending request, so the true answer is ignored after it.

## 7. What is not modelled

* Of `esps_dio`: the edges of the N2 handshake, the scheduler of bursts and the
  ownership of pins. `SimDio` has the outcome of a handshake and the policies that
  judge it. Of `esps_morse`: the filter of the key and the commands that change
  thresholds; the receiving machine is `MorseLink`'s.
* Node identity and NVS: read at boot, written by one command, no concurrency.
* The log hook: a best-effort path; its guard drops a line rather than wait.
* The NDB's behaviour when an id comes back under another key; payload values, units,
  scales, text, the wording of events. `apply_experiment_channels` has no caller, so
  the scale a spec declares is never reversed at the station, against
  `docs/EXPERIMENTS.md:52`; no model carries values, so no run shows it.
* The fields inside a payload: `Codec` takes header, CRC and fields as one ideal check.
  In the framing with a length prefix the raw event of the code carries the message
  without its two length bytes (`tcp.py:35-40`); the model keeps them, because
  `EveryByteSurfaces` follows the bytes of the stream.
* Why a HELLO chunk was refused: no memory, too long for a frame and a full queue are one
  refusal in `Announce`, after which the round goes on in the same way.
* The saturation at 65535 of the counters of good and bad answers in a row
  (`policy.c:16-18`): they are compared only with thresholds, u16 themselves, so no event
  depends on it.
* Trigger actions `set_state`, `set_gpio` and `mark`, and EVENT frames.
* Opening and closing the UART of the firmware and the failure paths of both: they run
  once. ESP-NOW and TCP on the firmware are stubs.
* The simulated mesh draws frames from a table and keeps no protocol state.
* The REST and WebSocket layer is thin over the runtime and keeps nothing but the
  subscribers' queues.
* The desktop: the supervisor of the gateway process, the stream client and the UI are
  programs of their own (Node.js, a browser), whose contact with the gateway is a
  process and a port. Two hazards of theirs are listed in `PROJECT.json` without a
  property.
* The other bench sketches, the serial bridge of the Morse key practice and the
  scripts: stand-alone, not part of the running system.

## 8. What a next step would be

1. `Handshake`: the N2 edges against late answers, with the burst scheduler, composed
   with `DioReceiver`'s phases.
2. An abstract `Delivery` (samples taken, committed, acknowledged) which `Telemetry`
   implements: `Conserved` and `Ordered` are most of that refinement.
3. `Supervisor` and `StreamClient` of the desktop.
