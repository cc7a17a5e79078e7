------------------------------- MODULE Links --------------------------------
(***************************************************************************)
(* The lifecycle of the links of the gateway: attach, the pump that turns  *)
(* bytes into events, the medium that ends or breaks underneath it, the    *)
(* poll that keeps a Morse board talking, detach and shutdown, and what    *)
(* the subscribers of the event stream were told.                          *)
(*                                                                         *)
(* Everything runs on one event loop: an action is what one task does      *)
(* between two suspensions.  Publishing to a subscriber never suspends,    *)
(* since its queue is unbounded, so a link is registered and announced in  *)
(* the step that starts its pump.                                          *)
(*                                                                         *)
(* A Morse board is the sketch at the other end of the port: it starts     *)
(* not verbose and says so, answers 'r' with its mode, and toggles its     *)
(* mode at 'v'.                                                            *)
(***************************************************************************)
EXTENDS Integers, Sequences, FiniteSets

CONSTANTS
    Link,       \* attach requests, one link each
    Kinds,      \* request -> the kinds of link it may ask for
    Base(_),    \* low byte of the sum of the path of a Morse source
    IdSpace,    \* node ids of Morse sources (256 in the code)
    Tries,      \* asks before the priming gives up (12)
    MaxQueue    \* bound: commands, or mode lines, on their way at once

ASSUME LinksAssumption ==
    /\ Kinds \in [Link -> SUBSET {"serial", "tcp", "morse", "replay"}]
    /\ IdSpace \in Nat \ {0} /\ \A l \in Link : Base(l) \in 0 .. IdSpace - 1
    /\ Tries \in Nat \ {0} /\ MaxQueue \in Nat \ {0}

NoId == -1
Unknown == -1

VARIABLES
    kind,       \* kind of the link
    stage,      \* where attach or detach of the link is
    connected,  \* Link.connected
    pump,       \* the pump task
    medium,     \* the transport underneath
    told,       \* what subscribers heard last of the link
    node_id,    \* meta["node_id"] of a Morse link
    down,       \* shutdown began
    poll,       \* where the poll task of a Morse link is
    primed, tries_left, \* its local variables
    known,      \* decoder.verbose
    cmds,       \* commands on their way to the board
    lines,      \* mode lines on their way from the board
    booted,     \* the board listens
    verbose     \* mode of the board

life == <<kind, stage, connected, pump, medium, told, node_id, down>>
asking == <<poll, primed, tries_left, known>>
board == <<cmds, lines, booted, verbose>>
vars == <<life, asking, board>>

Registered == {l \in Link : stage[l] = "up"}   \* the keys of links
Morse(k) == k \in {"morse", "replay"}
Polling(l) == poll[l] \in {"boot", "wait", "check"}
-----------------------------------------------------------------------------
Init ==
    /\ kind = [l \in Link |-> "none"] /\ stage = [l \in Link |-> "unused"]
    /\ connected = [l \in Link |-> FALSE] /\ pump = [l \in Link |-> "none"]
    /\ medium = [l \in Link |-> "closed"] /\ told = [l \in Link |-> "nothing"]
    /\ node_id = [l \in Link |-> NoId] /\ down = FALSE
    /\ poll = [l \in Link |-> "none"] /\ primed = [l \in Link |-> FALSE]
    /\ tries_left = [l \in Link |-> Tries] /\ known = [l \in Link |-> Unknown]
    /\ cmds = [l \in Link |-> <<>>] /\ lines = [l \in Link |-> <<>>]
    /\ booted = [l \in Link |-> FALSE] /\ verbose = [l \in Link |-> 0]

\* _morse_node_id: the first id at or after the base that no registered
\* link has; the base itself when all are taken.
NodeId(l) ==
    LET taken == {node_id[m] : m \in Registered}
        free == {d \in 0 .. IdSpace - 1 : (Base(l) + d) % IdSpace \notin taken}
    IN  IF free = {} THEN Base(l)
        ELSE (Base(l) + CHOOSE d \in free : \A e \in free : d <= e) % IdSpace

\* The id is chosen, then the transport is opened in an executor.
Attach(l, k) ==
    /\ ~down /\ stage[l] = "unused"
    /\ kind' = [kind EXCEPT ![l] = k]
    /\ node_id' = [node_id EXCEPT ![l] = IF Morse(k) THEN NodeId(l) ELSE NoId]
    /\ stage' = [stage EXCEPT ![l] = "opening"]
    /\ UNCHANGED <<connected, pump, medium, told, down, asking, board>>

\* Link.start and the rest of _start_link, then the poll of a sketch, which
\* leaves the mode alone if the request says so.
Opened(l) ==
    /\ stage[l] = "opening"
    /\ stage' = [stage EXCEPT ![l] = "up"]
    /\ connected' = [connected EXCEPT ![l] = TRUE]
    /\ pump' = [pump EXCEPT ![l] = "reading"]
    /\ medium' = [medium EXCEPT ![l] = "live"]
    /\ told' = [told EXCEPT ![l] = "up"]
    /\ \/ /\ kind[l] = "morse" /\ poll' = [poll EXCEPT ![l] = "boot"]
          /\ primed' \in {primed, [primed EXCEPT ![l] = TRUE]}
       \/ kind[l] # "morse" /\ UNCHANGED <<poll, primed>>
    /\ UNCHANGED <<kind, node_id, down, tries_left, known, board>>

OpenFails(l) ==
    /\ stage[l] = "opening"
    /\ stage' = [stage EXCEPT ![l] = "failed"]
    /\ UNCHANGED <<kind, connected, pump, medium, told, node_id, down, asking, board>>
-----------------------------------------------------------------------------
(* The medium and the board. *)

\* The capture ran out, or the peer closed.
MediumEnds(l) ==
    /\ medium[l] = "live" /\ kind[l] \in {"tcp", "replay"}
    /\ medium' = [medium EXCEPT ![l] = "ended"]
    /\ UNCHANGED <<kind, stage, connected, pump, told, node_id, down, asking, board>>

\* The port went away, or the connection broke.
MediumBreaks(l) ==
    /\ medium[l] = "live" /\ kind[l] # "replay"
    /\ medium' = [medium EXCEPT ![l] = "broken"]
    /\ UNCHANGED <<kind, stage, connected, pump, told, node_id, down, asking, board>>

\* Opening the port resets the board; while it boots it hears nothing, and then
\* it prints its mode.
BoardBoots(l) ==
    /\ kind[l] = "morse" /\ medium[l] = "live" /\ ~booted[l]
    /\ booted' = [booted EXCEPT ![l] = TRUE]
    /\ lines' = [lines EXCEPT ![l] = Append(@, verbose[l])]
    /\ UNCHANGED <<life, asking, cmds, verbose>>

BoardMisses(l) ==
    /\ medium[l] = "live" /\ ~booted[l] /\ cmds[l] # <<>>
    /\ cmds' = [cmds EXCEPT ![l] = Tail(@)]
    /\ UNCHANGED <<life, asking, lines, booted, verbose>>

\* 'r' prints the mode, 'v' changes it and prints it.
BoardAnswers(l) ==
    /\ medium[l] = "live" /\ booted[l] /\ cmds[l] # <<>> /\ Len(lines[l]) < MaxQueue
    /\ LET mode == IF Head(cmds[l]) = "v" THEN 1 - verbose[l] ELSE verbose[l]
       IN  /\ verbose' = [verbose EXCEPT ![l] = mode]
           /\ lines' = [lines EXCEPT ![l] = Append(@, mode)]
    /\ cmds' = [cmds EXCEPT ![l] = Tail(@)]
    /\ UNCHANGED <<life, asking, booted>>
-----------------------------------------------------------------------------
(* The pump. *)

\* A frame that asks for an answer: the handler suspends in send_frame.
PumpFrame(l) ==
    /\ pump[l] = "reading" /\ medium[l] = "live" /\ ~Morse(kind[l])
    /\ pump' = [pump EXCEPT ![l] = "sending"]
    /\ UNCHANGED <<kind, stage, connected, medium, told, node_id, down, asking, board>>

PumpSent(l) ==
    /\ pump[l] = "sending" /\ medium[l] # "broken"
    /\ pump' = [pump EXCEPT ![l] = "reading"]
    /\ UNCHANGED <<kind, stage, connected, medium, told, node_id, down, asking, board>>

\* A line of a Morse source; what its handler sends is absorbed.
PumpLine(l) ==
    /\ pump[l] = "reading" /\ lines[l] # <<>>
    /\ known' = [known EXCEPT ![l] = Head(lines[l])]
    /\ lines' = [lines EXCEPT ![l] = Tail(@)]
    /\ UNCHANGED <<life, poll, primed, tries_left, cmds, booted, verbose>>

\* The pump is over; the link is not connected and subscribers hear of it.
PumpStops(l, news) ==
    /\ pump' = [pump EXCEPT ![l] = "done"]
    /\ connected' = [connected EXCEPT ![l] = FALSE]
    /\ told' = [told EXCEPT ![l] = news]
    /\ UNCHANGED <<kind, stage, medium, node_id, down, asking, board>>

\* The iterator ends when all it held was read.
PumpEndsSilently(l) ==
    /\ pump[l] = "reading" /\ medium[l] = "ended" /\ lines[l] = <<>>
    /\ pump' = [pump EXCEPT ![l] = "done"]
    /\ UNCHANGED <<kind, stage, connected, medium, told, node_id, down, asking, board>>
PumpEnds(l) ==
    /\ pump[l] = "reading" /\ medium[l] = "ended" /\ lines[l] = <<>>
    /\ PumpStops(l, "closed")

\* Reading, or the send of a handler, raises.
PumpFailsReading(l) ==
    /\ pump[l] = "reading" /\ medium[l] = "broken"
    /\ PumpStops(l, "error")
PumpFails(l) ==
    /\ pump[l] \in {"reading", "sending"} /\ medium[l] = "broken"
    /\ PumpStops(l, "error")
-----------------------------------------------------------------------------
(* _morse_poll. *)

\* write_text raises on a port that is gone, which ends the poll.
Write(l, c, next) ==
    IF medium[l] = "live"
    THEN /\ Len(cmds[l]) < MaxQueue
         /\ cmds' = [cmds EXCEPT ![l] = Append(@, c)]
         /\ poll' = [poll EXCEPT ![l] = next]
    ELSE /\ poll' = [poll EXCEPT ![l] = "done"]
         /\ UNCHANGED cmds

PollFirst(l) ==
    /\ poll[l] = "boot"
    /\ Write(l, "r", "wait")
    /\ UNCHANGED <<life, primed, tries_left, known, lines, booted, verbose>>

\* A link that is down ends the poll; otherwise it asks again.
AskAgainLater(l) ==
    IF connected[l] THEN Write(l, "r", "wait")
    ELSE poll' = [poll EXCEPT ![l] = "wait"] /\ UNCHANGED cmds
AskAgain(l) ==
    IF connected[l] THEN Write(l, "r", "wait")
    ELSE poll' = [poll EXCEPT ![l] = "done"] /\ UNCHANGED cmds

\* The tries are used up with this one.
LastTry(l) == ~primed[l] /\ tries_left[l] <= 1

\* The priming is over: asked too often, or the board told its mode.
PrimedAtLastTry(l) == primed[l] \/ LastTry(l)
Primed(l) == primed[l] \/ LastTry(l) \/ known[l] # Unknown

\* One turn of the loop, up to the write of 'v' if the mode is off.
PollTurn(l) ==
    /\ poll[l] = "wait"
    /\ tries_left' = [tries_left EXCEPT ![l] = IF primed[l] THEN @ ELSE @ - 1]
    /\ primed' = [primed EXCEPT ![l] = Primed(l)]
    /\ IF ~primed[l] /\ ~LastTry(l) /\ known[l] = 0
       THEN Write(l, "v", "check")
       ELSE AskAgain(l)
    /\ UNCHANGED <<life, known, lines, booted, verbose>>

\* 0.3 s after 'v'.
PollCheck(l) ==
    /\ poll[l] = "check"
    /\ AskAgain(l)
    /\ UNCHANGED <<life, primed, tries_left, known, lines, booted, verbose>>
-----------------------------------------------------------------------------
(* Detach and shutdown. *)

Cancelled(task) == IF task \in {"none", "done"} THEN task ELSE "cancelled"

\* Link.stop, up to the cancellation of the pump.
Stop(l) ==
    /\ stage' = [stage EXCEPT ![l] = "stopping"]
    /\ connected' = [connected EXCEPT ![l] = FALSE]
    /\ pump' = [pump EXCEPT ![l] = Cancelled(@)]

Detach(l) ==
    /\ ~down /\ l \in Registered
    /\ Stop(l)
    /\ poll' = [poll EXCEPT ![l] = Cancelled(@)]
    /\ UNCHANGED <<kind, medium, told, node_id, down, primed, tries_left, known, board>>

PumpCancelled(l) ==
    /\ pump[l] = "cancelled"
    /\ pump' = [pump EXCEPT ![l] = "done"]
    /\ UNCHANGED <<kind, stage, connected, medium, told, node_id, down, asking, board>>

PollCancelled(l) ==
    /\ poll[l] = "cancelled"
    /\ poll' = [poll EXCEPT ![l] = "done"]
    /\ UNCHANGED <<life, primed, tries_left, known, board>>

\* The pump is gone: the transport is closed, and detach announces it.
Closed(l) ==
    /\ stage[l] = "stopping" /\ pump[l] = "done"
    /\ stage' = [stage EXCEPT ![l] = "gone"]
    /\ medium' = [medium EXCEPT ![l] = "closed"]
    /\ told' = [told EXCEPT ![l] = IF down THEN @ ELSE "detached"]
    /\ UNCHANGED <<kind, connected, pump, node_id, down, asking, board>>

\* shutdown, after the last request was served.
Shutdown ==
    /\ ~down /\ down' = TRUE
    /\ \A l \in Link : stage[l] \notin {"opening", "stopping"}
    /\ poll' = [l \in Link |-> Cancelled(poll[l])]
    /\ UNCHANGED <<kind, stage, connected, pump, medium, told, node_id, primed, tries_left, known, board>>

ShutdownLink(l) ==
    /\ down /\ l \in Registered
    /\ \A m \in Link : poll[m] \in {"none", "done"} /\ stage[m] # "stopping"
    /\ Stop(l)
    /\ UNCHANGED <<kind, medium, told, node_id, down, asking, board>>
-----------------------------------------------------------------------------
Pump(l) ==
    \/ PumpFrame(l) \/ PumpSent(l) \/ PumpLine(l) \/ PumpEnds(l) \/ PumpFails(l)
    \/ PumpCancelled(l)
Poll(l) == PollFirst(l) \/ PollTurn(l) \/ PollCheck(l) \/ PollCancelled(l)
Board(l) == BoardBoots(l) \/ BoardMisses(l) \/ BoardAnswers(l)

Next ==
    \/ \E l \in Link : \E k \in Kinds[l] : Attach(l, k)
    \/ \E l \in Link :
          \/ Opened(l) \/ OpenFails(l) \/ Pump(l) \/ Poll(l) \/ Board(l)
          \/ MediumEnds(l) \/ MediumBreaks(l)
          \/ Detach(l) \/ Closed(l) \/ ShutdownLink(l)
    \/ Shutdown

Spec == Init /\ [][Next]_vars

(* A suspended task of the event loop is resumed, an executor returns, and *)
(* the sleeps of the poll end.  Nothing is assumed of the medium, of the   *)
(* board or of the requests.                                               *)
Fairness ==
    \A l \in Link :
        /\ WF_vars(PumpSent(l)) /\ WF_vars(PumpLine(l)) /\ WF_vars(PumpEnds(l))
        /\ WF_vars(PumpFails(l)) /\ WF_vars(PumpCancelled(l))
        /\ WF_vars(Poll(l)) /\ WF_vars(Closed(l))

FairSpec == Spec /\ Fairness
-----------------------------------------------------------------------------
(* The type invariant; no queue holds more than its bound, and no poll     *)
(* counts its tries below zero.                                            *)
TypeOK ==
    /\ kind \in [Link -> {"none", "serial", "tcp", "morse", "replay"}]
    /\ stage \in [Link -> {"unused", "opening", "failed", "up", "stopping", "gone"}]
    /\ connected \in [Link -> BOOLEAN]
    /\ pump \in [Link -> {"none", "reading", "sending", "cancelled", "done"}]
    /\ medium \in [Link -> {"closed", "live", "ended", "broken"}]
    /\ told \in [Link -> {"nothing", "up", "closed", "error", "detached"}]
    /\ node_id \in [Link -> (0 .. IdSpace - 1) \cup {NoId}]
    /\ down \in BOOLEAN
    /\ poll \in [Link -> {"none", "boot", "wait", "check", "cancelled", "done"}]
    /\ primed \in [Link -> BOOLEAN] /\ tries_left \in [Link -> 0 .. Tries]
    /\ known \in [Link -> {Unknown, 0, 1}]
    /\ cmds \in [Link -> Seq({"r", "v"})] /\ lines \in [Link -> Seq({0, 1})]
    /\ \A l \in Link : Len(cmds[l]) <= MaxQueue /\ Len(lines[l]) <= MaxQueue
    /\ booted \in [Link -> BOOLEAN] /\ verbose \in [Link -> {0, 1}]

(* D-22, base.py: a link that can never produce another byte must not look *)
(* alive.  Connected means that a pump is reading it, in the registry of   *)
(* links, and subscribers that believe a registered link to be up are      *)
(* right.                                                                  *)
ConnectedMeansPumping ==
    \A l \in Link :
        /\ connected[l] => stage[l] = "up" /\ pump[l] \in {"reading", "sending"}
        /\ stage[l] = "up" /\ told[l] = "up" => connected[l]

(* A medium that ended or broke under a registered link is reported to the *)
(* subscribers, as an end, as an error or because the link is detached,    *)
(* also when the pump was in the middle of an answer; only the shutdown of *)
(* the gateway may come before it.                                         *)
EndsAreReported ==
    \A l \in Link :
        stage[l] = "up" /\ medium[l] \in {"ended", "broken"}
            ~> told[l] \in {"closed", "error", "detached"} \/ down

(* runtime.py, _morse_poll: 'v' toggles the mode, so it must reach a board *)
(* only if its mode is off and never a second time, however late the       *)
(* answers to 'r' come: when every command was carried out, a mode once    *)
(* switched on is still on.                                                *)
PrimingSticks ==
    [][\A l \in Link : verbose[l] = 1 => verbose'[l] = 1]_verbose

(* No poll outlives its link: it ends when its link is detached, and by    *)
(* itself when the link is no longer connected.                            *)
PollsEnd ==
    \A l \in Link : stage[l] \in {"up", "stopping", "gone"} /\ ~connected[l] ~> ~Polling(l)

(* runtime.py, _morse_node_id: "a collision with a link that is still      *)
(* attached is stepped over".  The id is chosen before the port is opened  *)
(* and taken when the link is registered.                                  *)
NodeIdsDistinct ==
    \A l, m \in Registered : l # m /\ node_id[l] # NoId => node_id[l] # node_id[m]
=============================================================================
