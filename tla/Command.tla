------------------------------- MODULE Command -------------------------------
(***************************************************************************)
(* Commands: GatewayRuntime.send_command, run by several REST requests at  *)
(* once against one node, which executes every CMD that reaches it and     *)
(* answers each with a CMD_ACK.  A call sends its CMD up to Tries times    *)
(* under one id, and waits a while for the answer each time.               *)
(*                                                                         *)
(* The node is a board behind a serial port that loses frames, or a        *)
(* simulated node in the gateway's own process, whose handler runs inside  *)
(* link.send_frame and whose answers wait in its outbox for the pump.      *)
(***************************************************************************)
EXTENDS Integers, Sequences, FiniteSets, Functions

CONSTANTS
    Caller,        \* REST requests that can be in progress at the same time
    Tries,         \* times a CMD is sent at most (cmd_retries + 1, 3 in the code)
    LateTimerWins, \* the Python: whether an answer is dropped when the timer fires
                   \* before the task that waits for it has run (since 3.12)
    MaxCalls,      \* bound: calls
    MaxLinks,      \* bound: links the node is attached through, one after another
    MaxFaults,     \* bound: frames lost and gateway restarts together
    WireDepth      \* bound: frames on the wire in each direction

ASSUME SizesAssumption ==
    /\ Tries \in Nat \ {0}
    /\ LateTimerWins \in BOOLEAN
    /\ MaxCalls \in Nat /\ MaxLinks \in Nat \ {0} /\ MaxFaults \in Nat
    /\ WireDepth \in Nat \ {0}

VARIABLES
    kind,        \* "board" or "sim", fixed at the start
    cmd_id_seq,  \* _cmd_id_seq
    pending,     \* _pending_cmds: <<node id, command id>> -> the call that waits
    node_link,   \* node_link: node id -> link
    link,        \* the attached link, or 0
    lastLink,    \* the last link given out
    call,        \* what each caller's send_command is doing
    down,        \* CMDs on their way to the board
    up,          \* CMD_ACKs on their way to the gateway
    addr,        \* the node's id
    calls,       \* calls so far; its number identifies a call in the properties
    faults,      \* frames lost and restarts so far
    restarted,   \* history: the gateway restarted
    execs,       \* history: how often the node executed each call's CMD
    seen         \* history: calls whose CMD_ACK reached the gateway in time

wire == <<down, up>>
links == <<node_link, link, lastLink>>
history == <<faults, restarted, execs, seen>>
vars == <<kind, cmd_id_seq, pending, links, call, wire, addr, calls, history>>

\* "query" stands for every op that leaves the node's id alone; "invalid" for one
\* whose arguments the simulated node's handler cannot convert.  The firmware
\* implements neither node.set_id nor any conversion.
Ops == IF kind = "board" THEN {"query"} ELSE {"query", "node.set_id", "invalid"}

Addr == {1, 2}
CallNo == 1 .. MaxCalls
Idle == [phase |-> "idle", n |-> 0, to |-> 0, op |-> "query", id |-> 0, attempt |-> 0,
         link |-> 0, fut |-> "none", late |-> FALSE, answer |-> 0]

Key(c) == <<call[c].to, call[c].id>>
Cmd(c) == [id |-> call[c].id, op |-> call[c].op, n |-> call[c].n]
InProgress(c) == call[c].phase \in {"sending", "waiting"}

\* f without the entry of key k, if it has one.
Popped(f, k) == Restrict(f, DOMAIN f \ {k})
Stored(f, k, v) == [j \in DOMAIN f \cup {k} |-> IF j = k THEN v ELSE f[j]]

-----------------------------------------------------------------------------
(* Plausible mistakes.                                                     *)

\* Every command carries the same id.
NextIdStuck == 1

\* One retry too many.
MayRetryOnceMore(c) == call[c].attempt <= Tries

\* A timeout leaves the pending entry behind.
ForgetKeeps(c) == pending

\* The wait has no timeout.
TimerNever(c) == call[c].phase = "none" /\ UNCHANGED vars

-----------------------------------------------------------------------------
Init ==
    /\ kind \in {"board", "sim"}
    /\ cmd_id_seq = 0 /\ pending = [k \in {} |-> 0]
    /\ node_link = [a \in {1} |-> 1] /\ link = 1 /\ lastLink = 1
    /\ call = [c \in Caller |-> Idle]
    /\ down = <<>> /\ up = <<>>
    /\ addr = 1
    /\ calls = 0 /\ faults = 0 /\ restarted = FALSE
    /\ execs = [n \in CallNo |-> 0] /\ seen = {}

-----------------------------------------------------------------------------
(* The node: handle_cmd and _handle_cmd.                                   *)

\* The handler takes effect first; the answer goes out under the id the node has
\* then, and is lost when the board's transmit queue is full or nobody listens.
Execute(cmd, listened) ==
    /\ execs' = [execs EXCEPT ![cmd.n] = @ + 1]
    /\ addr' = IF cmd.op = "node.set_id" THEN 2 ELSE addr
    /\ up' = IF listened /\ Len(up) < WireDepth
             THEN Append(up, [node |-> addr', id |-> cmd.id, n |-> cmd.n]) ELSE up

\* The board's receive task takes a CMD off the wire.
OnCmd ==
    /\ down # <<>>
    /\ Execute(Head(down), TRUE)
    /\ down' = Tail(down)
    /\ UNCHANGED <<kind, cmd_id_seq, pending, links, call, calls, faults, restarted, seen>>

-----------------------------------------------------------------------------
(* send_command.                                                           *)

NextId == cmd_id_seq + 1

\* The call ends: all that is left of it is its number and its outcome.
Over(c, fut) ==
    [Idle EXCEPT !.phase = "done", !.n = call[c].n, !.attempt = call[c].attempt,
                 !.answer = call[c].answer, !.fut = fut]

\* A request for a node with an attached link: a fresh id, a future under it.
Begin(c, to, op) ==
    /\ call[c].phase \in {"idle", "done"}
    /\ calls < MaxCalls
    /\ op \in Ops
    /\ to \in DOMAIN node_link
    /\ node_link[to] = link /\ link # 0
    /\ calls' = calls + 1
    /\ cmd_id_seq' = NextId
    /\ call' = [call EXCEPT ![c] =
                  [Idle EXCEPT !.phase = "sending", !.n = calls', !.to = to, !.op = op,
                               !.id = NextId, !.attempt = 1, !.link = link,
                               !.fut = "pending"]]
    /\ pending' = Stored(pending, <<to, NextId>>, calls')
    /\ UNCHANGED <<kind, links, wire, addr, history>>

\* link.send_frame on the serial port: an executor thread writes the frame, while
\* other callers go on; then the call waits.
Write(c) ==
    /\ kind = "board"
    /\ call[c].phase = "sending"
    /\ call[c].link = link
    /\ Len(down) < WireDepth
    /\ down' = Append(down, Cmd(c))
    /\ call' = [call EXCEPT ![c].phase = "waiting"]
    /\ UNCHANGED <<kind, cmd_id_seq, pending, links, up, addr, calls, history>>

\* link.send_frame on a simulated node: the handler runs to its end.  A node whose
\* link was detached executes all the same, but nobody reads its outbox.
Deliver(c) ==
    /\ kind = "sim"
    /\ call[c].phase = "sending" /\ call[c].op # "invalid"
    /\ call[c].link = link => Len(up) < WireDepth
    /\ Execute(Cmd(c), call[c].link = link)
    /\ call' = [call EXCEPT ![c].phase = "waiting"]
    /\ UNCHANGED <<kind, cmd_id_seq, pending, links, down, calls, faults, restarted, seen>>

\* link.send_frame raises: the port is closed, or the simulated node's handler
\* raised.  Nobody removes the pending entry.
SendRaises(c) ==
    /\ call[c].phase = "sending"
    /\ IF kind = "board" THEN call[c].link # link ELSE call[c].op = "invalid"
    /\ call' = [call EXCEPT ![c] = Over(c, "raised")]
    /\ UNCHANGED <<kind, cmd_id_seq, pending, links, wire, addr, calls, history>>

\* wait_for's timer fires: the future is cancelled, if it is not done yet.
Timer(c) ==
    /\ call[c].phase = "waiting"
    /\ ~call[c].late
    /\ call' = [call EXCEPT ![c].late = TRUE,
                            ![c].fut = IF @ = "pending" THEN "cancelled" ELSE @]
    /\ UNCHANGED <<kind, cmd_id_seq, pending, links, wire, addr, calls, history>>

Answered(c) == call[c].fut = "set" /\ (call[c].late => ~LateTimerWins)
TimedOut(c) == call[c].late /\ ~Answered(c)

\* The waiting task runs again, with the answer.
Return(c) ==
    /\ call[c].phase = "waiting"
    /\ Answered(c)
    /\ call' = [call EXCEPT ![c] = Over(c, "set")]
    /\ UNCHANGED <<kind, cmd_id_seq, pending, links, wire, addr, calls, history>>

Forget(c) == Popped(pending, Key(c))
MayRetry(c) == call[c].attempt < Tries

\* The waiting task runs again, with a timeout: the same command again, through
\* the link found at the start.
Retry(c) ==
    /\ call[c].phase = "waiting"
    /\ TimedOut(c)
    /\ MayRetry(c)
    /\ call' = [call EXCEPT ![c].phase = "sending", ![c].attempt = @ + 1,
                            ![c].fut = "pending", ![c].late = FALSE]
    /\ pending' = Stored(pending, Key(c), call[c].n)
    /\ UNCHANGED <<kind, cmd_id_seq, links, wire, addr, calls, history>>

\* ... or CommandTimeoutError.
GiveUp(c) ==
    /\ call[c].phase = "waiting"
    /\ TimedOut(c)
    /\ ~MayRetry(c)
    /\ call' = [call EXCEPT ![c] = Over(c, "timeout")]
    /\ pending' = Forget(c)
    /\ UNCHANGED <<kind, cmd_id_seq, links, wire, addr, calls, history>>

-----------------------------------------------------------------------------
(* The pump and the links.                                                 *)

\* _resolve_cmd_ack, after node_link has noted where the frame came from: the
\* answer goes to the future that waits under this node and id.
OnCmdAck ==
    /\ up # <<>>
    /\ link # 0
    /\ LET ack == Head(up)
           k == <<ack.node, ack.id>>
           awaits(c) == /\ k \in DOMAIN pending
                        /\ InProgress(c)
                        /\ call[c].n = pending[k] /\ call[c].fut = "pending"
       IN /\ node_link' = Stored(node_link, ack.node, link)
          /\ pending' = Popped(pending, k)
          /\ call' = [c \in Caller |->
                        IF awaits(c) THEN [call[c] EXCEPT !.fut = "set", !.answer = ack.n]
                        ELSE call[c]]
          /\ seen' = IF \E c \in Caller : InProgress(c) /\ call[c].n = ack.n
                                            /\ call[c].fut = "pending"
                     THEN seen \cup {ack.n} ELSE seen
    /\ up' = Tail(up)
    /\ UNCHANGED <<kind, cmd_id_seq, link, lastLink, down, addr, calls, faults, restarted,
                   execs>>

\* Any other frame of the node, a heartbeat for instance.
OnOther ==
    /\ link # 0
    /\ node_link' = Stored(node_link, addr, link)
    /\ UNCHANGED <<kind, cmd_id_seq, pending, link, lastLink, call, wire, addr, calls, history>>

\* detach_link closes the transport; node_link is left as it is.
Detach ==
    /\ link # 0
    /\ lastLink < MaxLinks
    /\ link' = 0
    /\ up' = <<>>
    /\ UNCHANGED <<kind, cmd_id_seq, pending, node_link, lastLink, call, down, addr, calls,
                   history>>

\* attach_serial on the same board.
Attach ==
    /\ kind = "board" /\ link = 0
    /\ link' = lastLink + 1
    /\ lastLink' = lastLink + 1
    /\ UNCHANGED <<kind, cmd_id_seq, pending, node_link, call, wire, addr, calls, history>>

-----------------------------------------------------------------------------
(* Faults of the board's wire and of the gateway.                          *)

Lose ==
    /\ kind = "board"
    /\ faults < MaxFaults
    /\ faults' = faults + 1
    /\ \/ down # <<>> /\ down' = Tail(down) /\ UNCHANGED up
       \/ up # <<>> /\ up' = Tail(up) /\ UNCHANGED down
    /\ UNCHANGED <<kind, cmd_id_seq, pending, links, call, addr, calls, restarted, execs, seen>>

\* The gateway process restarts and the operator attaches the board again: what
\* is on the wire survives, the counter of command ids does not.
GatewayRestart ==
    /\ kind = "board"
    /\ faults < MaxFaults
    /\ faults' = faults + 1
    /\ restarted' = TRUE
    /\ cmd_id_seq' = 0
    /\ pending' = [k \in {} |-> 0]
    /\ call' = [c \in Caller |-> Idle]
    /\ node_link' = [a \in {} |-> 0] /\ link' = 1 /\ lastLink' = 1
    /\ UNCHANGED <<kind, wire, addr, calls, execs, seen>>

-----------------------------------------------------------------------------
Send(c) == Write(c) \/ Deliver(c) \/ SendRaises(c)
Resume(c) == Return(c) \/ Retry(c) \/ GiveUp(c)

Next ==
    \/ \E c \in Caller :
          \/ \E to \in Addr, op \in {"query", "node.set_id", "invalid"} : Begin(c, to, op)
          \/ Send(c) \/ Timer(c) \/ Resume(c)
    \/ OnCmd \/ OnCmdAck \/ OnOther
    \/ Detach \/ Attach \/ Lose \/ GatewayRestart

Spec == Init /\ [][Next]_vars

\* The event loop runs every ready task, every timer and the pump; executor
\* threads and the board run.
Fairness ==
    /\ \A c \in Caller : WF_vars(Send(c)) /\ WF_vars(Timer(c)) /\ WF_vars(Resume(c))
    /\ WF_vars(OnCmd) /\ WF_vars(OnCmdAck)

FairSpec == Spec /\ Fairness

-----------------------------------------------------------------------------
TypeOK ==
    /\ kind \in {"board", "sim"}
    /\ cmd_id_seq \in 0 .. MaxCalls
    /\ \A k \in DOMAIN pending : k \in Addr \X CallNo /\ pending[k] \in CallNo
    /\ DOMAIN node_link \subseteq Addr
    /\ link \in 0 .. MaxLinks /\ lastLink \in 1 .. MaxLinks
    /\ \A c \in Caller :
          /\ call[c].phase \in {"idle", "sending", "waiting", "done"}
          /\ call[c].attempt \in 0 .. Tries
          /\ call[c].fut \in {"none", "pending", "set", "cancelled", "timeout", "raised"}
    /\ addr \in Addr
    /\ seen \subseteq CallNo

\* A call returns the answer to its own command, however many calls, retries and
\* late answers there are, as long as the gateway does not restart: after a
\* restart the command ids begin again and an old answer may fit a new command.
AnswerIsOwn ==
    ~restarted =>
        \A c \in Caller : call[c].answer # 0 => call[c].answer = call[c].n

\* How often a command was executed: never more often than it was sent, at least
\* once if the call has an answer, exactly once if it was answered on the first
\* try.
ExecutedAsOften ==
    \A c \in Caller :
        call[c].phase # "idle" =>
            /\ execs[call[c].n] <= call[c].attempt
            /\ call[c].attempt <= Tries
            /\ ~restarted /\ call[c].answer # 0 => execs[call[c].n] >= 1

\* A call that is over has left no pending entry behind, unless sending raised.
NothingLeftPending ==
    \A k \in DOMAIN pending, c \in Caller :
        call[c].phase = "done" /\ pending[k] = call[c].n => call[c].fut = "raised"

\* Every call comes to an end: an answer, CommandTimeoutError or the exception of
\* the transport, or the end of the process.
EveryCallEnds ==
    \A c \in Caller : InProgress(c) ~> ~InProgress(c)

-----------------------------------------------------------------------------
\* PROTOCOL.md, CMD: "The station retries an unacked CMD at most twice, then
\* surfaces a timeout".  So a command whose CMD_ACK arrived in time does not time
\* out.  node.set_id does: its answer comes under the new id, and is looked up
\* under that one.
TimeoutMeansUnacked ==
    \A c \in Caller : call[c].fut = "timeout" => call[c].n \notin seen
=============================================================================
