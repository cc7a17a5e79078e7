---------------------------- MODULE CommandProofs ----------------------------
(***************************************************************************)
(* For any number of callers, calls, tries, links and faults: a call       *)
(* returns the answer to its own command as long as the gateway does not   *)
(* restart, its command is executed no more often than sent, and a call    *)
(* that is over has left nothing pending.                                  *)
(***************************************************************************)
EXTENDS Command, FiniteSetTheorems, TLAPS

Phase == {"idle", "sending", "waiting", "done"}
Fut == {"none", "pending", "set", "cancelled", "timeout", "raised"}
Op == {"query", "node.set_id", "invalid"}

Call == [phase : Phase, n : Nat, to : Addr \cup {0}, op : Op, id : Nat, attempt : Nat,
         link : Nat, fut : Fut, late : BOOLEAN, answer : Nat]

CmdType == [id : Nat, op : Op, n : Nat]
AckType == [node : Addr, id : Nat, n : Nat]

CallType ==
    /\ call \in [Caller -> Call]
    /\ calls \in Nat /\ cmd_id_seq \in Nat
    /\ link \in Nat /\ lastLink \in Nat /\ addr \in Addr
    /\ down \in Seq(CmdType) /\ up \in Seq(AckType)

LEMMA InitCallType == Init => CallType
BY DEF Init, CallType, Call, Idle, Phase, Fut, Op, Addr

\* A command that reaches the node is answered with its own number.
LEMMA ExecuteType ==
    ASSUME CallType, NEW cmd \in CmdType, NEW listened, Execute(cmd, listened)
    PROVE  /\ addr' \in Addr /\ up' \in Seq(AckType)
           /\ up' = up \/ up' = Append(up, [node |-> addr', id |-> cmd.id, n |-> cmd.n])
<1>1. addr' \in Addr
    BY DEF Execute, CallType, Addr
<1>2. [node |-> addr', id |-> cmd.id, n |-> cmd.n] \in AckType
    BY <1>1 DEF CmdType, AckType
<1> QED BY <1>1, <1>2 DEF Execute, CallType

LEMMA HeadTail ==
    ASSUME NEW S, NEW s \in Seq(S), s # <<>>
    PROVE  Head(s) \in S /\ Tail(s) \in Seq(S)
OBVIOUS

LEMMA CmdTyped == ASSUME CallType, NEW c \in Caller PROVE Cmd(c) \in CmdType
BY DEF CallType, Call, Cmd, CmdType

LEMMA OverType ==
    ASSUME CallType, NEW c \in Caller, NEW fut \in Fut
    PROVE  /\ Over(c, fut) \in Call
           /\ Over(c, fut).phase = "done" /\ Over(c, fut).n = call[c].n
           /\ Over(c, fut).fut = fut /\ Over(c, fut).answer = call[c].answer
<1>1. Idle \in Call
    BY DEF Idle, Call, Phase, Fut, Op
<1>2. call[c] \in Call
    BY DEF CallType
<1> QED BY <1>1, <1>2 DEF Over, Call, Phase

\* What a retry makes of the call.
LEMMA RetriedType ==
    ASSUME NEW r \in Call
    PROVE  LET s == [r EXCEPT !.phase = "sending", !.attempt = @ + 1, !.fut = "pending", !.late = FALSE]
           IN  s \in Call /\ s.id = r.id /\ s.n = r.n /\ s.answer = r.answer
<1>1. r.attempt + 1 \in Nat
    BY DEF Call
<1> DEFINE a == [r EXCEPT !.phase = "sending"]
           b == [a EXCEPT !.attempt = r.attempt + 1]
           d == [b EXCEPT !.fut = "pending"]
           s == [d EXCEPT !.late = FALSE]
<1>2. a \in Call /\ a.id = r.id /\ a.n = r.n /\ a.answer = r.answer
    BY DEF Call, Phase
<1>3. b \in Call /\ b.id = r.id /\ b.n = r.n /\ b.answer = r.answer
  <2> HIDE DEF a
  <2> QED BY <1>1, <1>2 DEF Call
<1>4. d \in Call /\ d.id = r.id /\ d.n = r.n /\ d.answer = r.answer
  <2> HIDE DEF b
  <2> QED BY <1>3 DEF Call, Fut
<1>5. s \in Call /\ s.id = r.id /\ s.n = r.n /\ s.answer = r.answer
  <2> HIDE DEF d
  <2> QED BY <1>4 DEF Call
<1>6. s = [r EXCEPT !.phase = "sending", !.attempt = @ + 1, !.fut = "pending", !.late = FALSE]
    BY DEF Call
<1> QED BY <1>5, <1>6

LEMMA NextCallType == CallType /\ [Next]_vars => CallType'
<1> SUFFICES ASSUME CallType, [Next]_vars PROVE CallType'
    OBVIOUS
<1>1. ASSUME NEW c \in Caller, NEW to \in Addr, NEW op \in Op, Begin(c, to, op)
      PROVE  CallType'
  <2>1. Idle \in Call /\ NextId \in Nat /\ calls + 1 \in Nat /\ link \in Nat
      BY DEF Idle, Call, Phase, Fut, Op, NextId, CallType
  <2>2. [Idle EXCEPT !.phase = "sending", !.n = calls', !.to = to, !.op = op, !.id = NextId,
                     !.attempt = 1, !.link = link, !.fut = "pending"] \in Call
      BY <1>1, <2>1 DEF Begin, Call, Phase, Fut
  <2> QED BY <1>1, <2>1, <2>2 DEF Begin, CallType, links, wire
<1>2. ASSUME NEW c \in Caller, Write(c) \/ Deliver(c) PROVE CallType'
  <2>1. call' \in [Caller -> Call]
    <3>1. call' = [call EXCEPT ![c] = [call[c] EXCEPT !.phase = "waiting"]]
        BY <1>2 DEF Write, Deliver
    <3>2. [call[c] EXCEPT !.phase = "waiting"] \in Call
        BY DEF CallType, Call, Phase
    <3> QED BY <3>1, <3>2 DEF CallType
  <2>2. CASE Write(c)
      BY <2>1, <2>2, CmdTyped DEF Write, CallType, links
  <2>3. CASE Deliver(c)
    <3>1. addr' \in Addr /\ up' \in Seq(AckType)
        BY <2>3, CmdTyped, ExecuteType DEF Deliver, CallType
    <3> QED BY <2>1, <2>3, <3>1 DEF Deliver, CallType, links
  <2> QED BY <1>2, <2>2, <2>3
<1>3. ASSUME NEW c \in Caller, Timer(c) PROVE CallType'
  <2>1. \E fut \in Fut :
            call' = [call EXCEPT ![c] = [call[c] EXCEPT !.late = TRUE, !.fut = fut]]
    <3>1. (IF call[c].fut = "pending" THEN "cancelled" ELSE call[c].fut) \in Fut
        BY DEF CallType, Call, Fut
    <3> QED BY <1>3, <3>1 DEF Timer
  <2>2. \A fut \in Fut : [call[c] EXCEPT !.late = TRUE, !.fut = fut] \in Call
      BY DEF CallType, Call
  <2> QED BY <1>3, <2>1, <2>2 DEF Timer, CallType, links, wire
<1>4. ASSUME NEW c \in Caller, Retry(c) PROVE CallType'
  <2>1. call' = [call EXCEPT ![c] = [call[c] EXCEPT !.phase = "sending", !.attempt = @ + 1,
                                                    !.fut = "pending", !.late = FALSE]]
      BY <1>4 DEF Retry
  <2>2. [call[c] EXCEPT !.phase = "sending", !.attempt = @ + 1, !.fut = "pending", !.late = FALSE]
            \in Call
      BY RetriedType DEF CallType
  <2> QED BY <1>4, <2>1, <2>2 DEF Retry, CallType, links, wire
<1>5. ASSUME NEW c \in Caller, SendRaises(c) \/ Return(c) \/ GiveUp(c) PROVE CallType'
  <2>1. \E fut \in Fut : call' = [call EXCEPT ![c] = Over(c, fut)]
      BY <1>5 DEF SendRaises, Return, GiveUp, Fut
  <2>2. UNCHANGED <<calls, cmd_id_seq, links, wire, addr>>
      BY <1>5 DEF SendRaises, Return, GiveUp
  <2> QED BY <2>1, <2>2, OverType DEF CallType, links, wire
<1>6. CASE OnCmdAck
  <2>1. PICK answered \in SUBSET Caller :
            call' = [c \in Caller |->
                        IF c \in answered
                        THEN [call[c] EXCEPT !.fut = "set", !.answer = Head(up).n] ELSE call[c]]
    <3> DEFINE k == <<Head(up).node, Head(up).id>>
               awaited == {c \in Caller : /\ k \in DOMAIN pending /\ InProgress(c)
                                          /\ call[c].n = pending[k] /\ call[c].fut = "pending"}
    <3>1. awaited \in SUBSET Caller
        OBVIOUS
    <3> QED BY <1>6, <3>1 DEF OnCmdAck
  <2>2. Head(up) \in AckType /\ Tail(up) \in Seq(AckType)
      BY <1>6, HeadTail DEF OnCmdAck, CallType
  <2>3. ASSUME NEW c \in Caller
        PROVE  [call[c] EXCEPT !.fut = "set", !.answer = Head(up).n] \in Call /\ call[c] \in Call
      BY ZenonT(30), <2>2 DEF CallType, Call, AckType, Fut
  <2>4. call' \in [Caller -> Call]
      BY <2>1, <2>3
  <2> QED BY <1>6, <2>2, <2>4 DEF OnCmdAck, CallType
<1>7. CASE OnCmd
  <2>1. Head(down) \in CmdType /\ Tail(down) \in Seq(CmdType)
      BY <1>7, HeadTail DEF OnCmd, CallType
  <2> QED BY <1>7, <2>1, ExecuteType DEF OnCmd, CallType, links
<1>9. CASE Lose
  <2>1. /\ down # <<>> => Tail(down) \in Seq(CmdType)
        /\ up # <<>> => Tail(up) \in Seq(AckType)
      BY HeadTail DEF CallType
  <2> QED BY <1>9, <2>1 DEF Lose, CallType, links
<1>10. CASE OnOther \/ Detach \/ Attach \/ UNCHANGED vars
  <2>1. <<>> \in Seq(AckType)
      OBVIOUS
  <2>2. UNCHANGED <<call, calls, cmd_id_seq, addr, down>>
      BY <1>10 DEF OnOther, Detach, Attach, vars, wire
  <2>3. link' \in Nat /\ lastLink' \in Nat /\ up' \in Seq(AckType)
    <3>1. CASE OnOther \/ UNCHANGED vars
        BY <3>1 DEF OnOther, vars, links, wire, CallType
    <3>2. CASE Detach
        BY <2>1, <3>2 DEF Detach, CallType
    <3>3. CASE Attach
        BY <3>3 DEF Attach, wire, CallType
    <3> QED BY <1>10, <3>1, <3>2, <3>3
  <2> QED BY <2>2, <2>3 DEF CallType
<1>8. CASE GatewayRestart
    BY <1>8 DEF GatewayRestart, CallType, Call, Idle, Phase, Fut, Op, wire
<1> QED BY <1>1, <1>2, <1>3, <1>4, <1>5, <1>6, <1>7, <1>8, <1>9, <1>10
    DEF Next, Send, Resume, Op
-----------------------------------------------------------------------------
(* The answer is one's own.                                                *)

OwnCmd == {m \in CmdType : m.id = m.n}
OwnAck == {a \in AckType : a.id = a.n}
OwnCall == {r \in Call : /\ r.phase \in {"sending", "waiting"} => r.id = r.n
                         /\ r.answer # 0 => r.answer = r.n}

\* Until the gateway restarts the id of a command is the number of its call: in
\* the calls, on the wire and among the pending answers.
OwnInv ==
    /\ CallType
    /\ restarted \in BOOLEAN
    /\ ~restarted =>
          /\ cmd_id_seq = calls
          /\ call \in [Caller -> OwnCall]
          /\ down \in Seq(OwnCmd) /\ up \in Seq(OwnAck)
          /\ \A k \in DOMAIN pending : pending[k] = k[2]

LEMMA InitOwn == Init => OwnInv
<1> SUFFICES ASSUME Init PROVE OwnInv
    OBVIOUS
<1>1. CallType
    BY InitCallType
<1>2. Idle \in OwnCall
    BY DEF Idle, OwnCall, Call, Phase, Fut, Op
<1>3. cmd_id_seq = calls /\ call \in [Caller -> OwnCall] /\ restarted = FALSE
    BY <1>2 DEF Init
<1>4. down \in Seq(OwnCmd) /\ up \in Seq(OwnAck)
  <2>1. <<>> \in Seq(OwnCmd) /\ <<>> \in Seq(OwnAck)
      OBVIOUS
  <2> QED BY <2>1 DEF Init
<1>5. \A k \in DOMAIN pending : pending[k] = k[2]
    BY DEF Init
<1> QED BY <1>1, <1>3, <1>4, <1>5 DEF OwnInv

LEMMA NextOwn == OwnInv /\ [Next]_vars => OwnInv'
<1> SUFFICES ASSUME OwnInv, [Next]_vars PROVE OwnInv'
    OBVIOUS
<1>1. CallType /\ CallType'
    BY NextCallType DEF OwnInv
<1> DEFINE Rest == /\ cmd_id_seq = calls
                   /\ call \in [Caller -> OwnCall]
                   /\ down \in Seq(OwnCmd) /\ up \in Seq(OwnAck)
                   /\ \A k \in DOMAIN pending : pending[k] = k[2]
<1>2. SUFFICES ASSUME ~restarted, restarted' = FALSE, Rest PROVE Rest'
  <2>1. restarted' \in BOOLEAN /\ (restarted => restarted')
      BY DEF OwnInv, Next, Begin, Send, Write, Deliver, SendRaises, Timer, Resume, Return, Retry,
             GiveUp, OnCmd, OnCmdAck, OnOther, Detach, Attach, Lose, GatewayRestart, vars,
             history, Execute
  <2> QED BY <1>1, <2>1 DEF OwnInv
<1>3. ASSUME NEW c \in Caller, NEW to \in Addr, NEW op \in Op, Begin(c, to, op)
      PROVE  Rest'
  <2> DEFINE new == [Idle EXCEPT !.phase = "sending", !.n = calls', !.to = to, !.op = op,
                                 !.id = NextId, !.attempt = 1, !.link = link, !.fut = "pending"]
  <2>1. call' = [call EXCEPT ![c] = new] /\ cmd_id_seq' = NextId /\ calls' = NextId
      BY <1>2, <1>3 DEF Begin, NextId
  <2>2. new \in Call /\ new.id = new.n /\ new.answer = 0
    <3>1. Idle \in Call /\ calls' \in Nat /\ NextId \in Nat /\ link \in Nat
        BY <1>1, <2>1 DEF CallType, Idle, Call, Phase, Fut, Op
    <3>2. new \in Call
        BY <3>1 DEF Call, Phase, Fut
    <3>3. new.id = NextId /\ new.n = calls' /\ new.answer = 0
        BY DEF Idle
    <3> QED BY <2>1, <3>2, <3>3
  <2>3. call' \in [Caller -> OwnCall]
      BY <1>2, <2>1, <2>2 DEF OwnCall
  <2>4. \A k \in DOMAIN pending' : pending'[k] = k[2]
      BY <1>2, <1>3, <2>1 DEF Begin, Stored
  <2> QED BY <1>2, <1>3, <2>1, <2>3, <2>4 DEF Begin, wire
<1>4. ASSUME NEW c \in Caller, Write(c) \/ Deliver(c) PROVE Rest'
  <2>1. call[c] \in OwnCall /\ call[c].phase = "sending"
      BY <1>2, <1>4 DEF Write, Deliver
  <2>2. call' = [call EXCEPT ![c] = [call[c] EXCEPT !.phase = "waiting"]]
      BY <1>4 DEF Write, Deliver
  <2>3. [call[c] EXCEPT !.phase = "waiting"] \in OwnCall
      BY <2>1 DEF OwnCall, Call, Phase
  <2>4. call' \in [Caller -> OwnCall]
      BY <1>2, <2>2, <2>3
  <2>5. Cmd(c) \in OwnCmd
      BY <1>1, <2>1, CmdTyped DEF OwnCmd, OwnCall, Cmd
  <2>6. CASE Write(c)
      BY <1>2, <2>4, <2>5, <2>6 DEF Write
  <2>7. CASE Deliver(c)
    <3>1. up' \in Seq(OwnAck)
      <4>1. /\ addr' \in Addr
            /\ up' = up \/ up' = Append(up, [node |-> addr', id |-> Cmd(c).id, n |-> Cmd(c).n])
          BY <1>1, <2>5, <2>7, ExecuteType DEF OwnCmd, Deliver
      <4>2. [node |-> addr', id |-> Cmd(c).id, n |-> Cmd(c).n] \in OwnAck
          BY <2>5, <4>1 DEF OwnCmd, OwnAck, CmdType, AckType
      <4> QED BY <1>2, <4>1, <4>2
    <3> QED BY <1>2, <2>4, <2>7, <3>1 DEF Deliver
  <2> QED BY <1>4, <2>6, <2>7
<1>5. ASSUME NEW c \in Caller, Timer(c) PROVE Rest'
  <2>1. \E fut \in Fut : call' = [call EXCEPT ![c] = [call[c] EXCEPT !.late = TRUE, !.fut = fut]]
    <3>1. (IF call[c].fut = "pending" THEN "cancelled" ELSE call[c].fut) \in Fut
        BY <1>1 DEF CallType, Call, Fut
    <3> QED BY <1>5, <3>1 DEF Timer
  <2>2. \A fut \in Fut : [call[c] EXCEPT !.late = TRUE, !.fut = fut] \in OwnCall
      BY ZenonT(30), <1>2 DEF OwnCall, Call
  <2> QED BY <1>2, <1>5, <2>1, <2>2 DEF Timer, wire
<1>6. ASSUME NEW c \in Caller, Retry(c) PROVE Rest'
  <2>1. call' = [call EXCEPT ![c] = [call[c] EXCEPT !.phase = "sending", !.attempt = @ + 1,
                                                    !.fut = "pending", !.late = FALSE]]
      BY <1>6 DEF Retry
  <2>2. call[c] \in OwnCall /\ call[c].phase = "waiting"
      BY <1>2, <1>6 DEF Retry
  <2>3. [call[c] EXCEPT !.phase = "sending", !.attempt = @ + 1, !.fut = "pending", !.late = FALSE]
            \in OwnCall
      BY <2>2, RetriedType DEF OwnCall
  <2>4. \A k \in DOMAIN pending' : pending'[k] = k[2]
      BY <1>2, <1>6, <2>2 DEF Retry, Stored, Key, OwnCall
  <2> QED BY <1>2, <1>6, <2>1, <2>3, <2>4 DEF Retry, wire
<1>7. ASSUME NEW c \in Caller, SendRaises(c) \/ Return(c) \/ GiveUp(c) PROVE Rest'
  <2>1. PICK fut \in Fut : call' = [call EXCEPT ![c] = Over(c, fut)]
      BY <1>7 DEF SendRaises, Return, GiveUp, Fut
  <2>2. Over(c, fut) \in OwnCall
      BY <1>1, <1>2, OverType DEF OwnCall
  <2>3. pending' = pending \/ pending' = Popped(pending, Key(c))
      BY <1>7 DEF SendRaises, Return, GiveUp, Forget
  <2>4. \A k \in DOMAIN pending' : pending'[k] = k[2]
      BY <1>2, <2>3 DEF Popped, Restrict
  <2>5. UNCHANGED <<calls, cmd_id_seq, wire>>
      BY <1>7 DEF SendRaises, Return, GiveUp
  <2> QED BY <1>2, <2>1, <2>2, <2>4, <2>5 DEF wire
<1>8. CASE OnCmdAck
  <2> DEFINE ack == Head(up)
             k == <<ack.node, ack.id>>
             awaits(c) == /\ k \in DOMAIN pending
                          /\ InProgress(c)
                          /\ call[c].n = pending[k] /\ call[c].fut = "pending"
  <2>1. /\ call' = [c \in Caller |-> IF awaits(c) THEN [call[c] EXCEPT !.fut = "set", !.answer = ack.n]
                                     ELSE call[c]]
        /\ pending' = Popped(pending, k) /\ up # <<>> /\ up' = Tail(up)
        /\ UNCHANGED <<calls, cmd_id_seq, down>>
      BY <1>8 DEF OnCmdAck
  <2>2. ack \in OwnAck /\ Tail(up) \in Seq(OwnAck)
      BY <1>2, <2>1, HeadTail
  <2>3. ASSUME NEW c \in Caller, awaits(c)
        PROVE  [call[c] EXCEPT !.fut = "set", !.answer = ack.n] \in OwnCall
    <3>1. ack.n = call[c].n
        BY <1>2, <2>2, <2>3 DEF OwnAck
    <3> QED BY ZenonT(30), <1>2, <3>1 DEF OwnCall, Call, Fut
  <2>4. call' \in [Caller -> OwnCall]
    <3> HIDE DEF awaits
    <3> QED BY <1>2, <2>1, <2>3
  <2>5. \A j \in DOMAIN pending' : pending'[j] = j[2]
      BY <1>2, <2>1 DEF Popped, Restrict
  <2> QED BY <1>2, <2>1, <2>2, <2>4, <2>5
<1>9. CASE OnCmd
  <2>1. Head(down) \in OwnCmd /\ Tail(down) \in Seq(OwnCmd)
      BY <1>2, <1>9, HeadTail DEF OnCmd
  <2>2. /\ addr' \in Addr
        /\ up' = up \/ up' = Append(up, [node |-> addr', id |-> Head(down).id, n |-> Head(down).n])
      BY <1>1, <1>9, <2>1, ExecuteType DEF OnCmd, OwnCmd
  <2>3. [node |-> addr', id |-> Head(down).id, n |-> Head(down).n] \in OwnAck
      BY <2>1, <2>2 DEF OwnCmd, OwnAck, CmdType, AckType
  <2>4. up' \in Seq(OwnAck)
      BY SMTT(30), <1>2, <2>2, <2>3
  <2> QED BY <1>2, <1>9, <2>1, <2>4 DEF OnCmd
<1>10. CASE Lose
  <2>1. /\ down # <<>> => Tail(down) \in Seq(OwnCmd)
        /\ up # <<>> => Tail(up) \in Seq(OwnAck)
      BY <1>2, HeadTail
  <2> QED BY <1>2, <1>10, <2>1 DEF Lose
<1>11. CASE OnOther \/ Detach \/ Attach \/ UNCHANGED vars
  <2>1. <<>> \in Seq(OwnAck)
      OBVIOUS
  <2>2. UNCHANGED <<call, calls, cmd_id_seq, pending, down>>
      BY <1>11 DEF OnOther, Detach, Attach, vars, wire
  <2>3. up' \in Seq(OwnAck)
      BY <1>2, <1>11, <2>1 DEF OnOther, Detach, Attach, vars, wire
  <2> QED BY <1>2, <2>2, <2>3
<1>12. CASE GatewayRestart
    BY <1>2, <1>12 DEF GatewayRestart
<1> QED BY <1>3, <1>4, <1>5, <1>6, <1>7, <1>8, <1>9, <1>10, <1>11, <1>12
    DEF Next, Send, Resume, Op

\* A call returns the answer to its own command, and to no other, however many
\* callers, retries, late answers and changes of link there are, until the gateway
\* restarts and its command ids begin again.
THEOREM OwnAnswer == Spec => []AnswerIsOwn
<1>1. OwnInv => AnswerIsOwn
    BY DEF OwnInv, OwnCall, AnswerIsOwn
<1> QED BY <1>1, InitOwn, NextOwn, PTL DEF Spec
-----------------------------------------------------------------------------
(* Nothing is left pending.                                                *)

\* A call has a number no other call has, what is pending under the number of a call
\* in progress is its own, and it is not answered yet.
LeftInv ==
    /\ CallType
    /\ \A c \in Caller : call[c].phase # "idle" => call[c].n \in 1 .. calls
    /\ \A c, d \in Caller :
          call[c].phase # "idle" /\ call[d].phase # "idle" /\ call[c].n = call[d].n => c = d
    /\ \A k \in DOMAIN pending : pending[k] \in 1 .. calls
    /\ \A k \in DOMAIN pending, c \in Caller :
          InProgress(c) /\ pending[k] = call[c].n => k = Key(c) /\ call[c].fut # "set"
    /\ NothingLeftPending

LEMMA InitLeft == Init => LeftInv
<1> SUFFICES ASSUME Init PROVE LeftInv
    OBVIOUS
<1>1. CallType /\ DOMAIN pending = {} /\ \A c \in Caller : call[c].phase = "idle"
    BY InitCallType DEF Init, Idle
<1> QED BY <1>1 DEF LeftInv, NothingLeftPending

\* A step that changes one call, which was in progress and still is, under its
\* number and key, and adds or removes nothing pending but under that key.
LEMMA GoesOn ==
    ASSUME LeftInv, CallType', NEW c \in Caller, NEW r \in Call,
           InProgress(c), call' = [call EXCEPT ![c] = r],
           r.phase \in {"sending", "waiting"}, r.n = call[c].n, r.to = call[c].to,
           r.id = call[c].id, UNCHANGED calls,
           \/ UNCHANGED pending /\ (r.fut = "set" => call[c].fut = "set")
           \/ pending' = Stored(pending, Key(c), call[c].n) /\ r.fut # "set"
    PROVE  LeftInv'
<1>1. /\ call'[c] = r /\ \A d \in Caller \ {c} : call'[d] = call[d]
      /\ InProgress(c)' /\ Key(c)' = Key(c) /\ call[c].n \in 1 .. calls
      /\ \A d \in Caller \ {c} : InProgress(d)' = InProgress(d) /\ Key(d)' = Key(d)
    BY DEF LeftInv, CallType, Call, InProgress, Key
<1>2. \A k \in DOMAIN pending' :
          \/ k \in DOMAIN pending /\ pending'[k] = pending[k]
          \/ k = Key(c) /\ pending'[k] = call[c].n /\ r.fut # "set"
    BY DEF Stored
<1>3. /\ \A d \in Caller : call'[d].phase # "idle" => call'[d].n \in 1 .. calls'
      /\ \A d, e \in Caller :
            call'[d].phase # "idle" /\ call'[e].phase # "idle" /\ call'[d].n = call'[e].n => d = e
      /\ \A k \in DOMAIN pending' : pending'[k] \in 1 .. calls'
    BY <1>1, <1>2 DEF LeftInv, InProgress
<1>4. ASSUME NEW k \in DOMAIN pending', NEW d \in Caller, InProgress(d)', pending'[k] = call'[d].n
      PROVE  k = Key(d)' /\ call'[d].fut # "set"
  <2>1. CASE d = c
    <3>1. k \in DOMAIN pending /\ UNCHANGED pending => k = Key(c) /\ call[c].fut # "set"
        BY <1>1, <1>4, <2>1 DEF LeftInv
    <3>2. ~UNCHANGED pending => r.fut # "set"
        OBVIOUS
    <3>3. k = Key(c)
        BY <1>1, <1>2, <1>4, <2>1 DEF LeftInv
    <3>4. r.fut # "set"
        BY <1>4, <3>1, <3>2
    <3> QED BY <1>1, <2>1, <3>3, <3>4
  <2>2. CASE d # c
    <3>1. k \in DOMAIN pending /\ pending'[k] = pending[k]
        BY <1>1, <1>2, <1>4, <2>2 DEF LeftInv, InProgress
    <3> QED BY <1>1, <1>4, <2>2, <3>1 DEF LeftInv
  <2> QED BY <2>1, <2>2
<1>5. ASSUME NEW k \in DOMAIN pending', NEW d \in Caller, call'[d].phase = "done",
             pending'[k] = call'[d].n
      PROVE  call'[d].fut = "raised"
  <2>1. d # c
      BY <1>1, <1>5
  <2>2. k \in DOMAIN pending /\ pending'[k] = pending[k]
      BY <1>1, <1>2, <1>5, <2>1 DEF LeftInv, InProgress
  <2> QED BY <1>1, <1>5, <2>1, <2>2 DEF LeftInv, NothingLeftPending
<1> QED BY <1>3, <1>4, <1>5 DEF LeftInv, NothingLeftPending

\* A call that ends, without raising, with nothing pending under its number.
LEMMA Ends ==
    ASSUME LeftInv, CallType', NEW c \in Caller, NEW fut \in Fut,
           InProgress(c), call' = [call EXCEPT ![c] = Over(c, fut)], UNCHANGED calls,
           \/ UNCHANGED pending /\ (fut = "raised" \/ call[c].fut = "set")
           \/ pending' = Popped(pending, Key(c))
    PROVE  LeftInv'
<1>1. /\ call'[c] = Over(c, fut) /\ call'[c].n = call[c].n /\ call'[c].phase = "done"
      /\ call'[c].fut = fut
      /\ \A d \in Caller \ {c} : call'[d] = call[d]
      /\ \A d \in Caller \ {c} : InProgress(d)' = InProgress(d) /\ Key(d)' = Key(d)
      /\ ~InProgress(c)'
    BY OverType DEF LeftInv, CallType, InProgress, Key
<1>2. \A k \in DOMAIN pending' : k \in DOMAIN pending /\ pending'[k] = pending[k]
    BY DEF Popped, Restrict
<1>3. /\ \A d \in Caller : call'[d].phase # "idle" => call'[d].n \in 1 .. calls'
      /\ \A d, e \in Caller :
            call'[d].phase # "idle" /\ call'[e].phase # "idle" /\ call'[d].n = call'[e].n => d = e
      /\ \A k \in DOMAIN pending' : pending'[k] \in 1 .. calls'
    BY <1>1, <1>2 DEF LeftInv, InProgress
<1>4. ASSUME NEW k \in DOMAIN pending', NEW d \in Caller, InProgress(d)', pending'[k] = call'[d].n
      PROVE  k = Key(d)' /\ call'[d].fut # "set"
    BY <1>1, <1>2, <1>4 DEF LeftInv
<1>5. ASSUME NEW k \in DOMAIN pending', NEW d \in Caller, call'[d].phase = "done",
             pending'[k] = call'[d].n
      PROVE  call'[d].fut = "raised"
  <2>1. CASE d = c
    <3>1. k \in DOMAIN pending /\ pending[k] = call[c].n
        BY <1>1, <1>2, <1>5, <2>1
    <3>2. k = Key(c) /\ call[c].fut # "set"
        BY <3>1 DEF LeftInv
    <3>3. pending' # Popped(pending, Key(c))
        BY <1>5, <3>2 DEF Popped, Restrict
    <3> QED BY <1>1, <2>1, <3>2, <3>3
  <2>2. CASE d # c
      BY <1>1, <1>2, <1>5, <2>2 DEF LeftInv, NothingLeftPending
  <2> QED BY <2>1, <2>2
<1> QED BY <1>3, <1>4, <1>5 DEF LeftInv, NothingLeftPending

LEMMA NextLeft == LeftInv /\ [Next]_vars => LeftInv'
<1> SUFFICES ASSUME LeftInv, [Next]_vars PROVE LeftInv'
    OBVIOUS
<1>1. CallType /\ CallType'
    BY NextCallType DEF LeftInv
<1>2. ASSUME NEW c \in Caller, NEW to \in Addr, NEW op \in Op, Begin(c, to, op)
      PROVE  LeftInv'
  <2> DEFINE new == [Idle EXCEPT !.phase = "sending", !.n = calls', !.to = to, !.op = op,
                                 !.id = NextId, !.attempt = 1, !.link = link, !.fut = "pending"]
  <2>1. /\ call' = [call EXCEPT ![c] = new] /\ calls' = calls + 1 /\ calls \in Nat
        /\ pending' = Stored(pending, <<to, NextId>>, calls')
      BY <1>1, <1>2 DEF Begin, CallType
  <2>2. /\ new.phase = "sending" /\ new.n = calls' /\ new.to = to /\ new.id = NextId
        /\ new.fut = "pending"
      BY DEF Idle
  <2> HIDE DEF new
  <2>3. /\ call'[c] = new /\ \A d \in Caller \ {c} : call'[d] = call[d]
        /\ Key(c)' = <<to, NextId>>
        /\ \A d \in Caller \ {c} : InProgress(d)' = InProgress(d) /\ Key(d)' = Key(d)
      BY <1>1, <2>1, <2>2 DEF CallType, InProgress, Key
  <2>4. \A k \in DOMAIN pending' :
            \/ k \in DOMAIN pending /\ pending'[k] = pending[k]
            \/ k = <<to, NextId>> /\ pending'[k] = calls + 1
      BY <2>1 DEF Stored
  <2>5. \A d \in Caller \ {c} : call[d].phase # "idle" => call[d].n \in 1 .. calls
      BY DEF LeftInv
  <2>6. /\ \A d \in Caller : call'[d].phase # "idle" => call'[d].n \in 1 .. calls'
        /\ \A k \in DOMAIN pending' : pending'[k] \in 1 .. calls'
      BY <2>1, <2>2, <2>3, <2>4, <2>5 DEF LeftInv
  <2>7. ASSUME NEW d \in Caller, NEW e \in Caller, call'[d].phase # "idle",
               call'[e].phase # "idle", call'[d].n = call'[e].n
        PROVE  d = e
    <3>1. CASE d = c \/ e = c
        BY <2>1, <2>2, <2>3, <2>5, <2>7, <3>1
    <3>2. CASE d # c /\ e # c
        BY <2>3, <2>7, <3>2 DEF LeftInv
    <3> QED BY <3>1, <3>2
  <2>8. ASSUME NEW k \in DOMAIN pending', NEW d \in Caller, InProgress(d)',
               pending'[k] = call'[d].n
        PROVE  k = Key(d)' /\ call'[d].fut # "set"
    <3>1. CASE d = c
      <4>1. pending'[k] = calls + 1
          BY <2>1, <2>2, <2>3, <2>8, <3>1
      <4>2. k = <<to, NextId>>
          BY <2>1, <2>4, <4>1 DEF LeftInv
      <4> QED BY <2>2, <2>3, <3>1, <4>2
    <3>2. CASE d # c
      <4>1. InProgress(d) /\ call[d].n \in 1 .. calls /\ pending'[k] = call[d].n
          BY <2>3, <2>5, <2>8, <3>2 DEF InProgress
      <4>2. k \in DOMAIN pending /\ pending[k] = call[d].n
          BY <2>1, <2>4, <4>1
      <4> QED BY <2>3, <3>2, <4>1, <4>2 DEF LeftInv
    <3> QED BY <3>1, <3>2
  <2>9. ASSUME NEW k \in DOMAIN pending', NEW d \in Caller, call'[d].phase = "done",
               pending'[k] = call'[d].n
        PROVE  call'[d].fut = "raised"
    <3>1. d # c /\ call[d].phase = "done" /\ call[d].n \in 1 .. calls /\ pending'[k] = call[d].n
        BY <2>2, <2>3, <2>5, <2>9
    <3>2. k \in DOMAIN pending /\ pending[k] = call[d].n
        BY <2>1, <2>4, <3>1
    <3> QED BY <2>3, <3>1, <3>2 DEF LeftInv, NothingLeftPending
  <2> QED BY <1>1, <2>6, <2>7, <2>8, <2>9 DEF LeftInv, NothingLeftPending
<1>3. ASSUME NEW c \in Caller, Write(c) \/ Deliver(c) PROVE LeftInv'
  <2>1. /\ call' = [call EXCEPT ![c] = [call[c] EXCEPT !.phase = "waiting"]]
        /\ call[c].phase = "sending" /\ UNCHANGED <<calls, pending>>
      BY <1>3 DEF Write, Deliver
  <2> DEFINE r == [call[c] EXCEPT !.phase = "waiting"]
  <2>2. /\ r \in Call /\ r.phase = "waiting" /\ r.n = call[c].n /\ r.to = call[c].to
        /\ r.id = call[c].id /\ r.fut = call[c].fut
      BY <1>1 DEF CallType, Call, Phase
  <2> HIDE DEF r
  <2> QED BY <1>1, <2>1, <2>2, GoesOn DEF r, InProgress
<1>4. ASSUME NEW c \in Caller, Timer(c) PROVE LeftInv'
  <2>1. /\ call[c].phase = "waiting" /\ UNCHANGED <<calls, pending>>
        /\ \E fut \in Fut : /\ call' = [call EXCEPT ![c] = [call[c] EXCEPT !.late = TRUE, !.fut = fut]]
                            /\ fut = "set" => call[c].fut = "set"
    <3>1. (IF call[c].fut = "pending" THEN "cancelled" ELSE call[c].fut) \in Fut
        BY <1>1 DEF CallType, Call, Fut
    <3> QED BY <1>4, <3>1 DEF Timer
  <2>2. PICK fut \in Fut : /\ call' = [call EXCEPT ![c] = [call[c] EXCEPT !.late = TRUE, !.fut = fut]]
                           /\ fut = "set" => call[c].fut = "set"
      BY <2>1
  <2> DEFINE r == [call[c] EXCEPT !.late = TRUE, !.fut = fut]
  <2>3. /\ r \in Call /\ r.phase = call[c].phase /\ r.n = call[c].n /\ r.to = call[c].to
        /\ r.id = call[c].id /\ r.fut = fut
      BY <1>1 DEF CallType, Call
  <2> HIDE DEF r
  <2> QED BY <1>1, <2>1, <2>2, <2>3, GoesOn DEF r, InProgress
<1>5. ASSUME NEW c \in Caller, Retry(c) PROVE LeftInv'
  <2> DEFINE r == [call[c] EXCEPT !.phase = "sending", !.attempt = @ + 1, !.fut = "pending",
                                  !.late = FALSE]
  <2>1. /\ call' = [call EXCEPT ![c] = r] /\ call[c].phase = "waiting" /\ UNCHANGED calls
        /\ pending' = Stored(pending, Key(c), call[c].n)
      BY <1>5 DEF Retry
  <2>2. r \in Call /\ r.n = call[c].n /\ r.id = call[c].id
      BY <1>1, RetriedType DEF CallType
  <2>3. r.phase = "sending" /\ r.to = call[c].to /\ r.fut = "pending"
      BY <1>1 DEF CallType, Call
  <2> HIDE DEF r
  <2> QED BY <1>1, <2>1, <2>2, <2>3, GoesOn DEF InProgress
<1>6. ASSUME NEW c \in Caller, SendRaises(c) PROVE LeftInv'
    BY <1>1, <1>6, Ends DEF SendRaises, InProgress, Fut
<1>7. ASSUME NEW c \in Caller, Return(c) PROVE LeftInv'
    BY <1>1, <1>7, Ends DEF Return, Answered, InProgress, Fut
<1>8. ASSUME NEW c \in Caller, GiveUp(c) PROVE LeftInv'
    BY <1>1, <1>8, Ends DEF GiveUp, Forget, InProgress, Fut
<1>9. CASE OnCmdAck
  <2> DEFINE ack == Head(up)
             k == <<ack.node, ack.id>>
             awaits(c) == /\ k \in DOMAIN pending
                          /\ InProgress(c)
                          /\ call[c].n = pending[k] /\ call[c].fut = "pending"
  <2>1. /\ call' = [c \in Caller |-> IF awaits(c) THEN [call[c] EXCEPT !.fut = "set", !.answer = ack.n]
                                     ELSE call[c]]
        /\ pending' = Popped(pending, k) /\ UNCHANGED calls
      BY <1>9 DEF OnCmdAck
  <2> HIDE DEF k, ack
  <2>2. \A j \in DOMAIN pending' : j \in DOMAIN pending /\ j # k /\ pending'[j] = pending[j]
      BY <2>1 DEF Popped, Restrict
  <2>3. \A c \in Caller :
            /\ call'[c].phase = call[c].phase /\ call'[c].n = call[c].n
            /\ Key(c)' = Key(c) /\ InProgress(c)' = InProgress(c)
            /\ ~awaits(c) => call'[c] = call[c]
      BY ZenonT(30), <1>1, <2>1 DEF CallType, Call, Key, InProgress
  <2>4. ASSUME NEW j \in DOMAIN pending', NEW c \in Caller, InProgress(c)', pending'[j] = call'[c].n
        PROVE  j = Key(c)' /\ call'[c].fut # "set"
    <3>1. j = Key(c) /\ call[c].fut # "set"
        BY <2>2, <2>3, <2>4 DEF LeftInv
    <3>2. ~awaits(c)
      <4> SUFFICES ASSUME awaits(c) PROVE FALSE
          OBVIOUS
      <4>1. k = Key(c)
          BY DEF LeftInv
      <4> QED BY <2>2, <3>1, <4>1
    <3> QED BY <2>3, <3>1, <3>2
  <2>5. ASSUME NEW j \in DOMAIN pending', NEW c \in Caller, call'[c].phase = "done",
               pending'[j] = call'[c].n
        PROVE  call'[c].fut = "raised"
    <3>1. call[c].phase = "done" /\ ~awaits(c)
        BY <2>3, <2>5 DEF InProgress
    <3> QED BY <2>2, <2>3, <2>5, <3>1 DEF LeftInv, NothingLeftPending
  <2>6. /\ \A c \in Caller : call'[c].phase # "idle" => call'[c].n \in 1 .. calls'
        /\ \A c, d \in Caller :
              call'[c].phase # "idle" /\ call'[d].phase # "idle" /\ call'[c].n = call'[d].n => c = d
        /\ \A j \in DOMAIN pending' : pending'[j] \in 1 .. calls'
    <3> HIDE DEF awaits
    <3>1. \A c \in Caller : call'[c].phase # "idle" => call'[c].n \in 1 .. calls'
        BY <2>1, <2>3 DEF LeftInv
    <3>2. ASSUME NEW c \in Caller, NEW d \in Caller, call'[c].phase # "idle",
                 call'[d].phase # "idle", call'[c].n = call'[d].n
          PROVE  c = d
        BY <2>3, <3>2 DEF LeftInv
    <3>3. \A j \in DOMAIN pending' : pending'[j] \in 1 .. calls'
        BY <2>1, <2>2 DEF LeftInv
    <3> QED BY <3>1, <3>2, <3>3
  <2> QED BY <1>1, <2>4, <2>5, <2>6 DEF LeftInv, NothingLeftPending
<1>10. CASE OnCmd \/ OnOther \/ Detach \/ Attach \/ Lose \/ UNCHANGED vars
  <2>1. UNCHANGED <<call, calls, pending>>
      BY <1>10 DEF OnCmd, OnOther, Detach, Attach, Lose, vars
  <2> QED BY <1>1, <2>1 DEF LeftInv, NothingLeftPending, InProgress, Key
<1>11. CASE GatewayRestart
  <2>1. DOMAIN pending' = {} /\ \A c \in Caller : call'[c].phase = "idle"
      BY <1>11 DEF GatewayRestart, Idle
  <2> QED BY <1>1, <2>1 DEF LeftInv, NothingLeftPending, InProgress
<1> QED BY <1>2, <1>3, <1>4, <1>5, <1>6, <1>7, <1>8, <1>9, <1>10, <1>11
    DEF Next, Send, Resume, Op

\* A call that returned or timed out has left no pending entry behind, whatever came
\* between the arrival of its answer, its timer and its resumption; only one whose
\* send raised has.
THEOREM NothingPending == Spec => []NothingLeftPending
<1>1. LeftInv => NothingLeftPending
    BY DEF LeftInv
<1> QED BY <1>1, InitLeft, NextLeft, PTL DEF Spec
-----------------------------------------------------------------------------
(* Types and bounds.                                                       *)

\* A call in progress has a number, an id and a node, and its tries are counted; a
\* link can be attached again only while there are links left.
InRange(r) ==
    /\ r.attempt <= Tries
    /\ r.phase \in {"sending", "waiting"} => r.n \in CallNo /\ r.id \in CallNo /\ r.to \in Addr

TypeInv ==
    /\ CallType /\ TypeOK
    /\ cmd_id_seq <= calls /\ calls <= MaxCalls
    /\ link = 0 => lastLink < MaxLinks
    /\ \A c \in Caller : InRange(call[c])

LEMMA InitType == Init => TypeInv
<1> SUFFICES ASSUME Init PROVE TypeInv
    OBVIOUS
<1>1. /\ DOMAIN pending = {} /\ DOMAIN node_link = {1} /\ link = 1 /\ lastLink = 1
      /\ cmd_id_seq = 0 /\ calls = 0 /\ \A c \in Caller : call[c] = Idle
    BY DEF Init
<1>2. MaxLinks \in Nat /\ MaxLinks >= 1 /\ MaxCalls \in Nat /\ Tries \in Nat
    BY SizesAssumption
<1> QED BY <1>1, <1>2, InitCallType DEF Init, TypeInv, TypeOK, InRange, Idle, Addr

\* A step that changes calls within their range, and nothing else of note.
LEMMA CallStepType ==
    ASSUME TypeInv, CallType', NEW c \in Caller, NEW r \in Call, InRange(r),
           call' = [call EXCEPT ![c] = r],
           UNCHANGED <<kind, cmd_id_seq, calls, links, seen>>,
           \A k \in DOMAIN pending' : k \in Addr \X CallNo /\ pending'[k] \in CallNo
    PROVE  TypeInv'
<1>1. \A d \in Caller : call'[d] \in Call /\ InRange(call'[d])
    BY DEF TypeInv, CallType
<1>2. \A d \in Caller : /\ call'[d].phase \in Phase /\ call'[d].attempt \in 0 .. Tries
                        /\ call'[d].fut \in Fut
    BY <1>1, SizesAssumption DEF Call, InRange
<1>3. addr' \in Addr
    BY DEF CallType
<1> QED BY <1>1, <1>2, <1>3 DEF TypeInv, TypeOK, links, Phase, Fut

LEMMA NextType == TypeInv /\ [Next]_vars => TypeInv'
<1> SUFFICES ASSUME TypeInv, [Next]_vars PROVE TypeInv'
    OBVIOUS
<1>1. /\ CallType /\ CallType' /\ Tries \in Nat \ {0} /\ MaxCalls \in Nat /\ MaxLinks \in Nat \ {0}
      /\ \A k \in DOMAIN pending : k \in Addr \X CallNo /\ pending[k] \in CallNo
    BY NextCallType, SizesAssumption DEF TypeInv, TypeOK
<1>2. ASSUME NEW c \in Caller PROVE call[c] \in Call /\ InRange(call[c])
    BY <1>1 DEF TypeInv, CallType
<1>3. ASSUME NEW c \in Caller, NEW to \in Addr, NEW op \in Op, Begin(c, to, op)
      PROVE  TypeInv'
  <2> DEFINE new == [Idle EXCEPT !.phase = "sending", !.n = calls', !.to = to, !.op = op,
                                 !.id = NextId, !.attempt = 1, !.link = link, !.fut = "pending"]
  <2>1. /\ call' = [call EXCEPT ![c] = new] /\ calls' = calls + 1 /\ cmd_id_seq' = NextId
        /\ pending' = Stored(pending, <<to, NextId>>, calls') /\ calls < MaxCalls
        /\ UNCHANGED <<kind, links, seen>>
      BY <1>3 DEF Begin, history
  <2>2. /\ new.phase = "sending" /\ new.n = calls' /\ new.to = to /\ new.id = NextId
        /\ new.fut = "pending" /\ new.attempt = 1
      BY DEF Idle
  <2>3. calls' \in CallNo /\ NextId \in CallNo /\ NextId <= calls' /\ calls' <= MaxCalls
      BY SMTT(30), <1>1, <2>1 DEF TypeInv, CallType, NextId, CallNo
  <2>4. InRange(new)
    <3> HIDE DEF new
    <3> QED BY <1>1, <2>2, <2>3 DEF InRange
  <2>5. \A d \in Caller : InRange(call'[d]) /\ call'[d] \in Call
    <3> HIDE DEF new
    <3>1. \A d \in Caller : call'[d] \in Call
        BY <1>1 DEF CallType
    <3> QED BY <1>1, <1>2, <2>1, <2>4, <3>1 DEF CallType
  <2>6. \A k \in DOMAIN pending' : k \in Addr \X CallNo /\ pending'[k] \in CallNo
    <3> HIDE DEF NextId
    <3> QED BY <1>1, <2>1, <2>3 DEF Stored
  <2>7. \A d \in Caller : /\ call'[d].phase \in Phase /\ call'[d].attempt \in 0 .. Tries
                          /\ call'[d].fut \in Fut
      BY <1>1, <2>5 DEF Call, InRange
  <2>8. cmd_id_seq' \in 0 .. MaxCalls /\ addr' \in Addr
      BY <1>1, <2>1, <2>3 DEF CallNo, CallType
  <2> QED BY <1>1, <2>1, <2>3, <2>5, <2>6, <2>7, <2>8 DEF TypeInv, TypeOK, links, Phase, Fut
<1>4. ASSUME NEW c \in Caller, Write(c) \/ Deliver(c) PROVE TypeInv'
  <2> DEFINE r == [call[c] EXCEPT !.phase = "waiting"]
  <2>1. /\ call' = [call EXCEPT ![c] = r] /\ call[c].phase = "sending"
        /\ UNCHANGED <<kind, cmd_id_seq, calls, links, seen, pending>>
      BY <1>4 DEF Write, Deliver, history
  <2>2. r \in Call /\ InRange(r)
      BY <1>2, <2>1 DEF Call, Phase, InRange
  <2> HIDE DEF r
  <2> QED BY <1>1, <2>1, <2>2, CallStepType
<1>5. ASSUME NEW c \in Caller, Timer(c) PROVE TypeInv'
  <2>1. /\ UNCHANGED <<kind, cmd_id_seq, calls, links, seen, pending>>
        /\ \E fut \in Fut : call' = [call EXCEPT ![c] = [call[c] EXCEPT !.late = TRUE, !.fut = fut]]
    <3>1. (IF call[c].fut = "pending" THEN "cancelled" ELSE call[c].fut) \in Fut
        BY <1>2 DEF Call, Fut
    <3> QED BY <1>5, <3>1 DEF Timer, history
  <2>2. PICK fut \in Fut : call' = [call EXCEPT ![c] = [call[c] EXCEPT !.late = TRUE, !.fut = fut]]
      BY <2>1
  <2> DEFINE r == [call[c] EXCEPT !.late = TRUE, !.fut = fut]
  <2>3. r \in Call /\ InRange(r)
      BY <1>2 DEF Call, InRange
  <2> HIDE DEF r
  <2> QED BY <1>1, <2>1, <2>2, <2>3, CallStepType DEF r
<1>6. ASSUME NEW c \in Caller, Retry(c) PROVE TypeInv'
  <2> DEFINE r == [call[c] EXCEPT !.phase = "sending", !.attempt = @ + 1, !.fut = "pending",
                                  !.late = FALSE]
  <2>1. /\ call' = [call EXCEPT ![c] = r] /\ call[c].phase = "waiting" /\ call[c].attempt < Tries
        /\ pending' = Stored(pending, Key(c), call[c].n)
        /\ UNCHANGED <<kind, cmd_id_seq, calls, links, seen>>
      BY <1>6 DEF Retry, MayRetry, history
  <2>2. r \in Call /\ r.n = call[c].n /\ r.id = call[c].id
      BY <1>2, RetriedType
  <2>3. r.to = call[c].to /\ r.attempt = call[c].attempt + 1
      BY <1>2 DEF Call
  <2>4. InRange(r)
    <3> HIDE DEF r
    <3> QED BY <1>1, <1>2, <2>1, <2>2, <2>3 DEF InRange, Call
  <2>5. Key(c) \in Addr \X CallNo /\ call[c].n \in CallNo
      BY <1>2, <2>1 DEF InRange, Key
  <2>6. \A k \in DOMAIN pending' : k \in Addr \X CallNo /\ pending'[k] \in CallNo
    <3> HIDE DEF r, Key
    <3> QED BY <1>1, <2>1, <2>5 DEF Stored
  <2> HIDE DEF r
  <2> QED BY <1>1, <2>1, <2>2, <2>4, <2>6, CallStepType
<1>7. ASSUME NEW c \in Caller, SendRaises(c) \/ Return(c) \/ GiveUp(c) PROVE TypeInv'
  <2>1. PICK fut \in Fut : call' = [call EXCEPT ![c] = Over(c, fut)]
      BY <1>7 DEF SendRaises, Return, GiveUp, Fut
  <2>2. pending' = pending \/ pending' = Popped(pending, Key(c))
      BY <1>7 DEF SendRaises, Return, GiveUp, Forget
  <2>3. \A k \in DOMAIN pending' : k \in Addr \X CallNo /\ pending'[k] \in CallNo
      BY <1>1, <2>2 DEF Popped, Restrict
  <2>4. Over(c, fut) \in Call /\ InRange(Over(c, fut))
    <3>1. Over(c, fut) \in Call /\ Over(c, fut).phase = "done"
        BY <1>1, OverType
    <3>2. Over(c, fut).attempt = call[c].attempt
        BY DEF Over, Idle
    <3> QED BY <1>2, <3>1, <3>2 DEF InRange
  <2>5. UNCHANGED <<kind, cmd_id_seq, calls, links, seen>>
      BY <1>7 DEF SendRaises, Return, GiveUp, history
  <2> QED BY <1>1, <2>1, <2>3, <2>4, <2>5, CallStepType
<1>8. CASE OnCmdAck
  <2> DEFINE ack == Head(up)
             k == <<ack.node, ack.id>>
             awaits(c) == /\ k \in DOMAIN pending
                          /\ InProgress(c)
                          /\ call[c].n = pending[k] /\ call[c].fut = "pending"
  <2>1. /\ call' = [c \in Caller |-> IF awaits(c) THEN [call[c] EXCEPT !.fut = "set", !.answer = ack.n]
                                     ELSE call[c]]
        /\ pending' = Popped(pending, k) /\ node_link' = Stored(node_link, ack.node, link)
        /\ UNCHANGED <<kind, cmd_id_seq, calls, link, lastLink>> /\ up # <<>>
      BY <1>8 DEF OnCmdAck
  <2>2. \/ UNCHANGED seen
        \/ seen' = seen \cup {ack.n} /\ \E c \in Caller : InProgress(c) /\ call[c].n = ack.n
      BY <1>8 DEF OnCmdAck
  <2>3. seen' \subseteq CallNo
      BY <1>2, <2>2 DEF TypeInv, TypeOK, InProgress, InRange
  <2>4. ack.node \in Addr
    <3>1. Head(up) \in AckType
        BY <1>1, <2>1, HeadTail DEF CallType
    <3> QED BY <3>1 DEF AckType
  <2>5. DOMAIN node_link' \subseteq Addr
      BY <2>1, <2>4 DEF Stored, TypeInv, TypeOK
  <2>6. \A j \in DOMAIN pending' : j \in Addr \X CallNo /\ pending'[j] \in CallNo
      BY <1>1, <2>1 DEF Popped, Restrict
  <2>7. ASSUME NEW c \in Caller
        PROVE  call'[c] \in Call /\ InRange(call'[c])
    <3>1. call'[c] \in Call
        BY <1>1 DEF CallType
    <3>2. /\ call'[c].phase = call[c].phase /\ call'[c].n = call[c].n /\ call'[c].id = call[c].id
          /\ call'[c].to = call[c].to /\ call'[c].attempt = call[c].attempt
        BY <1>2, <2>1 DEF Call
    <3> QED BY <1>2, <3>1, <3>2 DEF InRange
  <2>8. \A d \in Caller : /\ call'[d].phase \in Phase /\ call'[d].attempt \in 0 .. Tries
                          /\ call'[d].fut \in Fut
      BY <1>1, <2>7 DEF Call, InRange
  <2>9. addr' \in Addr
      BY <1>1 DEF CallType
  <2> HIDE DEF ack, k, awaits
  <2> QED BY <1>1, <2>1, <2>3, <2>5, <2>6, <2>7, <2>8, <2>9 DEF TypeInv, TypeOK, Phase, Fut
<1>9. CASE OnOther
  <2>1. /\ node_link' = Stored(node_link, addr, link)
        /\ UNCHANGED <<kind, cmd_id_seq, pending, link, lastLink, call, addr, calls, seen>>
      BY <1>9 DEF OnOther, history
  <2>2. DOMAIN node_link' \subseteq Addr
      BY <1>1, <2>1 DEF Stored, TypeInv, TypeOK
  <2> QED BY <1>1, <2>1, <2>2 DEF TypeInv, TypeOK, InRange
<1>10. CASE Detach \/ Attach
  <2>1. /\ UNCHANGED <<kind, cmd_id_seq, pending, node_link, call, addr, calls, seen>>
        /\ link' \in 0 .. MaxLinks /\ lastLink' \in 1 .. MaxLinks
        /\ link' = 0 => lastLink' < MaxLinks
    <3>1. link \in 0 .. MaxLinks /\ lastLink \in 1 .. MaxLinks /\ (link = 0 => lastLink < MaxLinks)
        BY DEF TypeInv, TypeOK
    <3> QED BY <1>1, <1>10, <3>1 DEF Detach, Attach, history
  <2> QED BY <1>1, <2>1 DEF TypeInv, TypeOK, InRange
<1>11. CASE OnCmd \/ Lose \/ UNCHANGED vars
  <2>1. UNCHANGED <<kind, cmd_id_seq, pending, links, call, calls, seen>>
      BY <1>11 DEF OnCmd, Lose, vars, history
  <2>2. addr' \in Addr
      BY <1>1 DEF CallType
  <2> QED BY <1>1, <2>1, <2>2 DEF TypeInv, TypeOK, InRange, links
<1>12. CASE GatewayRestart
  <2>1. /\ UNCHANGED <<kind, addr, calls, seen>> /\ cmd_id_seq' = 0
        /\ DOMAIN pending' = {} /\ DOMAIN node_link' = {} /\ link' = 1 /\ lastLink' = 1
        /\ \A c \in Caller : call'[c] = Idle
      BY <1>12 DEF GatewayRestart
  <2>2. \A c \in Caller : /\ call'[c].phase = "idle" /\ call'[c].attempt = 0
                          /\ call'[c].fut = "none"
      BY <2>1 DEF Idle
  <2>3. calls \in Nat
      BY <1>1 DEF CallType
  <2> QED BY <1>1, <2>1, <2>2, <2>3 DEF TypeInv, TypeOK, InRange
<1> QED BY <1>3, <1>4, <1>5, <1>6, <1>7, <1>8, <1>9, <1>10, <1>11, <1>12
    DEF Next, Send, Resume, Op

\* Every variable keeps its type; in it, no call is tried more often than allowed,
\* and every entry that is pending is a call's.
THEOREM TypeCorrect == Spec => []TypeOK
<1>1. TypeInv => TypeOK
    BY DEF TypeInv
<1> QED BY <1>1, InitType, NextType, PTL DEF Spec
-----------------------------------------------------------------------------
(* A command is executed as often as it was sent, at most.                 *)

\* The places on the wire that hold a command of call n.
Copies(s, n) == {i \in DOMAIN s : s[i].n = n}
OnWire(s, n) == Cardinality(Copies(s, n))

LEMMA CopiesFinite ==
    ASSUME NEW s \in Seq(CmdType), NEW n
    PROVE  IsFiniteSet(Copies(s, n)) /\ Cardinality(Copies(s, n)) \in Nat
<1>1. Copies(s, n) \subseteq 1 .. Len(s) /\ Len(s) \in Nat
    BY DEF Copies
<1>2. IsFiniteSet(Copies(s, n))
    BY <1>1, FS_Interval, FS_Subset, 1 \in Int, Len(s) \in Int
<1> QED BY <1>2, FS_CardinalityType

\* A command put on the wire is one copy more of its call, and of no other.
LEMMA CopiesAppend ==
    ASSUME NEW s \in Seq(CmdType), NEW m \in CmdType, NEW n
    PROVE  Cardinality(Copies(Append(s, m), n)) =
              Cardinality(Copies(s, n)) + (IF m.n = n THEN 1 ELSE 0)
<1>1. /\ DOMAIN Append(s, m) = 1 .. Len(s) + 1 /\ DOMAIN s = 1 .. Len(s) /\ Len(s) \in Nat
      /\ Append(s, m)[Len(s) + 1] = m /\ \A i \in 1 .. Len(s) : Append(s, m)[i] = s[i]
    OBVIOUS
<1>2. IsFiniteSet(Copies(s, n)) /\ Cardinality(Copies(s, n)) \in Nat
    BY CopiesFinite
<1>3. CASE m.n = n
  <2>1. Copies(Append(s, m), n) = Copies(s, n) \cup {Len(s) + 1} /\ Len(s) + 1 \notin Copies(s, n)
      BY <1>1, <1>3 DEF Copies
  <2> QED BY ZenonT(30), <1>2, <1>3, <2>1, FS_AddElement
<1>4. CASE m.n # n
  <2>1. Copies(Append(s, m), n) = Copies(s, n)
      BY <1>1, <1>4 DEF Copies
  <2> QED BY <1>2, <1>4, <2>1
<1> QED BY <1>3, <1>4

\* The command taken off the wire is one copy less.
LEMMA CopiesTail ==
    ASSUME NEW s \in Seq(CmdType), s # <<>>, NEW n
    PROVE  Cardinality(Copies(s, n)) =
              Cardinality(Copies(Tail(s), n)) + (IF Head(s).n = n THEN 1 ELSE 0)
<1> DEFINE rest == Copies(s, n) \ {1}
           f == [i \in Copies(Tail(s), n) |-> i + 1]
<1>1. /\ DOMAIN s = 1 .. Len(s) /\ Len(s) \in Nat /\ Len(s) >= 1 /\ Head(s) = s[1]
      /\ DOMAIN Tail(s) = 1 .. Len(s) - 1 /\ \A i \in 1 .. Len(s) - 1 : Tail(s)[i] = s[i + 1]
    OBVIOUS
<1>2. /\ IsFiniteSet(Copies(s, n)) /\ Cardinality(Copies(s, n)) \in Nat
      /\ IsFiniteSet(Copies(Tail(s), n)) /\ Cardinality(Copies(Tail(s), n)) \in Nat
  <2>1. Tail(s) \in Seq(CmdType)
      OBVIOUS
  <2> QED BY <2>1, CopiesFinite
<1>3. Cardinality(rest) = Cardinality(Copies(Tail(s), n))
  <2>1. \A i \in Copies(Tail(s), n) : i \in Int /\ i + 1 \in rest
      BY <1>1 DEF Copies
  <2>2. f \in Injection(Copies(Tail(s), n), rest)
      BY <2>1 DEF Injection, IsInjective
  <2>3. ASSUME NEW j \in rest PROVE \E i \in Copies(Tail(s), n) : f[i] = j
    <3>1. j - 1 \in Copies(Tail(s), n) /\ f[j - 1] = j
        BY <1>1 DEF Copies
    <3> QED BY <3>1
  <2>4. f \in Surjection(Copies(Tail(s), n), rest)
      BY <2>2, <2>3 DEF Surjection, Injection
  <2>5. ExistsBijection(Copies(Tail(s), n), rest)
      BY <2>2, <2>4 DEF ExistsBijection, Bijection
  <2> QED BY <1>2, <2>5, FS_Bijection
<1>4. CASE Head(s).n = n
  <2>1. 1 \in Copies(s, n)
      BY <1>1, <1>4 DEF Copies
  <2>2. Cardinality(rest) = Cardinality(Copies(s, n)) - 1
      BY <1>2, <2>1, FS_RemoveElement
  <2> HIDE DEF rest
  <2> QED BY <1>2, <1>3, <1>4, <2>2
<1>5. CASE Head(s).n # n
  <2>1. rest = Copies(s, n)
      BY <1>1, <1>5 DEF Copies
  <2> HIDE DEF rest
  <2> QED BY <1>2, <1>3, <1>5, <2>1
<1> QED BY <1>4, <1>5

\* How often the command of a call has been sent.
Sent(r) == r.attempt - (IF r.phase = "sending" THEN 1 ELSE 0)

\* Each sending of a command is one execution, or one copy on the wire, or lost; a
\* number not given yet was neither sent nor executed; an answer tells of an execution.
ExecInv ==
    /\ execs \in [CallNo -> Nat]
    /\ \A i \in DOMAIN down : down[i].n \in CallNo /\ down[i].n <= calls
    /\ \A n \in CallNo : n > calls => execs[n] = 0
    /\ \A c \in Caller : call[c].phase # "idle" =>
                            execs[call[c].n] + OnWire(down, call[c].n) <= Sent(call[c])
    /\ \A i \in DOMAIN up : up[i].n \in CallNo /\ execs[up[i].n] >= 1
    /\ \A c \in Caller : call[c].answer # 0 => /\ call[c].answer \in CallNo
                                               /\ execs[call[c].answer] >= 1

\* The type and the numbering of calls, which the proofs above established.
Numbered ==
    /\ CallType /\ calls <= MaxCalls
    /\ \A c \in Caller : call[c].phase # "idle" => call[c].n \in CallNo /\ call[c].n <= calls
    /\ \A c, d \in Caller :
          call[c].phase # "idle" /\ call[d].phase # "idle" /\ call[c].n = call[d].n => c = d

LEMMA IsNumbered == TypeInv /\ LeftInv => Numbered
<1> SUFFICES ASSUME TypeInv, LeftInv PROVE Numbered
    OBVIOUS
<1>1. MaxCalls \in Nat /\ calls \in Nat /\ calls <= MaxCalls
    BY SizesAssumption DEF TypeInv, CallType
<1>2. \A n \in 1 .. calls : n \in CallNo /\ n <= calls
    BY <1>1 DEF CallNo
<1> QED BY <1>1, <1>2 DEF Numbered, LeftInv, TypeInv

LEMMA SentIsInt == ASSUME NEW r \in Call PROVE Sent(r) \in Int /\ Sent(r) <= r.attempt
BY DEF Sent, Call

\* What is to show of an action that begins no call: executions and copies grow by no
\* more than the sendings of the call they belong to.
LEMMA KeepsExec ==
    ASSUME ExecInv, Numbered, call' \in [Caller -> Call], UNCHANGED calls,
           down' \in Seq(CmdType), execs' \in [CallNo -> Nat],
           \A n \in CallNo : execs'[n] >= execs[n] /\ (execs'[n] = execs[n] \/ n <= calls),
           \A i \in DOMAIN down' : down'[i].n \in CallNo /\ down'[i].n <= calls,
           \A i \in DOMAIN up' : \/ \E j \in DOMAIN up : up'[i].n = up[j].n
                                 \/ up'[i].n \in CallNo /\ execs'[up'[i].n] >= 1,
           \A d \in Caller : call'[d].phase # "idle" =>
               /\ call[d].phase # "idle" /\ call'[d].n = call[d].n
               /\ execs'[call[d].n] + OnWire(down', call[d].n) + Sent(call[d])
                     <= execs[call[d].n] + OnWire(down, call[d].n) + Sent(call'[d]),
           \A d \in Caller : call'[d].answer # 0 =>
               call'[d].answer = call[d].answer \/ \E j \in DOMAIN up : call'[d].answer = up[j].n
    PROVE  ExecInv'
<1>1. \A n \in CallNo : execs[n] \in Nat /\ execs'[n] \in Nat /\ n \in Int
    BY DEF ExecInv, CallNo
<1>2. \A n : OnWire(down, n) \in Nat /\ OnWire(down', n) \in Nat
    BY CopiesFinite DEF OnWire, Numbered, CallType
<1>3. \A d \in Caller : Sent(call[d]) \in Int /\ Sent(call'[d]) \in Int
    BY SentIsInt DEF Numbered, CallType
<1>4. ASSUME NEW d \in Caller, call'[d].phase # "idle"
      PROVE  execs'[call'[d].n] + OnWire(down', call'[d].n) <= Sent(call'[d])
  <2>1. /\ call[d].phase # "idle" /\ call'[d].n = call[d].n /\ call[d].n \in CallNo
        /\ execs'[call[d].n] + OnWire(down', call[d].n) + Sent(call[d])
              <= execs[call[d].n] + OnWire(down, call[d].n) + Sent(call'[d])
      BY <1>4 DEF Numbered
  <2>2. execs[call[d].n] + OnWire(down, call[d].n) <= Sent(call[d])
      BY <2>1 DEF ExecInv
  <2> QED BY SMTT(30), <1>1, <1>2, <1>3, <2>1, <2>2
<1>5. \A n \in CallNo : n > calls => execs'[n] = 0
  <2>1. calls \in Nat
      BY DEF Numbered, CallType
  <2> QED BY <1>1, <2>1 DEF ExecInv
<1>6. \A i \in DOMAIN up : up[i].n \in CallNo /\ execs'[up[i].n] >= 1
    BY <1>1 DEF ExecInv
<1>7. \A i \in DOMAIN up' : up'[i].n \in CallNo /\ execs'[up'[i].n] >= 1
    BY <1>6
<1>8. ASSUME NEW d \in Caller, call'[d].answer # 0
      PROVE  call'[d].answer \in CallNo /\ execs'[call'[d].answer] >= 1
  <2>1. CASE call'[d].answer = call[d].answer
      BY <1>1, <1>8, <2>1 DEF ExecInv
  <2> QED BY <1>6, <1>8, <2>1
<1> QED BY <1>4, <1>5, <1>7, <1>8 DEF ExecInv

LEMMA InitExec == Init => ExecInv
<1> SUFFICES ASSUME Init PROVE ExecInv
    OBVIOUS
<1>1. /\ execs = [n \in CallNo |-> 0] /\ DOMAIN down = {} /\ DOMAIN up = {}
      /\ \A c \in Caller : call[c].phase = "idle" /\ call[c].answer = 0
    BY DEF Init, Idle
<1> QED BY <1>1 DEF ExecInv

LEMMA TailOf ==
    ASSUME NEW S, NEW s \in Seq(S), s # <<>>
    PROVE  \A i \in DOMAIN Tail(s) : \E j \in DOMAIN s : Tail(s)[i] = s[j]
<1>1. \A i \in DOMAIN Tail(s) : i + 1 \in DOMAIN s /\ Tail(s)[i] = s[i + 1]
    OBVIOUS
<1> QED BY <1>1

\* A step that leaves the wire and the node alone and changes one call.
LEMMA CallStepExec ==
    ASSUME ExecInv, Numbered, NEW c \in Caller, NEW r \in Call,
           call' = [call EXCEPT ![c] = r], UNCHANGED <<calls, wire, execs>>,
           call[c].phase # "idle", r.n = call[c].n, r.answer = call[c].answer,
           Sent(r) >= Sent(call[c])
    PROVE  ExecInv'
<1>1. call' \in [Caller -> Call] /\ down' = down /\ up' = up /\ execs' = execs
    BY DEF Numbered, CallType, wire
<1>2. \A d \in Caller : d # c => call'[d] = call[d]
    BY DEF Numbered, CallType
<1>3. call'[c] = r
    BY DEF Numbered, CallType
<1>4. down \in Seq(CmdType) /\ \A n \in CallNo : execs[n] \in Nat
    BY DEF Numbered, CallType, ExecInv
<1>5. \A n : OnWire(down, n) \in Nat
    BY <1>4, CopiesFinite DEF OnWire
<1>6. ASSUME NEW d \in Caller, call'[d].phase # "idle"
      PROVE  /\ call[d].phase # "idle" /\ call'[d].n = call[d].n
             /\ execs'[call[d].n] + OnWire(down', call[d].n) + Sent(call[d])
                   <= execs[call[d].n] + OnWire(down, call[d].n) + Sent(call'[d])
  <2>1. /\ call[d].phase # "idle" /\ call'[d].n = call[d].n
        /\ Sent(call'[d]) >= Sent(call[d])
    <3>1. CASE d = c
        BY <1>3, <3>1
    <3>2. CASE d # c
      <4>1. Sent(call[d]) \in Int
          BY SentIsInt DEF Numbered, CallType
      <4> QED BY <1>2, <1>6, <3>2, <4>1
    <3> QED BY <3>1, <3>2
  <2>2. execs[call[d].n] \in Nat /\ OnWire(down, call[d].n) \in Nat
      BY <1>4, <1>5, <2>1 DEF Numbered
  <2>3. Sent(call[d]) \in Int /\ Sent(call'[d]) \in Int
      BY <1>1, SentIsInt DEF Numbered, CallType
  <2> QED BY <1>1, <2>1, <2>2, <2>3
<1>7. \A d \in Caller : call'[d].answer = call[d].answer
    BY <1>2, <1>3
<1>8. /\ execs' \in [CallNo -> Nat] /\ down' \in Seq(CmdType)
      /\ \A n \in CallNo : execs'[n] >= execs[n]
      /\ \A i \in DOMAIN down' : down'[i].n \in CallNo /\ down'[i].n <= calls
    BY <1>1, <1>4 DEF ExecInv
<1> QED BY <1>1, <1>6, <1>7, <1>8, KeepsExec

LEMMA NextExec == TypeInv /\ LeftInv /\ ExecInv /\ [Next]_vars => ExecInv'
<1> SUFFICES ASSUME TypeInv, LeftInv, ExecInv, [Next]_vars PROVE ExecInv'
    OBVIOUS
<1>1. Numbered /\ CallType /\ CallType'
    BY IsNumbered, NextCallType DEF TypeInv
<1>2. /\ down \in Seq(CmdType) /\ down' \in Seq(CmdType)
      /\ up \in Seq(AckType) /\ call \in [Caller -> Call] /\ call' \in [Caller -> Call]
      /\ calls \in Nat /\ execs \in [CallNo -> Nat]
    BY <1>1 DEF CallType, ExecInv
<1>3. \A n : OnWire(down, n) \in Nat /\ OnWire(down', n) \in Nat
    BY <1>2, CopiesFinite DEF OnWire
<1>4. \A n \in CallNo : execs[n] \in Nat
    BY <1>2
<1>5. \A d \in Caller : Sent(call[d]) \in Int /\ Sent(call'[d]) \in Int
    BY <1>2, SentIsInt
\* A call begins: its number was never on the wire.
<1>6. ASSUME NEW c \in Caller, NEW to \in Addr, NEW op \in Op, Begin(c, to, op)
      PROVE  ExecInv'
  <2> DEFINE new == [Idle EXCEPT !.phase = "sending", !.n = calls', !.to = to, !.op = op,
                                 !.id = NextId, !.attempt = 1, !.link = link, !.fut = "pending"]
  <2>1. /\ call' = [call EXCEPT ![c] = new] /\ calls' = calls + 1 /\ calls < MaxCalls
        /\ down' = down /\ up' = up /\ execs' = execs
      BY <1>6 DEF Begin, wire, history
  <2>2. Sent(new) = 0 /\ new.n = calls + 1 /\ new.answer = 0
      BY <2>1 DEF Idle, Sent
  <2>3. calls + 1 \in CallNo
      BY <1>2, <2>1, SizesAssumption DEF CallNo
  <2> HIDE DEF new
  <2>4. call'[c] = new /\ \A d \in Caller \ {c} : call'[d] = call[d]
      BY <1>2, <2>1
  <2>5. OnWire(down, calls + 1) = 0
    <3>1. \A i \in DOMAIN down : down[i].n # calls + 1
      <4>1. \A i \in DOMAIN down : down[i].n <= calls /\ down[i].n \in Int
          BY DEF ExecInv, CallNo
      <4> QED BY <1>2, <4>1
    <3>2. Copies(down, calls + 1) = {}
        BY <3>1 DEF Copies
    <3> QED BY <3>2, FS_EmptySet DEF OnWire
  <2>6. execs[calls + 1] = 0
      BY <1>2, <2>3 DEF ExecInv
  <2>7. ASSUME NEW d \in Caller, call'[d].phase # "idle"
        PROVE  execs'[call'[d].n] + OnWire(down', call'[d].n) <= Sent(call'[d])
    <3>1. CASE d = c
        BY <2>1, <2>2, <2>4, <2>5, <2>6, <3>1
    <3>2. CASE d # c
        BY <2>1, <2>4, <2>7, <3>2 DEF ExecInv
    <3> QED BY <3>1, <3>2
  <2>8. \A d \in Caller : call'[d].answer # 0 => /\ call'[d].answer \in CallNo
                                                 /\ execs[call'[d].answer] >= 1
      BY <2>2, <2>4 DEF ExecInv
  <2>9. \A i \in DOMAIN down : down[i].n \in CallNo /\ down[i].n <= calls + 1
    <3>1. \A i \in DOMAIN down : down[i].n <= calls /\ down[i].n \in CallNo
        BY DEF ExecInv
    <3>2. \A n \in CallNo : n <= calls => n <= calls + 1
        BY <1>2 DEF CallNo
    <3> QED BY <3>1, <3>2
  <2>10. \A n \in CallNo : n > calls + 1 => execs[n] = 0
    <3>1. \A n \in CallNo : n > calls + 1 => n > calls
        BY <1>2 DEF CallNo
    <3> QED BY <3>1 DEF ExecInv
  <2>11. /\ execs \in [CallNo -> Nat]
         /\ \A i \in DOMAIN up : up[i].n \in CallNo /\ execs[up[i].n] >= 1
      BY DEF ExecInv
  <2> QED BY <2>1, <2>7, <2>8, <2>9, <2>10, <2>11 DEF ExecInv
\* The board's command goes onto the wire: one copy more, one sending more.
<1>7. ASSUME NEW c \in Caller, Write(c) PROVE ExecInv'
  <2> DEFINE r == [call[c] EXCEPT !.phase = "waiting"]
  <2>1. /\ call[c].phase = "sending" /\ call' = [call EXCEPT ![c] = r]
        /\ down' = Append(down, Cmd(c)) /\ calls' = calls /\ up' = up /\ execs' = execs
      BY <1>7 DEF Write, history
  <2>2. /\ r.n = call[c].n /\ r.answer = call[c].answer /\ Sent(r) = Sent(call[c]) + 1
      BY <1>2, <2>1 DEF Call, Sent
  <2> HIDE DEF r
  <2>3. call'[c] = r /\ \A d \in Caller \ {c} : call'[d] = call[d]
      BY <1>2, <2>1
  <2>4. \A n : OnWire(down', n) = OnWire(down, n) + (IF call[c].n = n THEN 1 ELSE 0)
    <3>1. Cmd(c) \in CmdType /\ Cmd(c).n = call[c].n
        BY <1>1, CmdTyped DEF Cmd
    <3> HIDE DEF Cmd
    <3> QED BY <1>2, <2>1, <3>1, CopiesAppend DEF OnWire
  <2>5. ASSUME NEW d \in Caller, call'[d].phase # "idle"
        PROVE  /\ call[d].phase # "idle" /\ call'[d].n = call[d].n
               /\ execs'[call[d].n] + OnWire(down', call[d].n) + Sent(call[d])
                     <= execs[call[d].n] + OnWire(down, call[d].n) + Sent(call'[d])
    <3>1. call[d].phase # "idle" /\ call'[d].n = call[d].n
        BY <2>1, <2>2, <2>3, <2>5
    <3>2. execs[call[d].n] \in Nat /\ OnWire(down, call[d].n) \in Nat
        BY <1>1, <1>3, <1>4, <3>1 DEF Numbered
    <3>3. CASE d = c
        BY <1>5, <2>1, <2>2, <2>3, <2>4, <3>1, <3>2, <3>3
    <3>4. CASE d # c
      <4>1. call[d].n # call[c].n
          BY <1>1, <2>1, <3>1, <3>4 DEF Numbered
      <4>2. OnWire(down', call[d].n) = OnWire(down, call[d].n) /\ call'[d] = call[d]
          BY <2>3, <2>4, <3>2, <3>4, <4>1
      <4> QED BY <1>5, <2>1, <3>1, <3>2, <4>2
    <3> QED BY <3>3, <3>4
  <2>6. \A d \in Caller : call'[d].answer = call[d].answer
      BY <2>2, <2>3
  <2>7. \A i \in DOMAIN down' : down'[i].n \in CallNo /\ down'[i].n <= calls
    <3>1. Cmd(c).n \in CallNo /\ Cmd(c).n <= calls
        BY <1>1, <2>1 DEF Cmd, Numbered
    <3>2. \A i \in DOMAIN down' : down'[i] = Cmd(c) \/ (i \in DOMAIN down /\ down'[i] = down[i])
      <4>1. Cmd(c) \in CmdType
          BY <1>1, CmdTyped
      <4> HIDE DEF Cmd
      <4> QED BY <1>2, <2>1, <4>1
    <3> HIDE DEF Cmd
    <3> QED BY <3>1, <3>2 DEF ExecInv
  <2>8. \A n \in CallNo : execs'[n] >= execs[n] /\ execs'[n] = execs[n]
      BY <1>4, <2>1
  <2> QED BY <1>1, <1>2, <2>1, <2>5, <2>6, <2>7, <2>8, KeepsExec
\* The handler of a simulated node runs: one execution more, one sending more.
<1>8. ASSUME NEW c \in Caller, Deliver(c) PROVE ExecInv'
  <2> DEFINE r == [call[c] EXCEPT !.phase = "waiting"]
  <2>1. /\ call[c].phase = "sending" /\ call' = [call EXCEPT ![c] = r]
        /\ down' = down /\ calls' = calls
      BY <1>8 DEF Deliver
  <2>2. /\ r \in Call /\ r.n = call[c].n /\ r.answer = call[c].answer
        /\ Sent(r) = Sent(call[c]) + 1
      BY <1>2, <2>1 DEF Call, Sent, Phase
  <2> HIDE DEF r
  <2>3. call'[c] = r /\ \A d \in Caller \ {c} : call'[d] = call[d]
      BY <1>2, <2>1
  <2>4. /\ execs' = [execs EXCEPT ![call[c].n] = @ + 1]
        /\ up' = up \/ \E a : up' = Append(up, a) /\ a \in AckType /\ a.n = call[c].n
    <3>1. Cmd(c) \in CmdType /\ Cmd(c).n = call[c].n
          /\ Execute(Cmd(c), call[c].link = link)
        BY <1>1, <1>8, CmdTyped DEF Cmd, Deliver
    <3>2. \/ up' = up
          \/ up' = Append(up, [node |-> addr', id |-> Cmd(c).id, n |-> Cmd(c).n])
        BY <1>1, <3>1, ExecuteType
    <3>3. [node |-> addr', id |-> Cmd(c).id, n |-> Cmd(c).n] \in AckType
        BY <1>1, <3>1 DEF CallType, AckType, CmdType
    <3> HIDE DEF Cmd
    <3> QED BY <3>1, <3>2, <3>3 DEF Execute
  <2>5. call[c].n \in CallNo /\ call[c].n <= calls
      BY <1>1, <2>1 DEF Numbered
  <2>6. /\ execs' \in [CallNo -> Nat]
        /\ \A n \in CallNo : execs'[n] = execs[n] + (IF call[c].n = n THEN 1 ELSE 0)
      BY <1>2, <2>4, <2>5
  <2>7. ASSUME NEW d \in Caller, call'[d].phase # "idle"
        PROVE  /\ call[d].phase # "idle" /\ call'[d].n = call[d].n
               /\ execs'[call[d].n] + OnWire(down', call[d].n) + Sent(call[d])
                     <= execs[call[d].n] + OnWire(down, call[d].n) + Sent(call'[d])
    <3>1. call[d].phase # "idle" /\ call'[d].n = call[d].n
        BY <2>1, <2>2, <2>3, <2>7
    <3>2. call[d].n \in CallNo /\ execs[call[d].n] \in Nat /\ OnWire(down, call[d].n) \in Nat
        BY <1>1, <1>3, <1>4, <3>1 DEF Numbered
    <3>3. CASE d = c
        BY <1>5, <2>1, <2>2, <2>3, <2>6, <3>1, <3>2, <3>3
    <3>4. CASE d # c
      <4>1. call[d].n # call[c].n
          BY <1>1, <2>1, <3>1, <3>4 DEF Numbered
      <4>2. execs'[call[d].n] = execs[call[d].n] /\ call'[d] = call[d]
          BY <2>3, <2>6, <3>2, <3>4, <4>1
      <4> QED BY <1>5, <2>1, <3>1, <3>2, <4>2
    <3> QED BY <3>3, <3>4
  <2>8. \A d \in Caller : call'[d].answer = call[d].answer
      BY <2>2, <2>3
  <2>9. \A i \in DOMAIN up' : \/ \E j \in DOMAIN up : up'[i].n = up[j].n
                              \/ up'[i].n \in CallNo /\ execs'[up'[i].n] >= 1
    <3>1. execs'[call[c].n] >= 1
        BY <1>4, <2>5, <2>6
    <3>2. CASE up' = up
        BY <3>2
    <3>3. CASE up' # up
      <4>1. PICK a : up' = Append(up, a) /\ a \in AckType /\ a.n = call[c].n
          BY <2>4, <3>3
      <4>2. \A i \in DOMAIN up' : up'[i] = a \/ (i \in DOMAIN up /\ up'[i] = up[i])
          BY <1>2, <4>1
      <4> QED BY <2>5, <3>1, <4>1, <4>2
    <3> QED BY <3>2, <3>3
  <2>10. \A n \in CallNo : execs'[n] >= execs[n] /\ (execs'[n] = execs[n] \/ n <= calls)
      BY <1>4, <2>5, <2>6
  <2>11. \A i \in DOMAIN down' : down'[i].n \in CallNo /\ down'[i].n <= calls
      BY <2>1 DEF ExecInv
  <2> QED BY <1>1, <1>2, <2>1, <2>6, <2>7, <2>8, <2>9, <2>10, <2>11, KeepsExec
<1>9. ASSUME NEW c \in Caller, SendRaises(c) \/ Return(c) \/ GiveUp(c) PROVE ExecInv'
  <2>1. PICK fut \in Fut : call' = [call EXCEPT ![c] = Over(c, fut)]
      BY <1>9 DEF SendRaises, Return, GiveUp, Fut
  <2>2. call[c].phase # "idle" /\ UNCHANGED <<calls, wire, execs>>
      BY <1>9 DEF SendRaises, Return, GiveUp, history
  <2>3. /\ Over(c, fut) \in Call /\ Over(c, fut).n = call[c].n
        /\ Over(c, fut).answer = call[c].answer /\ Over(c, fut).phase = "done"
      BY <1>1, OverType
  <2>4. Over(c, fut).attempt = call[c].attempt
      BY DEF Over, Idle
  <2>5. Sent(Over(c, fut)) >= Sent(call[c])
      BY SMTT(30), <1>2, <2>3, <2>4 DEF Sent, Call
  <2> QED BY <1>1, <2>1, <2>2, <2>3, <2>5, CallStepExec
<1>10. ASSUME NEW c \in Caller, Timer(c) PROVE ExecInv'
  <2>1. /\ call[c].phase = "waiting" /\ UNCHANGED <<calls, wire, execs>>
        /\ \E fut \in Fut : call' = [call EXCEPT ![c] = [call[c] EXCEPT !.late = TRUE, !.fut = fut]]
    <3>1. (IF call[c].fut = "pending" THEN "cancelled" ELSE call[c].fut) \in Fut
        BY <1>2 DEF Call, Fut
    <3> QED BY <1>10, <3>1 DEF Timer, history
  <2>2. PICK fut \in Fut : call' = [call EXCEPT ![c] = [call[c] EXCEPT !.late = TRUE, !.fut = fut]]
      BY <2>1
  <2> DEFINE r == [call[c] EXCEPT !.late = TRUE, !.fut = fut]
  <2>3. r \in Call /\ r.n = call[c].n /\ r.answer = call[c].answer /\ Sent(r) = Sent(call[c])
      BY <1>2 DEF Call, Sent
  <2>4. Sent(r) >= Sent(call[c])
      BY <1>5, <2>3
  <2> HIDE DEF r
  <2> QED BY <1>1, <2>1, <2>2, <2>3, <2>4, CallStepExec DEF r
<1>11. ASSUME NEW c \in Caller, Retry(c) PROVE ExecInv'
  <2> DEFINE r == [call[c] EXCEPT !.phase = "sending", !.attempt = @ + 1, !.fut = "pending",
                                  !.late = FALSE]
  <2>1. /\ call' = [call EXCEPT ![c] = r] /\ call[c].phase = "waiting"
        /\ UNCHANGED <<calls, wire, execs>>
      BY <1>11 DEF Retry, history
  <2>2. r \in Call /\ r.n = call[c].n /\ r.answer = call[c].answer
      BY <1>2, RetriedType
  <2>3. r.phase = "sending" /\ r.attempt = call[c].attempt + 1
      BY <1>2 DEF Call
  <2> HIDE DEF r
  <2>4. Sent(r) >= Sent(call[c])
      BY <1>2, <2>1, <2>3 DEF Sent, Call
  <2> QED BY <1>1, <2>1, <2>2, <2>4, CallStepExec
<1>12. CASE OnCmdAck
  <2>1. PICK answered \in SUBSET Caller :
            call' = [c \in Caller |->
                        IF c \in answered
                        THEN [call[c] EXCEPT !.fut = "set", !.answer = Head(up).n] ELSE call[c]]
    <3> DEFINE k == <<Head(up).node, Head(up).id>>
               awaited == {c \in Caller : /\ k \in DOMAIN pending /\ InProgress(c)
                                          /\ call[c].n = pending[k] /\ call[c].fut = "pending"}
    <3>1. awaited \in SUBSET Caller
        OBVIOUS
    <3> QED BY <1>12, <3>1 DEF OnCmdAck
  <2>2. up # <<>> /\ up' = Tail(up) /\ down' = down /\ calls' = calls /\ execs' = execs
      BY <1>12 DEF OnCmdAck
  <2>3. 1 \in DOMAIN up /\ Head(up) = up[1]
      BY <1>2, <2>2
  <2>4. ASSUME NEW d \in Caller
        PROVE  /\ call'[d].phase = call[d].phase /\ call'[d].n = call[d].n
               /\ Sent(call'[d]) = Sent(call[d])
               /\ call'[d].answer = call[d].answer \/ call'[d].answer = up[1].n
    <3>1. /\ call'[d].phase = call[d].phase /\ call'[d].n = call[d].n
          /\ call'[d].attempt = call[d].attempt
          /\ call'[d].answer = call[d].answer \/ call'[d].answer = up[1].n
      <4>1. call[d] \in Call
          BY <1>2
      <4>2. CASE d \in answered
          BY <2>1, <2>3, <4>1, <4>2 DEF Call
      <4>3. CASE d \notin answered
          BY <2>1, <4>3
      <4> QED BY <4>2, <4>3
    <3> QED BY <3>1 DEF Sent
  <2>5. ASSUME NEW d \in Caller, call'[d].phase # "idle"
        PROVE  /\ call[d].phase # "idle" /\ call'[d].n = call[d].n
               /\ execs'[call[d].n] + OnWire(down', call[d].n) + Sent(call[d])
                     <= execs[call[d].n] + OnWire(down, call[d].n) + Sent(call'[d])
    <3>1. call[d].phase # "idle" /\ call'[d].n = call[d].n /\ Sent(call'[d]) = Sent(call[d])
        BY <2>4, <2>5
    <3>2. execs[call[d].n] \in Nat /\ OnWire(down, call[d].n) \in Nat
        BY <1>1, <1>3, <1>4, <3>1 DEF Numbered
    <3> QED BY <1>5, <2>2, <3>1, <3>2
  <2>6. \A i \in DOMAIN up' : \E j \in DOMAIN up : up'[i].n = up[j].n
      BY <1>2, <2>2, TailOf
  <2>7. /\ \A n \in CallNo : execs'[n] >= execs[n] /\ execs'[n] = execs[n]
        /\ \A i \in DOMAIN down' : down'[i].n \in CallNo /\ down'[i].n <= calls
      BY <1>4, <2>2 DEF ExecInv
  <2>8. \A d \in Caller : \/ call'[d].answer = call[d].answer
                          \/ \E j \in DOMAIN up : call'[d].answer = up[j].n
      BY <2>3, <2>4
  <2> QED BY <1>1, <1>2, <2>2, <2>5, <2>6, <2>7, <2>8, KeepsExec
\* What is left changes no call: a copy is executed, or lost, or an answer is.
<1>13. ASSUME UNCHANGED <<call, calls>>, execs' \in [CallNo -> Nat],
              \A n \in CallNo : /\ execs'[n] >= execs[n] /\ (execs'[n] = execs[n] \/ n <= calls)
                                /\ execs'[n] + OnWire(down', n) <= execs[n] + OnWire(down, n),
              \A i \in DOMAIN down' : \E j \in DOMAIN down : down'[i] = down[j],
              \A i \in DOMAIN up' : \/ \E j \in DOMAIN up : up'[i].n = up[j].n
                                    \/ up'[i].n \in CallNo /\ execs'[up'[i].n] >= 1
       PROVE  ExecInv'
  <2>1. ASSUME NEW d \in Caller, call'[d].phase # "idle"
        PROVE  /\ call[d].phase # "idle" /\ call'[d].n = call[d].n
               /\ execs'[call[d].n] + OnWire(down', call[d].n) + Sent(call[d])
                     <= execs[call[d].n] + OnWire(down, call[d].n) + Sent(call'[d])
    <3>1. call[d].phase # "idle" /\ call'[d] = call[d] /\ call[d].n \in CallNo
        BY <1>1, <1>13, <2>1 DEF Numbered
    <3>2. /\ execs[call[d].n] \in Nat /\ OnWire(down, call[d].n) \in Nat
          /\ execs'[call[d].n] \in Nat /\ OnWire(down', call[d].n) \in Nat
        BY <1>3, <1>4, <1>13, <3>1
    <3>3. execs'[call[d].n] + OnWire(down', call[d].n) <= execs[call[d].n] + OnWire(down, call[d].n)
        BY <1>13, <3>1
    <3> QED BY <1>5, <3>1, <3>2, <3>3
  <2>2. /\ \A i \in DOMAIN down' : down'[i].n \in CallNo /\ down'[i].n <= calls
        /\ \A d \in Caller : call'[d].answer = call[d].answer
      BY <1>13 DEF ExecInv
  <2> QED BY <1>1, <1>2, <1>13, <2>1, <2>2, KeepsExec
<1>14. CASE OnCmd
  <2>1. /\ down # <<>> /\ down' = Tail(down) /\ UNCHANGED <<call, calls>>
        /\ Execute(Head(down), TRUE) /\ Head(down) \in CmdType
      BY <1>2, <1>14, HeadTail DEF OnCmd
  <2> DEFINE m == Head(down).n
  <2>2. m \in CallNo /\ m <= calls
    <3>1. 1 \in DOMAIN down /\ Head(down) = down[1]
        BY <1>2, <2>1
    <3> QED BY <3>1 DEF ExecInv
  <2>3. execs' = [execs EXCEPT ![m] = @ + 1]
      BY <2>1 DEF Execute
  <2>4. \A n : OnWire(down, n) = OnWire(down', n) + (IF m = n THEN 1 ELSE 0)
      BY <1>2, <2>1, CopiesTail DEF OnWire
  <2>5. \/ up' = up
        \/ \E a \in AckType : up' = Append(up, a) /\ a.n = m
    <3>1. \/ up' = up
          \/ up' = Append(up, [node |-> addr', id |-> Head(down).id, n |-> m])
        BY <1>1, <2>1, ExecuteType
    <3>2. [node |-> addr', id |-> Head(down).id, n |-> m] \in AckType
        BY <1>1, <2>1 DEF CallType, AckType, CmdType
    <3> QED BY <3>1, <3>2
  <2> HIDE DEF m
  <2>6. /\ execs' \in [CallNo -> Nat]
        /\ \A n \in CallNo : execs'[n] = execs[n] + (IF m = n THEN 1 ELSE 0)
      BY <1>2, <2>2, <2>3
  <2>7. \A n \in CallNo : /\ execs'[n] >= execs[n] /\ (execs'[n] = execs[n] \/ n <= calls)
                          /\ execs'[n] + OnWire(down', n) <= execs[n] + OnWire(down, n)
      BY <1>3, <1>4, <2>2, <2>4, <2>6
  <2>8. \A i \in DOMAIN down' : \E j \in DOMAIN down : down'[i] = down[j]
      BY <1>2, <2>1, TailOf
  <2>9. \A i \in DOMAIN up' : \/ \E j \in DOMAIN up : up'[i].n = up[j].n
                              \/ up'[i].n \in CallNo /\ execs'[up'[i].n] >= 1
    <3>1. execs'[m] >= 1
        BY <1>4, <2>2, <2>6
    <3>2. CASE up' = up
        BY <3>2
    <3>3. CASE up' # up
      <4>1. PICK a \in AckType : up' = Append(up, a) /\ a.n = m
          BY <2>5, <3>3
      <4>2. \A i \in DOMAIN up' : up'[i] = a \/ (i \in DOMAIN up /\ up'[i] = up[i])
          BY <1>2, <4>1
      <4> QED BY <2>2, <3>1, <4>1, <4>2
    <3> QED BY <3>2, <3>3
  <2> QED BY <1>13, <2>1, <2>6, <2>7, <2>8, <2>9
<1>15. CASE OnOther \/ Detach \/ Attach \/ Lose \/ UNCHANGED vars
  <2>1. /\ UNCHANGED <<call, calls, execs>>
        /\ down' = down \/ (down # <<>> /\ down' = Tail(down))
        /\ up' = up \/ up' = <<>> \/ (up # <<>> /\ up' = Tail(up))
      BY <1>15 DEF OnOther, Detach, Attach, Lose, vars, wire, history
  <2>2. /\ \A i \in DOMAIN down' : \E j \in DOMAIN down : down'[i] = down[j]
        /\ \A i \in DOMAIN up' : \E j \in DOMAIN up : up'[i] = up[j]
    <3>1. \A i \in DOMAIN down' : \E j \in DOMAIN down : down'[i] = down[j]
      <4>1. CASE down # <<>> /\ down' = Tail(down)
          BY <1>2, <4>1, TailOf
      <4> QED BY <2>1, <4>1
    <3>2. DOMAIN <<>> = {}
        OBVIOUS
    <3>3. \A i \in DOMAIN up' : \E j \in DOMAIN up : up'[i] = up[j]
      <4>1. CASE up # <<>> /\ up' = Tail(up)
          BY <1>2, <4>1, TailOf
      <4> QED BY <2>1, <3>2, <4>1
    <3> QED BY <3>1, <3>3
  <2>3. \A n : OnWire(down', n) <= OnWire(down, n)
    <3>1. CASE down' = down
        BY <1>3, <3>1
    <3>2. CASE down # <<>> /\ down' = Tail(down)
      <4>1. \A n : OnWire(down, n) = OnWire(down', n) + (IF Head(down).n = n THEN 1 ELSE 0)
          BY <1>2, <3>2, CopiesTail DEF OnWire
      <4> QED BY <1>3, <4>1
    <3> QED BY <2>1, <3>1, <3>2
  <2>4. \A n \in CallNo : /\ execs'[n] >= execs[n] /\ execs'[n] = execs[n]
                          /\ execs'[n] + OnWire(down', n) <= execs[n] + OnWire(down, n)
      BY <1>3, <1>4, <2>1, <2>3
  <2> QED BY <1>2, <1>13, <2>1, <2>2, <2>4
<1>16. CASE GatewayRestart
  <2>1. /\ UNCHANGED <<calls, down, up, execs>> /\ \A c \in Caller : call'[c] = Idle
      BY <1>16 DEF GatewayRestart, wire
  <2>2. \A c \in Caller : call'[c].phase = "idle" /\ call'[c].answer = 0
      BY <2>1 DEF Idle
  <2> QED BY <2>1, <2>2 DEF ExecInv
<1> QED BY <1>6, <1>7, <1>8, <1>9, <1>10, <1>11, <1>12, <1>14, <1>15, <1>16
    DEF Next, Send, Resume, Op

\* A command is executed no more often than it was sent, it is sent Tries times at
\* most, and a call that has an answer had its command executed, for any number of
\* callers, tries, links and lost frames.
THEOREM Executed == Spec => []ExecutedAsOften
<1>1. TypeInv /\ OwnInv /\ LeftInv /\ ExecInv => ExecutedAsOften
  <2> SUFFICES ASSUME TypeInv, OwnInv, LeftInv, ExecInv, NEW c \in Caller, call[c].phase # "idle"
               PROVE  /\ execs[call[c].n] <= call[c].attempt
                      /\ call[c].attempt <= Tries
                      /\ ~restarted /\ call[c].answer # 0 => execs[call[c].n] >= 1
      BY DEF ExecutedAsOften
  <2>1. Numbered /\ call[c] \in Call /\ call[c].n \in CallNo /\ down \in Seq(CmdType)
      BY IsNumbered DEF Numbered, CallType
  <2>2. execs[call[c].n] \in Nat /\ OnWire(down, call[c].n) \in Nat
      BY <2>1, CopiesFinite DEF ExecInv, OnWire
  <2>3. execs[call[c].n] + OnWire(down, call[c].n) <= Sent(call[c])
      BY DEF ExecInv
  <2>4. Sent(call[c]) \in Int /\ Sent(call[c]) <= call[c].attempt /\ call[c].attempt \in Int
      BY <2>1, SentIsInt DEF Call
  <2>5. call[c].attempt <= Tries
      BY DEF TypeInv, InRange
  <2>6. ~restarted /\ call[c].answer # 0 => call[c].answer = call[c].n
      BY DEF OwnInv, OwnCall
  <2>7. call[c].answer # 0 => execs[call[c].answer] >= 1
      BY DEF ExecInv
  <2>8. execs[call[c].n] <= call[c].attempt
      BY <2>2, <2>3, <2>4
  <2> QED BY <2>5, <2>6, <2>7, <2>8
<1> QED BY <1>1, InitType, NextType, InitOwn, NextOwn, InitLeft, NextLeft, InitExec, NextExec,
           PTL DEF Spec
=============================================================================
