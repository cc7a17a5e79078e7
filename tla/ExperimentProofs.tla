-------------------------- MODULE ExperimentProofs --------------------------
(***************************************************************************)
(* For any specs, with triggers of any number of actions, and any number   *)
(* of requests, runs, reboots and link drops: a sample sent as it was taken*)
(* is filed under its run, a replayed one under the run it was sent in; and*)
(* a trigger fires only after its debounce, once in a run if it says so.   *)
(***************************************************************************)
EXTENDS Experiment, SequenceTheorems, WellFoundedInduction, TLAPS

State == {"idle", "armed", "running", "done"}
Rate == {"declared", "experiment", "triggered", "burst"}

\* A live sample was taken in the run it is sent in.
Message ==
    {f \in [kind : {"TELEMETRY"}, run : Nat, of : Seq(Nat), replay : BOOLEAN] :
        ~f.replay => f.of = <<f.run>>}
    \cup [kind : {"EXP_STATE"}, run : Nat, state : State]

Backlogs == {q \in Seq(Run) : Len(q) <= BacklogDepth}

Node == [spec : Specs \cup {NoSpec}, run_state : State, run_id : Nat, run_seq : Nat,
         uptime : 0 .. Horizon, elapsed : 0 .. Horizon, since : (0 .. Horizon) \cup {None},
         fired : BOOLEAN, rate : Rate, saved : (Rate \ {"burst"}) \cup {"none"},
         burst_left : 0 .. BurstTicks, link_dropped : BOOLEAN, backlog : Backlogs,
         outbox : Seq(Message)]

-----------------------------------------------------------------------------
(* What the station believes after hearing the frames of a sequence.       *)

\* _on_exp_state: the run believed active after one frame.
Heard(a, f) ==
    IF f.kind # "EXP_STATE" THEN a
    ELSE IF f.state = "running" THEN f.run
    ELSE IF a = f.run /\ f.state \in Final THEN NoRun
    ELSE a

\* A station that believes in run a and hears the frames of q believes in run c
\* afterwards, and believes, at each sample of q, in the run it was sent in.
Tracks(a, q, c) ==
    \E b \in [0 .. Len(q) -> Nat] :
        /\ b[0] = a /\ b[Len(q)] = c
        /\ \A i \in 1 .. Len(q) : /\ b[i] = Heard(b[i - 1], q[i])
                                  /\ q[i].kind = "TELEMETRY" => q[i].run = b[i - 1]

LEMMA TracksNil == ASSUME NEW a \in Nat PROVE Tracks(a, <<>>, a)
<1>1. Len(<<>>) = 0
    OBVIOUS
<1> DEFINE b == [i \in 0 .. 0 |-> a]
<1>2. b \in [0 .. 0 -> Nat] /\ b[0] = a /\ 1 .. 0 = {}
    OBVIOUS
<1> HIDE DEF b
<1> QED BY <1>1, <1>2 DEF Tracks

LEMMA HeardType == ASSUME NEW a \in Nat, NEW f \in Message PROVE Heard(a, f) \in Nat
BY DEF Heard, Message, NoRun

LEMMA TracksOne ==
    ASSUME NEW a \in Nat, NEW f \in Message, f.kind = "TELEMETRY" => f.run = a
    PROVE  Tracks(a, <<f>>, Heard(a, f))
<1> DEFINE b == [i \in 0 .. 1 |-> IF i = 0 THEN a ELSE Heard(a, f)]
<1>1. Len(<<f>>) = 1 /\ <<f>>[1] = f
    OBVIOUS
<1>2. b \in [0 .. 1 -> Nat] /\ b[0] = a /\ b[1] = Heard(a, f)
    BY HeardType
<1>3. 1 .. 1 = {1} /\ 1 - 1 = 0
    OBVIOUS
<1> HIDE DEF b
<1> QED BY <1>1, <1>2, <1>3 DEF Tracks

\* One stretch of frames after another.
LEMMA TracksConcat ==
    ASSUME NEW a \in Nat, NEW c \in Nat, NEW d \in Nat,
           NEW p \in Seq(Message), NEW q \in Seq(Message), Tracks(a, p, c), Tracks(c, q, d)
    PROVE  Tracks(a, p \o q, d)
<1>1. PICK b \in [0 .. Len(p) -> Nat] :
        /\ b[0] = a /\ b[Len(p)] = c
        /\ \A i \in 1 .. Len(p) : /\ b[i] = Heard(b[i - 1], p[i])
                                  /\ p[i].kind = "TELEMETRY" => p[i].run = b[i - 1]
    BY DEF Tracks
<1>2. PICK e \in [0 .. Len(q) -> Nat] :
        /\ e[0] = c /\ e[Len(q)] = d
        /\ \A i \in 1 .. Len(q) : /\ e[i] = Heard(e[i - 1], q[i])
                                  /\ q[i].kind = "TELEMETRY" => q[i].run = e[i - 1]
    BY DEF Tracks
<1> DEFINE n == Len(p)
           r == p \o q
           g == [i \in 0 .. Len(r) |-> IF i <= n THEN b[i] ELSE e[i - n]]
<1>3. /\ n \in Nat /\ Len(q) \in Nat /\ Len(r) = n + Len(q)
      /\ \A i \in 1 .. n : r[i] = p[i]
      /\ \A i \in n + 1 .. Len(r) : r[i] = q[i - n]
    OBVIOUS
<1> HIDE DEF n, r
<1>4. /\ \A i \in 0 .. n : g[i] = b[i]
      /\ \A i \in n .. Len(r) : g[i] = e[i - n]
  <2>1. \A i \in 0 .. n : i \in 0 .. Len(r) /\ i <= n
      BY <1>3
  <2>2. ASSUME NEW i \in n .. Len(r) PROVE g[i] = e[i - n]
    <3>1. i \in 0 .. Len(r)
        BY <1>3
    <3>2. CASE i = n
        BY <1>1, <1>2, <1>3, <3>1, <3>2 DEF n
    <3>3. CASE i # n
        BY <1>3, <3>1, <3>3
    <3> QED BY <3>2, <3>3
  <2> QED BY <2>1, <2>2
<1>5. g \in [0 .. Len(r) -> Nat] /\ g[0] = a /\ g[Len(r)] = d
    BY <1>1, <1>2, <1>3, <1>4 DEF n
<1> HIDE DEF g
<1>6. ASSUME NEW i \in 1 .. Len(r)
      PROVE  /\ g[i] = Heard(g[i - 1], r[i])
             /\ r[i].kind = "TELEMETRY" => r[i].run = g[i - 1]
  <2>1. CASE i <= n
    <3>1. i \in 1 .. n /\ g[i] = b[i] /\ g[i - 1] = b[i - 1] /\ r[i] = p[i]
      <4>1. i \in 1 .. n /\ i \in 0 .. n /\ i - 1 \in 0 .. n
          BY <1>3, <2>1
      <4> QED BY <1>3, <1>4, <4>1
    <3> QED BY <1>1, <3>1 DEF n
  <2>2. CASE i > n
    <3>1. /\ i - n \in 1 .. Len(q) /\ g[i] = e[i - n] /\ g[i - 1] = e[(i - n) - 1]
          /\ r[i] = q[i - n]
      <4>1. i \in n .. Len(r) /\ i - 1 \in n .. Len(r) /\ (i - 1) - n = (i - n) - 1
            /\ i \in n + 1 .. Len(r) /\ i - n \in 1 .. Len(q)
          BY <1>3, <2>2
      <4> QED BY <1>3, <1>4, <4>1
    <3> QED BY <1>2, <3>1
  <2> QED BY <1>3, <2>1, <2>2
<1> QED BY <1>5, <1>6 DEF Tracks, r

\* The first frame is heard.
LEMMA TracksHead ==
    ASSUME NEW a \in Nat, NEW c \in Nat, NEW q \in Seq(Message), q # <<>>, Tracks(a, q, c)
    PROVE  /\ Head(q).kind = "TELEMETRY" => Head(q).run = a
           /\ Heard(a, Head(q)) \in Nat
           /\ Tracks(Heard(a, Head(q)), Tail(q), c)
<1>1. PICK b \in [0 .. Len(q) -> Nat] :
        /\ b[0] = a /\ b[Len(q)] = c
        /\ \A i \in 1 .. Len(q) : /\ b[i] = Heard(b[i - 1], q[i])
                                  /\ q[i].kind = "TELEMETRY" => q[i].run = b[i - 1]
    BY DEF Tracks
<1>2. /\ Len(q) \in Nat \ {0} /\ Head(q) = q[1] /\ 1 \in 1 .. Len(q) /\ 1 - 1 = 0
      /\ Len(Tail(q)) = Len(q) - 1 /\ \A i \in 1 .. Len(q) - 1 : Tail(q)[i] = q[i + 1]
    OBVIOUS
<1>3. /\ b[1] = Heard(a, Head(q)) /\ b[1] \in Nat
      /\ Head(q).kind = "TELEMETRY" => Head(q).run = a
    BY <1>1, <1>2
<1> DEFINE g == [i \in 0 .. Len(q) - 1 |-> b[i + 1]]
<1>4. \A i \in 0 .. Len(q) - 1 : i + 1 \in 1 .. Len(q) /\ g[i] = b[i + 1]
    BY <1>2
<1>5. g \in [0 .. Len(q) - 1 -> Nat] /\ g[0] = b[1] /\ g[Len(q) - 1] = c
    BY <1>1, <1>2, <1>4
<1> HIDE DEF g
<1>6. ASSUME NEW i \in 1 .. Len(q) - 1
      PROVE  /\ g[i] = Heard(g[i - 1], Tail(q)[i])
             /\ Tail(q)[i].kind = "TELEMETRY" => Tail(q)[i].run = g[i - 1]
  <2>1. /\ i + 1 \in 1 .. Len(q) /\ g[i] = b[i + 1] /\ g[i - 1] = b[(i + 1) - 1]
        /\ Tail(q)[i] = q[i + 1]
    <3>1. i \in 0 .. Len(q) - 1 /\ i - 1 \in 0 .. Len(q) - 1 /\ (i - 1) + 1 = (i + 1) - 1
        BY <1>2
    <3> QED BY <1>2, <1>4, <3>1
  <2> QED BY <1>1, <2>1
<1> QED BY ZenonT(30), <1>2, <1>3, <1>5, <1>6 DEF Tracks
-----------------------------------------------------------------------------
(* The methods of the node.                                                *)

\* The node's run is the last one started, nothing it tells is of a later one, and
\* while a burst lasts the rate to return to is known.
Good(n) ==
    /\ n \in Node
    /\ n.run_id = n.run_seq
    /\ n.run_state \in {"armed", "running"} => n.spec # NoSpec
    /\ n.rate = "burst" => n.saved # "none"
    /\ \A i \in DOMAIN n.outbox : n.outbox[i].run <= n.run_seq

\* What a station that hears everything believes, between two methods of the node: a
\* reboot is not told.
Agrees(n, c) ==
    /\ c \in {NoRun, n.run_id}
    /\ n.run_state = "running" => c = n.run_id
    /\ n.run_state = "done" => c = NoRun

\* m is what some methods made of n: they told the station what it has to know.
Moves(n, m) ==
    /\ Good(m)
    /\ m.spec = n.spec /\ m.run_seq >= n.run_seq
    /\ m.run_seq = n.run_seq => m.fired = n.fired /\ m.since = n.since
    /\ m.run_seq # n.run_seq => ~m.fired /\ m.since = None
    /\ \E told \in Seq(Message) :
          /\ m.outbox = n.outbox \o told
          /\ \A c \in Nat : Agrees(n, c) =>
                \E d \in Nat : Agrees(m, d) /\ Tracks(c, told, d)

LEMMA InOrder ==
    ASSUME NEW p \in Seq(Message), NEW q \in Seq(Message), NEW r \in Seq(Message)
    PROVE  (p \o q) \o r = p \o (q \o r)
BY ConcatAssociative, SMTT(30)

LEMMA MovesOn ==
    ASSUME NEW n, NEW m, NEW l, Good(n), Moves(n, m), Moves(m, l)
    PROVE  Moves(n, l)
<1>1. PICK p \in Seq(Message) :
          /\ m.outbox = n.outbox \o p
          /\ \A c \in Nat : Agrees(n, c) => \E d \in Nat : Agrees(m, d) /\ Tracks(c, p, d)
    BY DEF Moves
<1>2. PICK q \in Seq(Message) :
          /\ l.outbox = m.outbox \o q
          /\ \A c \in Nat : Agrees(m, c) => \E d \in Nat : Agrees(l, d) /\ Tracks(c, q, d)
    BY DEF Moves
<1>3. n.outbox \in Seq(Message)
    BY DEF Good, Node
<1>4. p \o q \in Seq(Message) /\ l.outbox = n.outbox \o (p \o q)
  <2>1. (n.outbox \o p) \o q = n.outbox \o (p \o q)
      BY <1>3, InOrder
  <2>2. p \o q \in Seq(Message)
      OBVIOUS
  <2> QED BY <1>1, <1>2, <2>1, <2>2
<1>5. ASSUME NEW c \in Nat, Agrees(n, c)
      PROVE  \E d \in Nat : Agrees(l, d) /\ Tracks(c, p \o q, d)
  <2>1. PICK d \in Nat : Agrees(m, d) /\ Tracks(c, p, d)
      BY <1>1, <1>5
  <2>2. PICK e \in Nat : Agrees(l, e) /\ Tracks(d, q, e)
      BY <1>2, <2>1
  <2> QED BY <2>1, <2>2, TracksConcat
<1>6. n.run_seq \in Nat /\ m.run_seq \in Nat /\ l.run_seq \in Nat
    BY DEF Moves, Good, Node
<1>7. /\ Good(l) /\ l.spec = n.spec /\ l.run_seq >= n.run_seq
      /\ l.run_seq = n.run_seq => l.fired = n.fired /\ l.since = n.since
      /\ l.run_seq # n.run_seq => ~l.fired /\ l.since = None
    BY <1>6 DEF Moves
<1> QED BY <1>4, <1>5, <1>7 DEF Moves

\* One frame told.
LEMMA MovesTelling ==
    ASSUME NEW n, NEW m, NEW f \in Message, Good(n), Good(m),
           m.spec = n.spec, m.run_seq >= n.run_seq,
           m.run_seq = n.run_seq => m.fired = n.fired /\ m.since = n.since,
           m.run_seq # n.run_seq => ~m.fired /\ m.since = None,
           m.outbox = Append(n.outbox, f), f.kind = "EXP_STATE",
           \A c \in Nat : Agrees(n, c) => Agrees(m, Heard(c, f))
    PROVE  Moves(n, m)
<1>1. n.outbox \in Seq(Message)
    BY DEF Good, Node
<1>2. <<f>> \in Seq(Message) /\ m.outbox = n.outbox \o <<f>>
    BY <1>1
<1>3. \A c \in Nat : Agrees(n, c) => \E d \in Nat : Agrees(m, d) /\ Tracks(c, <<f>>, d)
    BY HeardType, TracksOne
<1> QED BY <1>2, <1>3 DEF Moves

\* Nothing told.
LEMMA MovesQuietly ==
    ASSUME NEW n, NEW m, Good(n), Good(m), m.spec = n.spec, m.run_seq = n.run_seq,
           m.fired = n.fired /\ m.since = n.since, m.outbox = n.outbox,
           m.run_state = n.run_state \/ m.run_state = "idle"
    PROVE  Moves(n, m)
<1>1. /\ n.outbox \in Seq(Message) /\ n.run_seq \in Nat
      /\ n.run_id = n.run_seq /\ m.run_id = m.run_seq
    BY DEF Good, Node
<1>2. <<>> \in Seq(Message) /\ m.outbox = n.outbox \o <<>>
    BY <1>1
<1>3. \A c \in Nat : Agrees(n, c) => \E d \in Nat : Agrees(m, d) /\ Tracks(c, <<>>, d)
  <2>1. \A c \in Nat : Agrees(n, c) => Agrees(m, c)
      BY <1>1 DEF Agrees
  <2> QED BY <2>1, TracksNil
<1>4. m.run_seq >= n.run_seq
    BY <1>1
<1>5. \E told \in Seq(Message) :
          /\ m.outbox = n.outbox \o told
          /\ \A c \in Nat : Agrees(n, c) => \E d \in Nat : Agrees(m, d) /\ Tracks(c, told, d)
    BY <1>2, <1>3
<1> QED BY <1>4, <1>5 DEF Moves

LEMMA Told ==
    ASSUME NEW q \in Seq(Message), NEW f \in Message, NEW k \in Nat, f.run <= k,
           \A i \in DOMAIN q : q[i].run <= k
    PROVE  Append(q, f) \in Seq(Message) /\ \A i \in DOMAIN Append(q, f) : Append(q, f)[i].run <= k
<1>1. \A i \in DOMAIN Append(q, f) : Append(q, f)[i] = f \/ (i \in DOMAIN q /\ Append(q, f)[i] = q[i])
    OBVIOUS
<1> QED BY <1>1

LEMMA FreshRunType ==
    ASSUME NEW n \in Node, NEW k \in Nat, NEW zero \in 0 .. Horizon
    PROVE  [n EXCEPT !.run_seq = k, !.run_id = k, !.run_state = "running", !.elapsed = zero,
                     !.since = None, !.fired = FALSE] \in Node
BY DEF Node, State

LEMMA StartRunIs ==
    ASSUME NEW n, Good(n), n.spec # NoSpec
    PROVE  LET m == StartRun(n)
               f == [kind |-> "EXP_STATE", run |-> n.run_seq + 1, state |-> "running"]
           IN /\ Good(m) /\ f \in Message
              /\ m.run_id = n.run_seq + 1 /\ m.run_seq = n.run_seq + 1 /\ m.run_state = "running"
              /\ m.since = None /\ m.fired = FALSE
              /\ m.spec = n.spec /\ m.outbox = Append(n.outbox, f)
<1> DEFINE f == [kind |-> "EXP_STATE", run |-> n.run_seq + 1, state |-> "running"]
           x == [n EXCEPT !.run_seq = @ + 1, !.run_id = n.run_seq + 1, !.run_state = "running",
                          !.elapsed = 0, !.since = None, !.fired = FALSE]
           y == [x EXCEPT !.rate = "experiment"]
           m == [y EXCEPT !.outbox = Append(@, f)]
<1>1. n \in Node /\ 0 \in 0 .. Horizon /\ n.run_seq \in Nat /\ n.outbox \in Seq(Message)
    BY SpecsAssumption DEF Good, Node
<1>2. f \in Message /\ f.run = n.run_seq + 1
    BY <1>1 DEF Message, State
<1>3. StartRun(n) = m
  <2>1. ApplyOverrides(x, n.spec) = y
      BY DEF ApplyOverrides
  <2>2. ExpState(y) = f
      BY <1>1 DEF ExpState, Node
  <2> QED BY <2>1, <2>2 DEF StartRun, EmitExpState
<1>4. /\ Append(n.outbox, f) \in Seq(Message)
      /\ \A i \in DOMAIN Append(n.outbox, f) : Append(n.outbox, f)[i].run <= n.run_seq + 1
  <2>1. \A i \in DOMAIN n.outbox : n.outbox[i].run <= n.run_seq + 1
    <3>1. \A i \in DOMAIN n.outbox : n.outbox[i].run \in Nat
      <4>1. \A i \in DOMAIN n.outbox : n.outbox[i] \in Message
          BY <1>1
      <4> QED BY <4>1 DEF Message
    <3> QED BY <1>1, <3>1 DEF Good
  <2> HIDE DEF f
  <2> QED BY <1>1, <1>2, <2>1, Told
<1> HIDE DEF f
<1>5. x \in Node
  <2>1. n.run_seq + 1 \in Nat
      BY <1>1
  <2> QED BY <1>1, <2>1, FreshRunType
<1>6. y \in Node
    BY <1>5 DEF Node, Rate
<1>7. /\ y.run_seq = n.run_seq + 1 /\ y.run_id = n.run_seq + 1 /\ y.run_state = "running"
      /\ y.since = None /\ y.fired = FALSE /\ y.spec = n.spec /\ y.outbox = n.outbox
      /\ y.rate = "experiment"
    BY <1>1 DEF Node
<1> HIDE DEF y
<1>8. m \in Node
    BY <1>4, <1>6, <1>7 DEF Node
<1>9. /\ m.run_seq = n.run_seq + 1 /\ m.run_id = n.run_seq + 1 /\ m.run_state = "running"
      /\ m.since = None /\ m.fired = FALSE /\ m.spec = n.spec /\ m.outbox = Append(n.outbox, f)
      /\ m.rate = "experiment"
    BY <1>6, <1>7 DEF Node
<1> HIDE DEF m
<1>10. Good(m)
    BY <1>4, <1>8, <1>9 DEF Good
<1> QED BY <1>2, <1>3, <1>9, <1>10 DEF f

LEMMA EndRunIs ==
    ASSUME NEW n, Good(n)
    PROVE  LET m == EndRun(n)
               f == [kind |-> "EXP_STATE", run |-> n.run_seq, state |-> "done"]
           IN /\ Good(m) /\ f \in Message
              /\ m.run_id = n.run_seq /\ m.run_seq = n.run_seq /\ m.run_state = "done"
              /\ m.since = n.since /\ m.fired = n.fired
              /\ m.spec = n.spec /\ m.outbox = Append(n.outbox, f)
<1> DEFINE f == [kind |-> "EXP_STATE", run |-> n.run_seq, state |-> "done"]
           y == [[n EXCEPT !.run_state = "done"] EXCEPT !.rate = "declared"]
           m == [y EXCEPT !.outbox = Append(@, f)]
<1>1. /\ n \in Node /\ n.run_seq \in Nat /\ n.outbox \in Seq(Message) /\ n.run_id = n.run_seq
      /\ \A i \in DOMAIN n.outbox : n.outbox[i].run <= n.run_seq
    BY DEF Good, Node
<1>2. f \in Message /\ f.run = n.run_seq
    BY <1>1 DEF Message, State
<1>3. EndRun(n) = m
  <2>1. ApplyOverrides([n EXCEPT !.run_state = "done"], NoSpec) = y
      BY DEF ApplyOverrides
  <2>2. ExpState(y) = f
      BY <1>1 DEF ExpState, Node
  <2> QED BY <2>1, <2>2 DEF EndRun, EmitExpState
<1> HIDE DEF f
<1>4. /\ Append(n.outbox, f) \in Seq(Message)
      /\ \A i \in DOMAIN Append(n.outbox, f) : Append(n.outbox, f)[i].run <= n.run_seq
  <2>1. f.run <= n.run_seq
      BY <1>1, <1>2
  <2> QED BY <1>1, <1>2, <2>1, Told
<1>5. y \in Node
    BY <1>1 DEF Node, Rate, State
<1>6. /\ y.run_seq = n.run_seq /\ y.run_id = n.run_seq /\ y.run_state = "done"
      /\ y.since = n.since /\ y.fired = n.fired /\ y.spec = n.spec /\ y.outbox = n.outbox
      /\ y.rate = "declared"
    BY <1>1 DEF Node
<1> HIDE DEF y
<1>7. m \in Node
    BY <1>4, <1>5, <1>6 DEF Node
<1>8. /\ m.run_seq = n.run_seq /\ m.run_id = n.run_seq /\ m.run_state = "done"
      /\ m.since = n.since /\ m.fired = n.fired /\ m.spec = n.spec
      /\ m.outbox = Append(n.outbox, f) /\ m.rate = "declared"
    BY <1>5, <1>6 DEF Node
<1> HIDE DEF m
<1>9. Good(m)
    BY <1>4, <1>7, <1>8 DEF Good
<1> QED BY <1>2, <1>3, <1>8, <1>9 DEF f

\* A run is started, and told of.
LEMMA StartRunMoves ==
    ASSUME NEW n, Good(n), n.spec # NoSpec PROVE Moves(n, StartRun(n))
<1> DEFINE m == StartRun(n)
           f == [kind |-> "EXP_STATE", run |-> n.run_seq + 1, state |-> "running"]
<1>1. /\ Good(m) /\ f \in Message
      /\ m.run_id = n.run_seq + 1 /\ m.run_seq = n.run_seq + 1 /\ m.run_state = "running"
      /\ m.since = None /\ ~m.fired
      /\ m.spec = n.spec /\ m.outbox = Append(n.outbox, f)
    BY StartRunIs
<1>2. n.run_seq \in Nat
    BY DEF Good, Node
<1>3. f.kind = "EXP_STATE" /\ \A c \in Nat : Heard(c, f) = n.run_seq + 1
    BY DEF Heard
<1> HIDE DEF m, f
<1>4. \A c \in Nat : Agrees(m, Heard(c, f))
    BY <1>1, <1>3 DEF Agrees
<1> QED BY <1>1, <1>2, <1>3, <1>4, MovesTelling DEF m

\* A run ends, and is told of.
LEMMA EndRunMoves ==
    ASSUME NEW n, Good(n) PROVE Moves(n, EndRun(n))
<1> DEFINE m == EndRun(n)
           f == [kind |-> "EXP_STATE", run |-> n.run_seq, state |-> "done"]
<1>1. /\ Good(m) /\ f \in Message
      /\ m.run_id = n.run_seq /\ m.run_seq = n.run_seq /\ m.run_state = "done"
      /\ m.since = n.since /\ m.fired = n.fired
      /\ m.spec = n.spec /\ m.outbox = Append(n.outbox, f)
    BY EndRunIs
<1>2. n.run_seq \in Nat /\ n.run_id = n.run_seq
    BY DEF Good, Node
<1>3. f.kind = "EXP_STATE" /\ \A c \in {NoRun, n.run_seq} : Heard(c, f) = NoRun
    BY DEF Heard, Final
<1> HIDE DEF m, f
<1>4. \A c \in Nat : Agrees(n, c) => Agrees(m, Heard(c, f))
    BY <1>1, <1>2, <1>3 DEF Agrees
<1> QED BY <1>1, <1>2, <1>3, <1>4, MovesTelling DEF m

LEMMA RebootMoves ==
    ASSUME NEW n, Good(n) PROVE Moves(n, Reboot(n))
<1> DEFINE m == [n EXCEPT !.run_state = "idle", !.uptime = 0]
<1>1. n \in Node /\ 0 \in 0 .. Horizon
    BY SpecsAssumption DEF Good, Node
<1>2. m \in Node
    BY <1>1 DEF Node, State
<1>3. /\ m.run_state = "idle" /\ m.run_id = n.run_id /\ m.run_seq = n.run_seq
      /\ m.spec = n.spec /\ m.fired = n.fired /\ m.since = n.since /\ m.outbox = n.outbox
      /\ m.rate = n.rate /\ m.saved = n.saved
    BY <1>1 DEF Node
<1>4. Reboot(n) = IF StartsOnBoot(n.spec) THEN StartRun(m) ELSE m
    BY DEF Reboot
<1> HIDE DEF m
<1>5. Good(m)
    BY <1>2, <1>3 DEF Good
<1>6. Moves(n, m)
    BY <1>3, <1>5, MovesQuietly
<1>7. CASE StartsOnBoot(n.spec)
  <2>1. m.spec # NoSpec
      BY <1>3, <1>7 DEF StartsOnBoot
  <2> QED BY <1>4, <1>5, <1>6, <1>7, <2>1, StartRunMoves, MovesOn
<1> QED BY <1>4, <1>6, <1>7

LEMMA PerformMoves ==
    ASSUME NEW n, Good(n), NEW action \in TriggerAction PROVE Moves(n, Perform(n, action))
<1>1. n \in Node /\ BurstTicks \in 0 .. BurstTicks
    BY SpecsAssumption DEF Good
<1>2. CASE action = "set_rate"
  <2> DEFINE m == [n EXCEPT !.rate = "triggered"]
  <2>1. m \in Node
      BY <1>1 DEF Node, Rate
  <2>2. /\ m.run_state = n.run_state /\ m.run_id = n.run_id /\ m.run_seq = n.run_seq
        /\ m.spec = n.spec /\ m.fired = n.fired /\ m.since = n.since /\ m.outbox = n.outbox
        /\ m.rate = "triggered" /\ m.saved = n.saved
      BY <1>1 DEF Node
  <2>3. Perform(n, action) = m
      BY <1>2 DEF Perform
  <2> HIDE DEF m
  <2>4. Good(m)
      BY <2>1, <2>2 DEF Good
  <2> QED BY <2>2, <2>3, <2>4, MovesQuietly
<1>3. CASE action = "burst"
  <2> DEFINE m == [n EXCEPT !.saved = SavedRate(n), !.rate = "burst", !.burst_left = BurstTicks]
  <2>1. SavedRate(n) \in Rate \ {"burst"} /\ SavedRate(n) # "none"
    <3>1. n.rate \in Rate /\ n.saved \in (Rate \ {"burst"}) \cup {"none"}
        BY <1>1 DEF Node
    <3> QED BY <3>1 DEF SavedRate, Good, Rate
  <2>2. Perform(n, action) = m
      BY <1>3 DEF Perform
  <2>3. m \in Node
      BY <1>1, <2>1 DEF Node, Rate
  <2>4. /\ m.run_state = n.run_state /\ m.run_id = n.run_id /\ m.run_seq = n.run_seq
        /\ m.spec = n.spec /\ m.fired = n.fired /\ m.since = n.since /\ m.outbox = n.outbox
        /\ m.saved # "none"
      BY <1>1, <2>1 DEF Node
  <2> HIDE DEF m
  <2>5. Good(m)
      BY <2>3, <2>4 DEF Good
  <2> QED BY <2>2, <2>4, <2>5, MovesQuietly
<1>4. CASE action = "stop"
    BY <1>4, EndRunMoves DEF Perform
<1>5. CASE action = "reboot"
    BY <1>5, RebootMoves DEF Perform
<1> QED BY <1>2, <1>3, <1>4, <1>5 DEF TriggerAction

\* Induction along a sequence, over a set.
LEMMA Induct ==
    ASSUME NEW k \in Nat, NEW S, 0 \in S, \A i \in 1 .. k : i - 1 \in S => i \in S
    PROVE  0 .. k \subseteq S
<1> SUFFICES ASSUME ~(0 .. k \subseteq S) PROVE FALSE
    OBVIOUS
<1> DEFINE bad == {i \in 0 .. k : i \notin S}
<1>1. bad \subseteq Nat /\ bad # {}
    OBVIOUS
<1>2. PICK i \in bad : \A j \in bad : ~(<<j, i>> \in OpToRel(<, Nat))
  <2> HIDE DEF bad
  <2> QED BY <1>1, WFMin, NatLessThanWellFounded
<1>3. i \in 0 .. k /\ i \notin S /\ i # 0
    OBVIOUS
<1>4. i \in 1 .. k /\ i - 1 \in 0 .. k
    BY <1>3
<1>5. i - 1 \in bad
    BY <1>3, <1>4
<1>6. <<i - 1, i>> \in OpToRel(<, Nat)
    BY <1>4 DEF OpToRel
<1> QED BY <1>2, <1>5, <1>6

\* The recursion over the actions of a trigger is well defined.
Runs(g, s, k, do) ==
    g = [i \in 0 .. k |-> IF i = 0 THEN s ELSE Perform(g[i - 1], do[i])]

LEMMA Actions ==
    ASSUME NEW s, NEW k \in Nat, NEW do
    PROVE  \E g : Runs(g, s, k, do)
<1> USE DEF Runs
<1> DEFINE Def(g, j) == Runs(g, s, j, do)
           S == {j \in 0 .. k : \E g : Def(g, j)}
<1>1. 0 \in S
  <2> DEFINE g == [i \in 0 .. 0 |-> s]
  <2>1. g = [i \in 0 .. 0 |-> IF i = 0 THEN s ELSE Perform(g[i - 1], do[i])]
      OBVIOUS
  <2>2. Def(g, 0)
      BY <2>1
  <2> HIDE DEF g, Def
  <2> QED BY <2>2
<1>2. ASSUME NEW j \in 1 .. k, j - 1 \in S PROVE j \in S
  <2>1. PICK g : Def(g, j - 1)
      BY <1>2
  <2> DEFINE h == [i \in 0 .. j |-> IF i = j THEN Perform(g[j - 1], do[j]) ELSE g[i]]
  <2>2. /\ \A i \in 0 .. j - 1 : g[i] = IF i = 0 THEN s ELSE Perform(g[i - 1], do[i])
        /\ \A i \in 0 .. j - 1 : h[i] = g[i]
        /\ h[j] = Perform(g[j - 1], do[j])
      BY <2>1
  <2> DEFINE f == [i \in 0 .. j |-> IF i = 0 THEN s ELSE Perform(h[i - 1], do[i])]
  <2>3. ASSUME NEW i \in 0 .. j PROVE h[i] = f[i]
    <3>1. f[i] = IF i = 0 THEN s ELSE Perform(h[i - 1], do[i])
        OBVIOUS
    <3> HIDE DEF h, f, Def
    <3>2. CASE i = j
      <4>1. j - 1 \in 0 .. j - 1 /\ i # 0
          BY <3>2
      <4> QED BY <2>2, <3>1, <3>2, <4>1
    <3>3. CASE i # j
      <4>1. i \in 0 .. j - 1 /\ (i # 0 => i - 1 \in 0 .. j - 1)
          BY <3>3
      <4> QED BY <2>2, <3>1, <4>1
    <3> QED BY <3>2, <3>3
  <2>4. h = f
    <3>1. DOMAIN h = 0 .. j /\ DOMAIN f = 0 .. j /\ h = [i \in 0 .. j |-> h[i]] /\ f = [i \in 0 .. j |-> f[i]]
        OBVIOUS
    <3> HIDE DEF h, f, Def
    <3> QED BY <2>3, <3>1
  <2>5. Def(h, j)
      BY <2>4
  <2> HIDE DEF h, Def
  <2> QED BY <2>5
<1>3. k \in S
  <2> HIDE DEF S
  <2>1. 0 .. k \subseteq S
      BY <1>1, <1>2, Induct
  <2> QED BY <2>1
<1> QED BY <1>3

\* A trigger that fires tells of all it does, however much that is.
LEMMA FireTriggerMoves ==
    ASSUME NEW n, Good(n), n.spec \in Specs
    PROVE  Moves([n EXCEPT !.since = None, !.fired = TRUE], FireTrigger(n))
<1> DEFINE s == [n EXCEPT !.since = None, !.fired = TRUE]
           do == n.spec.do
           k == Len(do)
           after == CHOOSE g : Runs(g, s, k, do)
<1>1. do \in Seq(TriggerAction) /\ k \in Nat /\ DOMAIN do = 1 .. k
    BY SpecsAssumption DEF Experiments
<1>2. FireTrigger(n) = after[k]
    BY DEF FireTrigger, Runs
<1>3. after = [i \in 0 .. k |-> IF i = 0 THEN s ELSE Perform(after[i - 1], do[i])]
  <2> HIDE DEF s, do, k
  <2>1. \E g : Runs(g, s, k, do)
      BY <1>1, Actions
  <2>2. Runs(after, s, k, do)
      BY <2>1
  <2> QED BY <2>2 DEF Runs
<1>4. Good(s)
  <2>1. n \in Node
      BY DEF Good
  <2>2. s \in Node
      BY <2>1 DEF Node
  <2>3. /\ s.run_state = n.run_state /\ s.run_id = n.run_id /\ s.run_seq = n.run_seq
        /\ s.spec = n.spec /\ s.outbox = n.outbox /\ s.rate = n.rate /\ s.saved = n.saved
      BY <2>1 DEF Node
  <2> HIDE DEF s
  <2> QED BY <2>2, <2>3 DEF Good
<1> HIDE DEF s, after, do, k
<1> DEFINE S == {i \in 0 .. k : Moves(s, after[i])}
<1>5. 0 \in S
  <2>1. after[0] = s
      BY <1>1, <1>3
  <2>2. Moves(s, s)
      BY <1>4, MovesQuietly
  <2> QED BY <1>1, <2>1, <2>2
<1>6. ASSUME NEW i \in 1 .. k, i - 1 \in S PROVE i \in S
  <2>1. after[i] = Perform(after[i - 1], do[i]) /\ do[i] \in TriggerAction
      BY <1>1, <1>3
  <2>2. Moves(s, after[i - 1])
      BY <1>6
  <2>3. Moves(after[i - 1], after[i])
    <3>1. Good(after[i - 1])
        BY <2>2 DEF Moves
    <3> QED BY <2>1, <3>1, PerformMoves
  <2>4. Moves(s, after[i])
      BY <1>4, <2>2, <2>3, MovesOn
  <2> QED BY <1>1, <2>4
<1>7. 0 .. k \subseteq S
  <2> HIDE DEF S
  <2> QED BY <1>1, <1>5, <1>6, Induct
<1> QED BY <1>1, <1>2, <1>7 DEF s

-----------------------------------------------------------------------------
(* What a step of the node tells.                                          *)

\* m is n after telling of every change of the run.
Reports(n, m) ==
    \E told \in Seq(Message) :
        m.outbox = n.outbox \o told /\ Tracks(Current(n), told, Current(m))

LEMMA CurrentType ==
    ASSUME NEW n, Good(n) PROVE Current(n) \in Nat /\ Current(n) <= n.run_seq /\ Agrees(n, Current(n))
<1>1. n.run_id = n.run_seq /\ n.run_seq \in Nat
    BY DEF Good, Node
<1>2. CASE n.run_state = "running"
    BY <1>1, <1>2 DEF Current, Agrees
<1>3. CASE n.run_state # "running"
    BY <1>1, <1>3 DEF Current, Agrees, NoRun
<1> QED BY <1>2, <1>3

LEMMA ReportsNothing ==
    ASSUME NEW n, NEW m, Good(n), m.outbox = n.outbox, Current(m) = Current(n)
    PROVE  Reports(n, m)
<1>1. <<>> \in Seq(Message) /\ m.outbox = n.outbox \o <<>>
    BY DEF Good, Node
<1>2. Tracks(Current(n), <<>>, Current(m))
    BY CurrentType, TracksNil
<1> QED BY <1>1, <1>2 DEF Reports

LEMMA ReportsOn ==
    ASSUME NEW n, NEW m, NEW l, Good(n), Good(m), Good(l), Reports(n, m), Reports(m, l)
    PROVE  Reports(n, l)
<1>1. PICK p \in Seq(Message) : m.outbox = n.outbox \o p /\ Tracks(Current(n), p, Current(m))
    BY DEF Reports
<1>2. PICK q \in Seq(Message) : l.outbox = m.outbox \o q /\ Tracks(Current(m), q, Current(l))
    BY DEF Reports
<1>3. p \o q \in Seq(Message) /\ l.outbox = n.outbox \o (p \o q)
  <2>1. n.outbox \in Seq(Message)
      BY DEF Good, Node
  <2>2. (n.outbox \o p) \o q = n.outbox \o (p \o q)
      BY <2>1, InOrder
  <2>3. p \o q \in Seq(Message)
      OBVIOUS
  <2> QED BY <1>1, <1>2, <2>2, <2>3
<1>4. Tracks(Current(n), p \o q, Current(l))
    BY <1>1, <1>2, CurrentType, TracksConcat
<1> QED BY <1>3, <1>4 DEF Reports

\* What methods tell is enough when they leave the run running or done.
LEMMA MovesReports ==
    ASSUME NEW n, NEW m, Good(n), Moves(n, m), m.run_state \in {"running", "done"}
    PROVE  Reports(n, m)
<1>1. PICK told \in Seq(Message) :
          /\ m.outbox = n.outbox \o told
          /\ \A c \in Nat : Agrees(n, c) => \E d \in Nat : Agrees(m, d) /\ Tracks(c, told, d)
    BY DEF Moves
<1>2. PICK d \in Nat : Agrees(m, d) /\ Tracks(Current(n), told, d)
    BY <1>1, CurrentType
<1>3. d = Current(m)
    BY <1>2 DEF Agrees, Current
<1> QED BY <1>1, <1>2, <1>3 DEF Reports

\* EXP_STATE repeats what the station knows, whatever the state.
LEMMA EmitReports ==
    ASSUME NEW n, Good(n)
    PROVE  LET m == EmitExpState(n)
           IN /\ Good(m) /\ Reports(n, m)
              /\ m.run_state = n.run_state /\ m.run_id = n.run_id /\ m.run_seq = n.run_seq
              /\ m.spec = n.spec /\ m.since = n.since /\ m.fired = n.fired
<1> DEFINE f == ExpState(n)
           m == [n EXCEPT !.outbox = Append(@, f)]
<1>1. /\ n \in Node /\ n.run_seq \in Nat /\ n.outbox \in Seq(Message) /\ n.run_id = n.run_seq
      /\ n.run_state \in State
      /\ \A i \in DOMAIN n.outbox : n.outbox[i].run <= n.run_seq
    BY DEF Good, Node
<1>2. /\ f \in Message /\ f.run = n.run_seq /\ f.kind = "EXP_STATE" /\ f.state = n.run_state
    BY <1>1 DEF ExpState, Message
<1>3. EmitExpState(n) = m
    BY DEF EmitExpState
<1> HIDE DEF f
<1>4. /\ Append(n.outbox, f) \in Seq(Message)
      /\ \A i \in DOMAIN Append(n.outbox, f) : Append(n.outbox, f)[i].run <= n.run_seq
  <2>1. f.run <= n.run_seq
      BY <1>1, <1>2
  <2> QED BY <1>1, <1>2, <2>1, Told
<1>5. m \in Node
    BY <1>1, <1>4 DEF Node
<1>6. /\ m.run_state = n.run_state /\ m.run_id = n.run_id /\ m.run_seq = n.run_seq
      /\ m.spec = n.spec /\ m.since = n.since /\ m.fired = n.fired
      /\ m.outbox = Append(n.outbox, f) /\ m.rate = n.rate /\ m.saved = n.saved
    BY <1>1 DEF Node
<1> HIDE DEF m
<1>7. Good(m)
    BY <1>4, <1>5, <1>6 DEF Good
<1>8. Reports(n, m)
  <2>1. Heard(Current(n), f) = Current(m)
      BY <1>1, <1>2, <1>6 DEF Heard, Current, Final, NoRun
  <2>2. Tracks(Current(n), <<f>>, Current(m))
      BY <1>2, <2>1, CurrentType, TracksOne
  <2>3. <<f>> \in Seq(Message) /\ m.outbox = n.outbox \o <<f>>
      BY <1>1, <1>2, <1>6
  <2> QED BY <2>2, <2>3 DEF Reports
<1> QED BY <1>3, <1>6, <1>7, <1>8

\* The clocks of the node, and a burst that is over, concern nobody else.
Silent(n, m) ==
    /\ Good(m)
    /\ m.run_state = n.run_state /\ m.run_id = n.run_id /\ m.run_seq = n.run_seq
    /\ m.spec = n.spec /\ m.outbox = n.outbox /\ m.fired = n.fired

LEMMA LaterType == ASSUME NEW t \in 0 .. Horizon PROVE Later(t) \in 0 .. Horizon
BY SpecsAssumption DEF Later

LEMMA AgedIs ==
    ASSUME NEW n, Good(n)
    PROVE  /\ Silent(n, Aged(n))
           /\ n.run_state = "running" =>
                 Aged(n).since = IF n.since = None THEN None ELSE Later(n.since)
<1> DEFINE u == Later(n.uptime)
           e == IF n.run_state = "running" /\ n.elapsed # None THEN Later(n.elapsed) ELSE n.elapsed
           s == IF n.run_state = "running" /\ n.since # None THEN Later(n.since) ELSE n.since
           b == IF n.burst_left = 0 THEN 0 ELSE n.burst_left - 1
           m == [n EXCEPT !.uptime = u, !.elapsed = e, !.since = s, !.burst_left = b]
<1>1. n \in Node
    BY DEF Good
<1>2. Aged(n) = m
    BY <1>1 DEF Aged, Node
<1>3. /\ u \in 0 .. Horizon /\ e \in 0 .. Horizon /\ s \in (0 .. Horizon) \cup {None}
      /\ b \in 0 .. BurstTicks
  <2>1. /\ n.uptime \in 0 .. Horizon /\ n.elapsed \in 0 .. Horizon
        /\ n.since \in (0 .. Horizon) \cup {None} /\ n.burst_left \in 0 .. BurstTicks
      BY <1>1 DEF Node
  <2>2. u \in 0 .. Horizon /\ e \in 0 .. Horizon /\ s \in (0 .. Horizon) \cup {None}
      BY <2>1, LaterType
  <2>3. b \in 0 .. BurstTicks
      BY <2>1, SpecsAssumption
  <2> QED BY <2>2, <2>3
<1>4. n.run_state = "running" => s = IF n.since = None THEN None ELSE Later(n.since)
    OBVIOUS
<1> HIDE DEF u, e, s, b
<1>5. m \in Node
    BY <1>1, <1>3 DEF Node
<1>6. /\ m.run_state = n.run_state /\ m.run_id = n.run_id /\ m.run_seq = n.run_seq
      /\ m.spec = n.spec /\ m.outbox = n.outbox /\ m.fired = n.fired
      /\ m.rate = n.rate /\ m.saved = n.saved /\ m.since = s
    BY <1>1 DEF Node
<1> HIDE DEF m
<1>7. Good(m)
    BY <1>5, <1>6 DEF Good
<1> QED BY <1>2, <1>4, <1>6, <1>7 DEF Silent

LEMMA ExpireIs ==
    ASSUME NEW n, Good(n)
    PROVE  /\ Silent(n, ExpireBurst(n))
           /\ ExpireBurst(n).since = n.since /\ ExpireBurst(n).elapsed = n.elapsed
<1>1. CASE n.saved # "none" /\ n.burst_left = 0
  <2> DEFINE m == [n EXCEPT !.rate = n.saved, !.saved = "none"]
  <2>1. n \in Node
      BY DEF Good
  <2>2. n.saved \in Rate \ {"burst"}
      BY <1>1, <2>1 DEF Node
  <2>3. m \in Node
      BY <2>1, <2>2 DEF Node
  <2>4. /\ m.run_state = n.run_state /\ m.run_id = n.run_id /\ m.run_seq = n.run_seq
        /\ m.spec = n.spec /\ m.outbox = n.outbox /\ m.fired = n.fired
        /\ m.rate = n.saved /\ m.since = n.since /\ m.elapsed = n.elapsed
      BY <2>1 DEF Node
  <2>5. ExpireBurst(n) = m
      BY <1>1 DEF ExpireBurst
  <2> HIDE DEF m
  <2>6. Good(m)
      BY <2>2, <2>3, <2>4 DEF Good
  <2> QED BY <2>4, <2>5, <2>6 DEF Silent
<1>2. CASE ~(n.saved # "none" /\ n.burst_left = 0)
  <2>1. ExpireBurst(n) = n
      BY <1>2 DEF ExpireBurst
  <2> QED BY <2>1 DEF Silent
<1> QED BY <1>1, <1>2

\* m is where n is after an iteration of the master loop.
Continues(n, m) ==
    /\ Good(m) /\ m.spec = n.spec /\ m.run_seq >= n.run_seq
    /\ m.run_seq # n.run_seq => ~m.fired /\ m.since = None
    /\ CutShort(n, m) \/ Reports(n, m)

LEMMA MovesContinue ==
    ASSUME NEW n, NEW m, Good(n), Moves(n, m),
           n.run_state = "running" \/ m.run_state \in {"running", "done"}
    PROVE  Continues(n, m)
<1>1. CutShort(n, m) \/ Reports(n, m)
  <2>1. CASE m.run_state \in {"running", "done"}
      BY <2>1, MovesReports
  <2>2. CASE m.run_state \notin {"running", "done"}
      BY <2>2 DEF CutShort
  <2> QED BY <2>1, <2>2
<1>2. /\ Good(m) /\ m.spec = n.spec /\ m.run_seq >= n.run_seq
      /\ m.run_seq # n.run_seq => ~m.fired /\ m.since = None
    BY DEF Moves
<1> QED BY <1>1, <1>2 DEF Continues

LEMMA SilentContinue ==
    ASSUME NEW n, NEW p, NEW m, Silent(n, p), Continues(p, m) PROVE Continues(n, m)
<1>1. /\ p.run_state = n.run_state /\ p.run_id = n.run_id /\ p.run_seq = n.run_seq
      /\ p.spec = n.spec /\ p.outbox = n.outbox /\ Current(p) = Current(n)
    BY DEF Silent, Current
<1>2. (CutShort(p, m) => CutShort(n, m)) /\ (Reports(p, m) => Reports(n, m))
    BY <1>1 DEF CutShort, Reports
<1>3. /\ Good(m) /\ m.spec = p.spec /\ m.run_seq >= p.run_seq
      /\ m.run_seq # p.run_seq => ~m.fired /\ m.since = None
      /\ CutShort(p, m) \/ Reports(p, m)
    BY DEF Continues
<1> QED BY <1>1, <1>2, <1>3 DEF Continues

LEMMA StaysContinue ==
    ASSUME NEW n, NEW m, Good(n), Good(m), m.spec = n.spec, m.run_seq = n.run_seq,
           m.run_state = n.run_state, m.run_id = n.run_id, m.outbox = n.outbox
    PROVE  Continues(n, m)
<1>1. Reports(n, m)
    BY ReportsNothing DEF Current
<1>2. m.run_seq >= n.run_seq
    BY DEF Good, Node
<1> QED BY <1>1, <1>2 DEF Continues

\* What a trigger remembers of its condition.
Remembers(n, cond, m) ==
    /\ m.fired = (n.fired \/ Fires(n, cond))
    /\ m.since = IF Spent(n) THEN n.since
                 ELSE IF ~cond \/ Fires(n, cond) THEN None
                 ELSE IF n.since = None THEN 0 ELSE n.since

LEMMA EvaluateIs ==
    ASSUME NEW n, Good(n), n.run_state = "running", NEW cond \in BOOLEAN
    PROVE  /\ Continues(n, EvaluateTrigger(n, cond))
           /\ EvaluateTrigger(n, cond).run_seq = n.run_seq
                => Remembers(n, cond, EvaluateTrigger(n, cond))
<1> DEFINE l == EvaluateTrigger(n, cond)
<1>1. /\ n \in Node /\ n.spec \in Specs /\ n.fired \in BOOLEAN
      /\ n.since \in (0 .. Horizon) \cup {None} /\ 0 \in 0 .. Horizon
    BY SpecsAssumption DEF Good, Node
<1>2. ASSUME NEW m, Good(m), m.spec = n.spec, m.run_seq = n.run_seq, m.run_state = n.run_state,
             m.run_id = n.run_id, m.outbox = n.outbox
      PROVE  Continues(n, m)
    BY <1>2, StaysContinue
<1>3. CASE Spent(n)
  <2>1. l = n
      BY <1>3 DEF EvaluateTrigger
  <2>2. Remembers(n, cond, n)
      BY <1>1, <1>3 DEF Remembers, Fires
  <2> QED BY <1>2, <2>1, <2>2
<1>4. CASE ~Spent(n) /\ ~Fires(n, cond)
  <2> DEFINE s == IF ~cond THEN None ELSE IF n.since = None THEN 0 ELSE n.since
             m == [n EXCEPT !.since = s]
  <2>1. l = m
      BY <1>1, <1>4 DEF EvaluateTrigger, Node
  <2>2. s \in (0 .. Horizon) \cup {None}
      BY <1>1
  <2>3. m \in Node
    <3> HIDE DEF s
    <3> QED BY <1>1, <2>2 DEF Node
  <2>4. /\ m.run_state = n.run_state /\ m.run_id = n.run_id /\ m.run_seq = n.run_seq
        /\ m.spec = n.spec /\ m.outbox = n.outbox /\ m.fired = n.fired
        /\ m.rate = n.rate /\ m.saved = n.saved /\ m.since = s
    <3> HIDE DEF s
    <3> QED BY <1>1 DEF Node
  <2> HIDE DEF m, l
  <2>5. Good(m)
      BY <2>3, <2>4 DEF Good
  <2>6. Remembers(n, cond, m)
      BY <1>1, <1>4, <2>4 DEF Remembers
  <2> QED BY <1>2, <2>1, <2>4, <2>5, <2>6 DEF l
<1>5. CASE ~Spent(n) /\ Fires(n, cond)
  <2> DEFINE m == [n EXCEPT !.since = None, !.fired = TRUE]
  <2>1. l = FireTrigger(n)
      BY <1>5 DEF EvaluateTrigger, Fires
  <2>2. m \in Node
      BY <1>1 DEF Node
  <2>3. /\ m.run_state = n.run_state /\ m.run_id = n.run_id /\ m.run_seq = n.run_seq
        /\ m.spec = n.spec /\ m.outbox = n.outbox /\ m.fired /\ m.since = None
        /\ m.rate = n.rate /\ m.saved = n.saved
      BY <1>1 DEF Node
  <2>4. Moves(m, l)
      BY <1>1, <2>1, FireTriggerMoves
  <2> HIDE DEF m, l
  <2>5. Good(m)
      BY <2>2, <2>3 DEF Good
  <2>6. Continues(m, l)
      BY <2>3, <2>4, <2>5, MovesContinue
  <2>7. Continues(n, l)
    <3>1. Current(m) = Current(n)
        BY <2>3 DEF Current
    <3>2. (CutShort(m, l) => CutShort(n, l)) /\ (Reports(m, l) => Reports(n, l))
        BY <2>3, <3>1 DEF CutShort, Reports
    <3> QED BY <2>3, <2>6, <3>2 DEF Continues
  <2>8. l.run_seq = n.run_seq => Remembers(n, cond, l)
    <3>1. l.run_seq = n.run_seq => l.fired = m.fired /\ l.since = m.since
        BY <2>3, <2>4 DEF Moves
    <3>2. m.fired = TRUE
        BY <2>2, <2>3 DEF Node
    <3> QED BY <1>5, <2>3, <3>1, <3>2 DEF Remembers
  <2> QED BY <2>7, <2>8 DEF l
<1> QED BY <1>3, <1>4, <1>5

LEMMA LifecycleIs ==
    ASSUME NEW n, Good(n), NEW cond \in BOOLEAN
    PROVE  LET m == Lifecycle(n, cond)
           IN /\ Continues(n, m)
              /\ n.run_state # "running" /\ m.run_seq = n.run_seq => m.run_state # "running"
              /\ n.run_state = "running" /\ DurationOver(n) => m.run_state = "done"
              /\ n.run_state = "running" /\ ~DurationOver(n) /\ m.run_seq = n.run_seq
                    => Remembers(n, cond, m)
<1> DEFINE p == ExpireBurst(n)
           m == Lifecycle(n, cond)
<1>1. Silent(n, p) /\ p.since = n.since /\ p.elapsed = n.elapsed
    BY ExpireIs
<1>2. /\ Good(p) /\ p.run_state = n.run_state /\ p.run_seq = n.run_seq
      /\ p.spec = n.spec /\ p.fired = n.fired
    BY <1>1 DEF Silent
<1>3. /\ DurationOver(p) <=> DurationOver(n)
      /\ \A l : Remembers(p, cond, l) => Remembers(n, cond, l)
  <2>1. Fires(p, cond) = Fires(n, cond) /\ Spent(p) = Spent(n)
      BY <1>1, <1>2 DEF Fires, Spent
  <2> QED BY <1>1, <1>2, <2>1 DEF DurationOver, Remembers
<1>4. m = IF p.run_state = "running" THEN Advance(p, cond)
          ELSE IF p.run_state = "armed" /\ p.spec.mode = "at_ms" /\ p.uptime >= p.spec.at
               THEN StartRun(p)
          ELSE p
    BY DEF Lifecycle
<1> HIDE DEF p, m
<1>5. CASE p.run_state = "running" /\ DurationOver(p)
  <2>1. m = EndRun(p)
      BY <1>4, <1>5 DEF Advance
  <2>2. m.run_state = "done"
      BY <1>2, <2>1, EndRunIs
  <2>3. Continues(p, m)
      BY <1>2, <1>5, <2>1, EndRunMoves, MovesContinue
  <2>4. Continues(n, m)
      BY <1>1, <2>3, SilentContinue
  <2> QED BY <1>2, <1>3, <1>5, <2>2, <2>4 DEF m, p
<1>6. CASE p.run_state = "running" /\ ~DurationOver(p)
  <2>1. m = EvaluateTrigger(p, cond)
      BY <1>4, <1>6 DEF Advance
  <2>2. Continues(p, m) /\ (m.run_seq = p.run_seq => Remembers(p, cond, m))
      BY <1>2, <1>6, <2>1, EvaluateIs
  <2>3. Continues(n, m)
      BY <1>1, <2>2, SilentContinue
  <2> QED BY <1>2, <1>3, <1>6, <2>2, <2>3 DEF m, p
<1>7. CASE p.run_state = "armed" /\ p.spec.mode = "at_ms" /\ p.uptime >= p.spec.at
  <2>1. m = StartRun(p) /\ p.spec # NoSpec
      BY <1>2, <1>4, <1>7 DEF Good
  <2>2. m.run_state = "running" /\ m.run_seq = p.run_seq + 1 /\ p.run_seq \in Nat
      BY <1>2, <2>1, StartRunIs DEF Good, Node
  <2>3. Continues(p, m)
      BY <1>2, <2>1, <2>2, StartRunMoves, MovesContinue
  <2>4. Continues(n, m)
      BY <1>1, <2>3, SilentContinue
  <2> QED BY <1>2, <1>7, <2>2, <2>4 DEF m, p
<1>8. CASE /\ p.run_state # "running"
           /\ ~(p.run_state = "armed" /\ p.spec.mode = "at_ms" /\ p.uptime >= p.spec.at)
  <2>1. m = p
      BY <1>4, <1>8
  <2>2. Continues(p, p)
      BY <1>2, StaysContinue
  <2>3. Continues(n, m)
      BY <1>1, <2>1, <2>2, SilentContinue
  <2> QED BY <1>2, <1>8, <2>1, <2>3 DEF m, p
<1> QED BY <1>5, <1>6, <1>7, <1>8

\* No message tells of a run after the k-th.
Bounded(q, k) == \A i \in DOMAIN q : q[i].run <= k

LEMMA BoundedConcat ==
    ASSUME NEW p \in Seq(Message), NEW q \in Seq(Message), NEW k \in Nat
    PROVE  /\ p \o q \in Seq(Message)
           /\ Bounded(p \o q, k) <=> Bounded(p, k) /\ Bounded(q, k)
<1> DEFINE r == p \o q
           a == Len(p)
           b == Len(q)
<1>1. /\ r \in Seq(Message) /\ a \in Nat /\ b \in Nat
      /\ DOMAIN p = 1 .. a /\ DOMAIN q = 1 .. b /\ DOMAIN r = 1 .. a + b
      /\ \A i \in 1 .. a : r[i] = p[i]
      /\ \A i \in 1 .. b : r[a + i] = q[i]
    OBVIOUS
<1> HIDE DEF r, a, b
<1>2. /\ \A i \in 1 .. a : i \in 1 .. a + b
      /\ \A i \in 1 .. b : a + i \in 1 .. a + b
      /\ \A i \in 1 .. a + b : i \in 1 .. a \/ (i - a \in 1 .. b /\ i = a + (i - a))
    BY <1>1
<1>3. (\A i \in DOMAIN r : r[i].run <= k) =>
        (\A i \in DOMAIN p : p[i].run <= k) /\ (\A i \in DOMAIN q : q[i].run <= k)
    BY <1>1, <1>2
<1>4. ASSUME \A i \in DOMAIN p : p[i].run <= k, \A i \in DOMAIN q : q[i].run <= k,
             NEW i \in DOMAIN r
      PROVE  r[i].run <= k
  <2>1. CASE i \in 1 .. a
      BY <1>1, <1>4, <2>1
  <2>2. CASE i - a \in 1 .. b /\ i = a + (i - a)
    <3>1. r[i] = q[i - a]
        BY <1>1, <2>2
    <3> QED BY <1>1, <1>4, <2>2, <3>1
  <2> QED BY <1>1, <1>2, <2>1, <2>2
<1> QED BY <1>1, <1>3, <1>4 DEF Bounded, r

LEMMA BacklogType ==
    ASSUME NEW q \in Backlogs, NEW r \in Run
    PROVE  Newest(Append(q, r)) \in Backlogs /\ <<>> \in Backlogs
<1>1. /\ q \in Seq(Run) /\ Len(q) <= BacklogDepth /\ Len(q) \in Nat /\ BacklogDepth \in Nat \ {0}
    BY SpecsAssumption DEF Backlogs
<1>2. /\ Append(q, r) \in Seq(Run) /\ Len(Append(q, r)) = Len(q) + 1 /\ Append(q, r) # <<>>
    BY <1>1
<1>3. Tail(Append(q, r)) \in Seq(Run) /\ Len(Tail(Append(q, r))) = Len(q)
    BY <1>1, <1>2
<1>4. <<>> \in Backlogs
    BY <1>1 DEF Backlogs
<1> QED BY <1>1, <1>2, <1>3, <1>4 DEF Newest, Backlogs

LEMMA RunsAreNumbers == ASSUME NEW q \in Seq(Run) PROVE q \in Seq(Nat)
<1>1. Len(q) \in Nat /\ q \in [1 .. Len(q) -> Run]
    OBVIOUS
<1>2. \A r \in Run : r \in Nat
    BY SpecsAssumption DEF Run
<1>3. q \in [1 .. Len(q) -> Nat]
    BY <1>1, <1>2
<1> QED BY <1>1, <1>3

\* A telemetry frame sent now: it tells the station nothing.
LEMMA TelemetryTells ==
    ASSUME NEW n, Good(n), NEW of \in Seq(Nat), NEW replay \in BOOLEAN,
           ~replay => of = <<Current(n)>>
    PROVE  LET f == Telemetry(n, of, replay)
           IN /\ <<f>> \in Seq(Message) /\ Bounded(<<f>>, n.run_seq)
              /\ Tracks(Current(n), <<f>>, Current(n))
<1> DEFINE f == Telemetry(n, of, replay)
<1>1. Current(n) \in Nat /\ Current(n) <= n.run_seq
    BY CurrentType
<1>2. f \in Message /\ f.kind = "TELEMETRY" /\ f.run = Current(n)
    BY <1>1 DEF Telemetry, Message
<1> HIDE DEF f
<1>3. Heard(Current(n), f) = Current(n)
    BY <1>2 DEF Heard
<1>4. Tracks(Current(n), <<f>>, Current(n))
    BY <1>1, <1>2, <1>3, TracksOne
<1> QED BY <1>1, <1>2, <1>4 DEF Bounded, f

\* Sampling tells the station nothing either, and leaves the run alone.
Samples(n, l) ==
    /\ Good(l) /\ Reports(n, l)
    /\ l.run_state = n.run_state /\ l.run_id = n.run_id /\ l.run_seq = n.run_seq
    /\ l.spec = n.spec /\ l.since = n.since /\ l.fired = n.fired /\ l.elapsed = n.elapsed

LEMMA SampledIs ==
    ASSUME NEW n, Good(n), n.run_seq \in Run, NEW due \in BOOLEAN
    PROVE  Samples(n, Sampled(n, due))
<1>1. /\ n \in Node /\ n.outbox \in Seq(Message) /\ n.backlog \in Backlogs
      /\ n.run_seq \in Nat /\ Bounded(n.outbox, n.run_seq)
    BY DEF Good, Node, Bounded
<1>2. Current(n) \in Nat /\ Current(n) \in Run
    BY CurrentType, SpecsAssumption DEF Run
<1>3. CASE ~due
  <2>1. Sampled(n, due) = n
      BY <1>3 DEF Sampled
  <2> QED BY <2>1, ReportsNothing DEF Samples
<1>4. CASE due /\ n.link_dropped
  <2> DEFINE q == Newest(Append(n.backlog, Current(n)))
             l == [n EXCEPT !.backlog = q]
  <2>1. Sampled(n, due) = l
      BY <1>4 DEF Sampled
  <2>2. q \in Backlogs
      BY <1>1, <1>2, BacklogType
  <2> HIDE DEF q
  <2>3. l \in Node
      BY <1>1, <2>2 DEF Node
  <2>4. /\ l.run_state = n.run_state /\ l.run_id = n.run_id /\ l.run_seq = n.run_seq
        /\ l.spec = n.spec /\ l.since = n.since /\ l.fired = n.fired
        /\ l.elapsed = n.elapsed /\ l.outbox = n.outbox /\ l.rate = n.rate /\ l.saved = n.saved
      BY <1>1 DEF Node
  <2> HIDE DEF l
  <2>5. Good(l)
      BY <2>3, <2>4 DEF Good
  <2>6. Reports(n, l)
      BY <2>4, ReportsNothing DEF Current
  <2> QED BY <2>1, <2>4, <2>5, <2>6 DEF Samples
<1>5. CASE due /\ ~n.link_dropped
  <2> DEFINE c == Current(n)
             held == IF n.backlog = <<>> THEN <<>> ELSE <<Telemetry(n, n.backlog, TRUE)>>
             live == <<Telemetry(n, <<c>>, FALSE)>>
             box == (n.outbox \o held) \o live
             l == [n EXCEPT !.backlog = <<>>, !.outbox = box]
  <2>1. Sampled(n, due) = l
      BY <1>1, <1>5 DEF Sampled, Node
  <2>2. live \in Seq(Message) /\ Bounded(live, n.run_seq) /\ Tracks(c, live, c)
    <3>1. <<c>> \in Seq(Nat)
        BY <1>2
    <3>2. FALSE \in BOOLEAN /\ (~FALSE => <<c>> = <<Current(n)>>)
        OBVIOUS
    <3> HIDE DEF c
    <3> QED BY <3>1, <3>2, TelemetryTells DEF c
  <2>3. held \in Seq(Message) /\ Bounded(held, n.run_seq) /\ Tracks(c, held, c)
    <3>1. CASE n.backlog = <<>>
        BY <1>2, <3>1, TracksNil DEF Bounded
    <3>2. CASE n.backlog # <<>>
      <4>1. n.backlog \in Seq(Nat)
        <5>1. n.backlog \in Seq(Run)
            BY <1>1 DEF Backlogs
        <5> QED BY <5>1, RunsAreNumbers
      <4> QED BY <3>2, <4>1, TelemetryTells
    <3> QED BY <3>1, <3>2
  <2> HIDE DEF held, live
  <2>4. c \in Nat
      BY <1>2
  <2> HIDE DEF c
  <2>5. held \o live \in Seq(Message) /\ Tracks(c, held \o live, c)
      BY <2>2, <2>3, <2>4, TracksConcat
  <2>6. box \in Seq(Message) /\ Bounded(box, n.run_seq)
    <3>1. n.outbox \o held \in Seq(Message) /\ Bounded(n.outbox \o held, n.run_seq)
        BY <1>1, <2>3, BoundedConcat
    <3> QED BY <1>1, <2>2, <3>1, BoundedConcat
  <2>7. box = n.outbox \o (held \o live)
      BY <1>1, <2>2, <2>3, InOrder
  <2>8. <<>> \in Backlogs
      BY <1>1, <1>2, BacklogType
  <2> HIDE DEF box
  <2>9. l \in Node
      BY <1>1, <2>6, <2>8 DEF Node
  <2>10. /\ l.run_state = n.run_state /\ l.run_id = n.run_id /\ l.run_seq = n.run_seq
         /\ l.spec = n.spec /\ l.since = n.since /\ l.fired = n.fired
         /\ l.elapsed = n.elapsed /\ l.outbox = box /\ l.rate = n.rate /\ l.saved = n.saved
      BY <1>1 DEF Node
  <2> HIDE DEF l
  <2>11. Good(l)
      BY <2>6, <2>9, <2>10 DEF Good, Bounded
  <2>12. Reports(n, l)
    <3>1. Current(l) = c
        BY <2>10 DEF Current, c
    <3> QED BY <2>5, <2>7, <2>10, <3>1 DEF Reports, c
  <2> QED BY <2>1, <2>10, <2>11, <2>12 DEF Samples
<1> QED BY <1>3, <1>4, <1>5

\* A whole iteration: the sample goes before whatever the iteration tells.
LEMMA IteratedIs ==
    ASSUME NEW n, Good(n), n.run_seq \in Run, NEW due \in BOOLEAN, NEW cond \in BOOLEAN
    PROVE  LET m == Iterated(n, due, cond)
           IN /\ Continues(n, m)
              /\ n.run_state # "running" /\ m.run_seq = n.run_seq => m.run_state # "running"
              /\ n.run_state = "running" /\ DurationOver(n) => m.run_state = "done"
              /\ n.run_state = "running" /\ ~DurationOver(n) /\ m.run_seq = n.run_seq
                    => Remembers(n, cond, m)
<1> DEFINE l == Sampled(n, due)
           m == Lifecycle(l, cond)
<1>1. Samples(n, l)
    BY SampledIs
<1>2. Iterated(n, due, cond) = m
    BY DEF Iterated
<1> HIDE DEF l
<1>3. /\ Good(l) /\ Reports(n, l) /\ l.run_state = n.run_state /\ l.run_id = n.run_id
      /\ l.run_seq = n.run_seq /\ l.spec = n.spec /\ l.since = n.since
      /\ l.fired = n.fired /\ l.elapsed = n.elapsed
    BY <1>1 DEF Samples
<1>4. /\ Continues(l, m)
      /\ l.run_state # "running" /\ m.run_seq = l.run_seq => m.run_state # "running"
      /\ l.run_state = "running" /\ DurationOver(l) => m.run_state = "done"
      /\ l.run_state = "running" /\ ~DurationOver(l) /\ m.run_seq = l.run_seq
            => Remembers(l, cond, m)
    BY <1>3, LifecycleIs
<1> HIDE DEF m
<1>5. DurationOver(l) = DurationOver(n) /\ (Remembers(l, cond, m) => Remembers(n, cond, m))
  <2>1. Fires(l, cond) = Fires(n, cond) /\ Spent(l) = Spent(n)
      BY <1>3 DEF Fires, Spent
  <2> QED BY <1>3, <2>1 DEF DurationOver, Remembers
<1>6. Continues(n, m)
  <2>1. CutShort(l, m) => CutShort(n, m)
      BY <1>3 DEF CutShort
  <2>2. Good(m) /\ (Reports(l, m) => Reports(n, m))
      BY <1>3, <1>4, ReportsOn DEF Continues
  <2>3. /\ m.spec = l.spec /\ m.run_seq >= l.run_seq
        /\ m.run_seq # l.run_seq => ~m.fired /\ m.since = None
        /\ CutShort(l, m) \/ Reports(l, m)
      BY <1>4 DEF Continues
  <2> QED BY <1>3, <2>1, <2>2, <2>3 DEF Continues
<1> QED BY <1>2, <1>3, <1>4, <1>5, <1>6

-----------------------------------------------------------------------------
(* The invariant.                                                          *)

Types ==
    /\ Good(node) /\ node.run_seq \in Run
    /\ active_run \in Run /\ DOMAIN runs \subseteq Run
    /\ ops \in 0 .. MaxOps /\ interrupted \in BOOLEAN

\* The station, once it has heard what is in flight, believes in the run of the node,
\* and files every sample in flight under the run it was sent in.
FiledRight == \A s \in samples : s.tag = IF s.replay THEN s.sent ELSE s.run

Believes ==
    ~interrupted => /\ Tracks(active_run, node.outbox, Current(node))
                    /\ FiledRight

FiledInv == Types /\ Believes

LEMMA InitFiled == ASSUME Init PROVE FiledInv
<1>1. /\ 0 \in 0 .. Horizon /\ 0 \in 0 .. BurstTicks /\ 0 \in Run /\ 0 \in 0 .. MaxOps
      /\ <<>> \in Backlogs
    BY SpecsAssumption DEF Run, Backlogs
<1>2. node \in Node
    BY <1>1 DEF Init, Node, State, Rate, NoRun, None
<1>3. Good(node) /\ node.run_seq \in Run
  <2>1. node.outbox = <<>> /\ node.run_id = 0 /\ node.run_seq = 0 /\ node.run_state = "idle"
        /\ node.rate = "declared"
      BY DEF Init, NoRun
  <2> QED BY <1>1, <1>2, <2>1 DEF Good
<1>4. Types
    BY <1>1, <1>3 DEF Init, Types, NoRun
<1>5. Believes
  <2>1. node.outbox = <<>> /\ Current(node) = NoRun /\ active_run = NoRun /\ samples = {}
      BY DEF Init, Current
  <2> QED BY <2>1, TracksNil DEF Believes, FiledRight, NoRun
<1> QED BY <1>4, <1>5 DEF FiledInv

\* The node has told what it did.
LEMMA NodeStep ==
    ASSUME FiledInv, Good(node'), node'.run_seq \in Run, ops' \in 0 .. MaxOps,
           interrupted' \in BOOLEAN, interrupted => interrupted', UNCHANGED gateway,
           interrupted' \/ Reports(node, node')
    PROVE  FiledInv'
<1>1. active_run' = active_run /\ runs' = runs /\ samples' = samples
    BY DEF gateway
<1>2. Types'
    BY <1>1 DEF FiledInv, Types
<1>3. Believes'
  <2>1. SUFFICES ASSUME ~interrupted'
                 PROVE  /\ Tracks(active_run, node'.outbox, Current(node'))
                        /\ FiledRight
      BY <1>1 DEF Believes, FiledRight, Current
  <2>2. Tracks(active_run, node.outbox, Current(node)) /\ FiledRight
      BY <2>1 DEF FiledInv, Believes
  <2>3. PICK told \in Seq(Message) :
            node'.outbox = node.outbox \o told /\ Tracks(Current(node), told, Current(node'))
      BY <2>1 DEF Reports
  <2>4. active_run \in Nat /\ Good(node)
      BY SpecsAssumption DEF FiledInv, Types, Run
  <2>5. Current(node) \in Nat /\ Current(node') \in Nat
      BY <2>4, CurrentType
  <2>6. node.outbox \in Seq(Message)
      BY <2>4 DEF Good, Node
  <2>7. Tracks(active_run, node.outbox \o told, Current(node'))
      BY <2>2, <2>3, <2>4, <2>5, <2>6, TracksConcat
  <2> QED BY <2>2, <2>3, <2>7, <2>3, <2>4, TracksConcat
<1> QED BY <1>2, <1>3 DEF FiledInv

LEMMA TickFiled == ASSUME FiledInv, Tick PROVE FiledInv'
<1>1. PICK due \in BOOLEAN, cond \in BOOLEAN :
        /\ node' = Iterated(Aged(node), due, cond)
        /\ interrupted' = (interrupted \/ CutShort(Aged(node), node'))
    BY DEF Tick
<1> DEFINE n == Aged(node)
<1>2. Silent(node, n) /\ Good(node) /\ node.run_seq \in Run /\ interrupted \in BOOLEAN
      /\ ops \in 0 .. MaxOps
    BY AgedIs DEF FiledInv, Types
<1>3. Good(n) /\ n.run_seq \in Run /\ n.outbox = node.outbox /\ Current(n) = Current(node)
    BY <1>2 DEF Silent, Current
<1>4. Continues(n, node')
    BY <1>1, <1>3, IteratedIs
<1>5. Good(node') /\ (CutShort(n, node') \/ Reports(n, node'))
    BY <1>4 DEF Continues
<1>6. interrupted' = (interrupted \/ CutShort(n, node'))
    BY <1>1
<1> HIDE DEF n
<1>7. interrupted' \/ Reports(node, node')
    BY <1>3, <1>5, <1>6 DEF Reports
<1>8. node'.run_seq \in Run
    BY <1>5, SpecsAssumption DEF Tick, Good, Node, Run
<1>9. UNCHANGED gateway /\ ops' = ops
    BY DEF Tick
<1>10. interrupted' \in BOOLEAN
    BY <1>2, <1>6 DEF CutShort
<1> QED BY <1>2, <1>5, <1>6, <1>7, <1>8, <1>9, <1>10, NodeStep

LEMMA RequestOps == ASSUME FiledInv, Request PROVE ops' \in 0 .. MaxOps /\ UNCHANGED gateway
BY SpecsAssumption DEF FiledInv, Types, Request

\* A spec is installed; the run it cuts short, if any, was noted.
LEMMA ArmedIs ==
    ASSUME NEW n, Good(n), NEW spec \in Specs
    PROVE  LET m == EmitExpState([n EXCEPT !.spec = spec, !.run_state = "armed"])
           IN /\ Good(m) /\ m.run_state = "armed" /\ m.run_seq = n.run_seq /\ m.spec = spec
              /\ n.run_state # "running" => Reports(n, m)
<1> DEFINE x == [n EXCEPT !.spec = spec, !.run_state = "armed"]
<1>1. n \in Node
    BY DEF Good
<1>2. x \in Node
    BY <1>1 DEF Node, State
<1>3. spec # NoSpec
  <2>1. "mode" \in DOMAIN spec
      BY SpecsAssumption DEF Experiments
  <2>2. DOMAIN NoSpec = {"none"}
      BY DEF NoSpec
  <2> QED BY <2>1, <2>2
<1>4. /\ x.run_state = "armed" /\ x.run_id = n.run_id /\ x.run_seq = n.run_seq
      /\ x.spec = spec /\ x.outbox = n.outbox /\ x.rate = n.rate /\ x.saved = n.saved
    BY <1>1 DEF Node
<1> HIDE DEF x
<1>5. Good(x)
    BY <1>2, <1>3, <1>4 DEF Good
<1>6. /\ Good(EmitExpState(x)) /\ Reports(x, EmitExpState(x))
      /\ EmitExpState(x).run_state = "armed" /\ EmitExpState(x).run_seq = n.run_seq
      /\ EmitExpState(x).spec = spec
    BY <1>4, <1>5, EmitReports
<1>7. ASSUME n.run_state # "running" PROVE Reports(n, EmitExpState(x))
  <2>1. n.outbox = x.outbox /\ Current(n) = Current(x)
      BY <1>4, <1>7 DEF Current
  <2> QED BY <1>6, <2>1 DEF Reports
<1> QED BY <1>6, <1>7 DEF x

\* What the trigger of a running run remembers, and what it has seen and done: the
\* condition has held for at least as long as the node believes.
Debounce ==
    /\ trigger.held \in 0 .. Horizon /\ trigger.shots \in Nat /\ ~trigger.early
    /\ node.run_state = "running" =>
          /\ node.since # None => trigger.held >= node.since + 1 \/ trigger.held = Horizon
          /\ node.spec.once => trigger.shots <= (IF node.fired THEN 1 ELSE 0)
          /\ node.spec.once /\ node.fired => node.since = None

Inv == FiledInv /\ Debounce

LEMMA InitDebounced == ASSUME Init PROVE Debounce
BY SpecsAssumption DEF Init, Debounce

\* A step that is not an evaluation: the run is as it was, a fresh one, or not running.
LEMMA DebounceKept ==
    ASSUME Debounce, trigger' = NoTrigger \/ trigger' = trigger,
           node'.run_state = "running" =>
                \/ trigger' = NoTrigger /\ node'.since = None /\ ~node'.fired
                \/ /\ trigger' = trigger /\ node.run_state = "running"
                   /\ node'.since = node.since /\ node'.fired = node.fired
                   /\ node'.spec = node.spec
    PROVE  Debounce'
<1>1. NoTrigger.held = 0 /\ NoTrigger.shots = 0 /\ ~NoTrigger.early /\ 0 \in 0 .. Horizon
    BY SpecsAssumption DEF NoTrigger
<1>2. CASE trigger' = NoTrigger /\ (node'.run_state = "running" => node'.since = None /\ ~node'.fired)
    BY <1>1, <1>2 DEF Debounce
<1>3. CASE /\ trigger' = trigger
           /\ node'.run_state = "running" =>
                 /\ node.run_state = "running"
                 /\ node'.since = node.since /\ node'.fired = node.fired /\ node'.spec = node.spec
    BY <1>3 DEF Debounce
<1>4. CASE node'.run_state # "running" /\ trigger' = NoTrigger
    BY <1>1, <1>4 DEF Debounce
<1> QED BY <1>2, <1>3, <1>4

LEMMA PushKeeps ==
    ASSUME Inv, NEW spec \in Specs, PushExperiment(spec) PROVE Inv'
<1> DEFINE armed == EmitExpState([node EXCEPT !.spec = spec, !.run_state = "armed"])
<1>1. /\ node' = (IF spec.mode = "on_boot" THEN StartRun(armed) ELSE armed)
      /\ node'.run_seq <= MaxRuns /\ trigger' = NoTrigger
      /\ interrupted' = (interrupted \/ node.run_state = "running")
      /\ ops' \in 0 .. MaxOps /\ UNCHANGED gateway
    BY RequestOps DEF PushExperiment, Inv
<1>2. Good(node) /\ interrupted \in BOOLEAN /\ interrupted' \in BOOLEAN
    BY <1>1 DEF Inv, FiledInv, Types
<1>3. /\ Good(armed) /\ armed.run_state = "armed" /\ armed.spec = spec
      /\ node.run_state # "running" => Reports(node, armed)
    BY <1>2, ArmedIs
<1> HIDE DEF armed
<1>4. CASE spec.mode # "on_boot"
  <2>1. node' = armed
      BY <1>1, <1>4
  <2>2. node'.run_seq \in Run
      BY <1>1, <1>3, <2>1, SpecsAssumption DEF Good, Node, Run
  <2>3. FiledInv'
      BY <1>1, <1>2, <1>3, <2>1, <2>2, NodeStep DEF Inv
  <2>4. Debounce'
      BY <1>1, <1>3, <2>1, DebounceKept DEF Inv
  <2> QED BY <2>3, <2>4 DEF Inv
<1>5. CASE spec.mode = "on_boot"
  <2>1. node' = StartRun(armed) /\ armed.spec # NoSpec
      BY <1>1, <1>3, <1>5 DEF Good
  <2>2. Good(node') /\ node'.run_state = "running" /\ node'.since = None /\ node'.fired = FALSE
      BY <1>3, <2>1, StartRunIs
  <2>3. Reports(armed, node')
      BY <1>3, <2>1, <2>2, StartRunMoves, MovesReports
  <2>4. interrupted' \/ Reports(node, node')
      BY <1>1, <1>2, <1>3, <2>2, <2>3, ReportsOn
  <2>5. node'.run_seq \in Run
      BY <1>1, <2>2, SpecsAssumption DEF Good, Node, Run
  <2>6. FiledInv'
      BY <1>1, <1>2, <2>2, <2>4, <2>5, NodeStep DEF Inv
  <2>7. Debounce'
      BY <1>1, <2>2, DebounceKept DEF Inv
  <2> QED BY <2>6, <2>7 DEF Inv
<1> QED BY <1>4, <1>5

\* A refused spec and exp.state: EXP_STATE and nothing else.
LEMMA RepeatKeeps ==
    ASSUME Inv, Request, node' = EmitExpState(node), UNCHANGED <<interrupted, trigger>>
    PROVE  Inv'
<1>1. /\ Good(node) /\ node.run_seq \in Run /\ interrupted \in BOOLEAN
      /\ ops' \in 0 .. MaxOps /\ UNCHANGED gateway
    BY RequestOps DEF Inv, FiledInv, Types
<1>2. /\ Good(node') /\ Reports(node, node')
      /\ node'.run_state = node.run_state /\ node'.run_seq = node.run_seq
      /\ node'.spec = node.spec /\ node'.since = node.since /\ node'.fired = node.fired
    BY <1>1, EmitReports
<1>3. FiledInv'
    BY <1>1, <1>2, NodeStep DEF Inv
<1>4. Debounce'
    BY <1>2, DebounceKept DEF Inv
<1> QED BY <1>3, <1>4 DEF Inv

LEMMA StartKeeps == ASSUME Inv, CmdStart PROVE Inv'
<1>1. /\ Good(node) /\ node.run_seq \in Run /\ interrupted \in BOOLEAN
      /\ ops' \in 0 .. MaxOps /\ UNCHANGED gateway
    BY RequestOps DEF Inv, FiledInv, Types, CmdStart
<1>2. /\ node.spec # NoSpec /\ node.run_seq < MaxRuns /\ node' = StartRun(node)
      /\ trigger' = NoTrigger /\ interrupted' = interrupted
    BY DEF CmdStart, MayStart
<1>3. /\ Good(node') /\ node'.run_state = "running" /\ node'.since = None /\ node'.fired = FALSE
      /\ node'.run_seq = node.run_seq + 1
    BY <1>1, <1>2, StartRunIs
<1>4. Reports(node, node')
    BY <1>1, <1>2, <1>3, StartRunMoves, MovesReports
<1>5. node'.run_seq \in Run
    BY <1>1, <1>2, <1>3, SpecsAssumption DEF Run
<1>6. FiledInv'
    BY <1>1, <1>2, <1>3, <1>4, <1>5, NodeStep DEF Inv
<1>7. Debounce'
    BY <1>2, <1>3, DebounceKept DEF Inv
<1> QED BY <1>6, <1>7 DEF Inv

LEMMA StopKeeps == ASSUME Inv, CmdStop PROVE Inv'
<1>1. /\ Good(node) /\ node.run_seq \in Run /\ interrupted \in BOOLEAN
      /\ ops' \in 0 .. MaxOps /\ UNCHANGED gateway
    BY RequestOps DEF Inv, FiledInv, Types, CmdStop
<1>2. node' = EndRun(node) /\ trigger' = trigger /\ interrupted' = interrupted
    BY DEF CmdStop
<1>3. Good(node') /\ node'.run_state = "done" /\ node'.run_seq = node.run_seq
    BY <1>1, <1>2, EndRunIs
<1>4. Reports(node, node')
    BY <1>1, <1>2, <1>3, EndRunMoves, MovesReports
<1>5. FiledInv'
    BY <1>1, <1>2, <1>3, <1>4, NodeStep DEF Inv
<1>6. Debounce'
    BY <1>2, <1>3, DebounceKept DEF Inv
<1> QED BY <1>5, <1>6 DEF Inv

\* A reboot outside of a run is no news, and one within a run was noted.
LEMMA RebootKeeps == ASSUME Inv, CmdReboot PROVE Inv'
<1>1. /\ Good(node) /\ interrupted \in BOOLEAN
      /\ ops' \in 0 .. MaxOps /\ UNCHANGED gateway
    BY RequestOps DEF Inv, FiledInv, Types, CmdReboot
<1>2. /\ node' = Reboot(node) /\ node'.run_seq <= MaxRuns /\ trigger' = NoTrigger
      /\ interrupted' = (interrupted \/ node.run_state = "running")
    BY DEF CmdReboot
<1>3. Moves(node, node') /\ Good(node')
    BY <1>1, <1>2, RebootMoves DEF Moves
<1> DEFINE x == [node EXCEPT !.run_state = "idle", !.uptime = 0]
<1>4. /\ x.run_state = "idle" /\ x.spec = node.spec /\ x.outbox = node.outbox
      /\ node' = IF StartsOnBoot(node.spec) THEN StartRun(x) ELSE x
  <2>1. node \in Node
      BY <1>1 DEF Good
  <2> QED BY <1>2, <2>1 DEF Reboot, Node
<1>5. node'.run_seq \in Run
    BY <1>2, <1>3, SpecsAssumption DEF Good, Node, Run
<1>6. CASE StartsOnBoot(node.spec)
  <2>1. Good(x) /\ x.spec # NoSpec
    <3>1. x \in Node /\ x.run_id = node.run_id /\ x.run_seq = node.run_seq
          /\ x.rate = node.rate /\ x.saved = node.saved
      <4>1. node \in Node /\ 0 \in 0 .. Horizon
          BY <1>1, SpecsAssumption DEF Good
      <4> QED BY <4>1 DEF Node, State
    <3> HIDE DEF x
    <3>2. x.spec # NoSpec
        BY <1>4, <1>6 DEF StartsOnBoot
    <3> QED BY <1>1, <1>4, <3>1, <3>2 DEF Good
  <2> HIDE DEF x
  <2>2. node'.run_state = "running" /\ node'.since = None /\ node'.fired = FALSE
      BY <1>4, <1>6, <2>1, StartRunIs
  <2>3. Reports(node, node')
      BY <1>1, <1>3, <2>2, MovesReports
  <2>4. FiledInv'
      BY <1>1, <1>2, <1>3, <1>5, <2>3, NodeStep DEF Inv
  <2>5. Debounce'
      BY <1>2, <2>2, DebounceKept DEF Inv
  <2> QED BY <2>4, <2>5 DEF Inv
<1>7. CASE ~StartsOnBoot(node.spec)
  <2> HIDE DEF x
  <2>1. node' = x
      BY <1>4, <1>7
  <2>2. node.run_state # "running" => Reports(node, node')
      BY <1>1, <1>4, <2>1, ReportsNothing DEF Current
  <2>3. FiledInv'
      BY <1>1, <1>2, <1>3, <1>5, <2>2, NodeStep DEF Inv
  <2>4. Debounce'
      BY <1>2, <1>4, <2>1, DebounceKept DEF Inv
  <2> QED BY <2>3, <2>4 DEF Inv
<1> QED BY <1>6, <1>7

\* The link is dropped or comes back, the backlog is erased: no news for the station.
LEMMA LinkKeeps ==
    ASSUME Inv, NEW drop \in BOOLEAN, NEW q \in Backlogs,
           node' = [node EXCEPT !.link_dropped = drop, !.backlog = q],
           ops' \in 0 .. MaxOps, UNCHANGED <<gateway, interrupted, trigger>>
    PROVE  Inv'
<1>1. /\ Good(node) /\ node \in Node /\ node.run_seq \in Run /\ interrupted \in BOOLEAN
    BY DEF Inv, FiledInv, Types, Good
<1>2. node' \in Node
    BY <1>1 DEF Node
<1>3. /\ node'.run_state = node.run_state /\ node'.run_id = node.run_id
      /\ node'.run_seq = node.run_seq /\ node'.spec = node.spec
      /\ node'.since = node.since /\ node'.fired = node.fired
      /\ node'.rate = node.rate /\ node'.saved = node.saved /\ node'.outbox = node.outbox
    BY <1>1 DEF Node
<1>4. Good(node')
    BY <1>1, <1>2, <1>3 DEF Good
<1>5. Reports(node, node')
    BY <1>1, <1>3, ReportsNothing DEF Current
<1>6. FiledInv'
    BY <1>1, <1>3, <1>4, <1>5, NodeStep DEF Inv
<1>7. Debounce'
    BY <1>3, DebounceKept DEF Inv
<1> QED BY <1>6, <1>7 DEF Inv

LEMMA DropKeeps == ASSUME Inv, LinkRestore \/ LinkDrop \/ CmdErase PROVE Inv'
<1>1. /\ node \in Node /\ node.link_dropped \in BOOLEAN /\ node.backlog \in Backlogs
      /\ ops \in 0 .. MaxOps
    BY DEF Inv, FiledInv, Types, Good, Node
<1>2. CASE LinkRestore
  <2>1. node' = [node EXCEPT !.link_dropped = FALSE, !.backlog = node.backlog]
      BY <1>1, <1>2 DEF LinkRestore, Node
  <2> QED BY <1>1, <1>2, <2>1, LinkKeeps DEF LinkRestore
<1>3. CASE LinkDrop
  <2>1. node' = [node EXCEPT !.link_dropped = TRUE, !.backlog = node.backlog]
      BY <1>1, <1>3 DEF LinkDrop, Node
  <2> QED BY <1>1, <1>3, <2>1, LinkKeeps, RequestOps DEF LinkDrop, Inv
<1>4. CASE CmdErase
  <2>1. node' = [node EXCEPT !.link_dropped = node.link_dropped, !.backlog = <<>>]
      BY <1>1, <1>4 DEF CmdErase, Node
  <2>2. <<>> \in Backlogs
      BY SpecsAssumption DEF Backlogs
  <2> QED BY <1>1, <1>4, <2>1, <2>2, LinkKeeps, RequestOps DEF CmdErase, Inv
<1> QED BY <1>2, <1>3, <1>4

\* An evaluation of the trigger: it fires only if the condition has held long enough.
LEMMA TickDebounced == ASSUME Inv, Tick PROVE Debounce'
<1> DEFINE n == Aged(node)
<1>1. PICK due \in BOOLEAN, cond \in BOOLEAN :
        /\ node' = Iterated(n, due, cond)
        /\ trigger' = IF node'.run_id # n.run_id THEN NoTrigger ELSE Observe(n, cond)
    BY DEF Tick
<1> DEFINE m == Iterated(n, due, cond)
<1>2. Good(node) /\ Silent(node, n) /\ node.run_seq \in Run
      /\ (node.run_state = "running" =>
            n.since = IF node.since = None THEN None ELSE Later(node.since))
    BY AgedIs DEF Inv, FiledInv, Types
<1>3. /\ Good(n) /\ n.run_state = node.run_state /\ n.run_seq = node.run_seq
      /\ n.spec = node.spec /\ n.fired = node.fired
    BY <1>2 DEF Silent
<1>4. /\ Continues(n, m)
      /\ n.run_state # "running" /\ m.run_seq = n.run_seq => m.run_state # "running"
      /\ n.run_state = "running" /\ DurationOver(n) => m.run_state = "done"
      /\ n.run_state = "running" /\ ~DurationOver(n) /\ m.run_seq = n.run_seq
            => Remembers(n, cond, m)
    BY <1>2, <1>3, IteratedIs
<1>5. /\ node'.run_state = m.run_state /\ node'.run_seq = m.run_seq /\ node'.spec = n.spec
      /\ node'.since = m.since /\ node'.fired = m.fired
      /\ m.run_id = m.run_seq /\ n.run_id = n.run_seq
      /\ m.run_seq # n.run_seq => ~m.fired /\ m.since = None
      /\ node'.run_id = m.run_id
  <2>1. m.spec = n.spec /\ Good(m) /\ (m.run_seq # n.run_seq => ~m.fired /\ m.since = None)
      BY <1>4 DEF Continues
  <2>2. node' = m
      BY <1>1
  <2> HIDE DEF m
  <2> QED BY <1>3, <2>1, <2>2 DEF Good
<1>6. trigger' = IF m.run_seq # n.run_seq THEN NoTrigger ELSE Observe(n, cond)
    BY <1>1, <1>5
<1>7. /\ trigger.held \in 0 .. Horizon /\ trigger.shots \in Nat /\ ~trigger.early
      /\ node.run_state = "running" =>
            /\ node.since # None => trigger.held >= node.since + 1 \/ trigger.held = Horizon
            /\ node.spec.once => trigger.shots <= (IF node.fired THEN 1 ELSE 0)
            /\ node.spec.once /\ node.fired => node.since = None
    BY DEF Inv, Debounce
<1> HIDE DEF n, m
<1>8. CASE m.run_seq # n.run_seq
  <2>1. trigger' = NoTrigger /\ node'.since = None /\ ~node'.fired
      BY <1>5, <1>6, <1>8
  <2> QED BY <2>1, DebounceKept DEF Inv
<1>9. CASE m.run_seq = n.run_seq /\ (n.run_state # "running" \/ DurationOver(n))
  <2>1. trigger' = trigger
      BY <1>6, <1>9 DEF Observe
  <2>2. node'.run_state # "running"
      BY <1>4, <1>5, <1>9
  <2> QED BY <2>1, <2>2, DebounceKept DEF Inv
<1>10. CASE m.run_seq = n.run_seq /\ n.run_state = "running" /\ ~DurationOver(n)
  <2>1. Remembers(n, cond, m)
      BY <1>4, <1>10
  <2> DEFINE f == IF Fires(n, cond) THEN 1 ELSE 0
             Cap(k) == IF k > 2 THEN 2 ELSE k
  <2>2. /\ trigger'.held = (IF cond THEN Later(trigger.held) ELSE 0)
        /\ trigger'.shots = Cap(trigger.shots + f)
        /\ trigger'.early <=> (trigger.early \/ (f = 1 /\ trigger.held < n.spec.for))
      BY <1>6, <1>10 DEF Observe
  <2>3. /\ n.spec \in Specs /\ n.spec.for \in Nat /\ n.spec.for <= Horizon
        /\ n.spec.once \in BOOLEAN /\ n.fired \in BOOLEAN
        /\ node.since \in (0 .. Horizon) \cup {None} /\ Horizon \in Nat
    <3>1. n.spec \in Specs /\ n.fired \in BOOLEAN
        BY <1>3, <1>10 DEF Good, Node
    <3>2. n.spec.for \in Nat /\ n.spec.once \in BOOLEAN
        BY <3>1, SpecsAssumption DEF Experiments
    <3>3. node.since \in (0 .. Horizon) \cup {None}
        BY <1>2 DEF Good, Node
    <3> QED BY <3>1, <3>2, <3>3, SpecsAssumption
  <2>4. trigger'.held \in 0 .. Horizon /\ trigger'.shots \in Nat
      BY <1>7, <2>2, <2>3, LaterType
  <2>5. n.since = IF node.since = None THEN None ELSE Later(node.since)
      BY <1>2, <1>3, <1>10
  <2>6. n.since # None =>
            /\ n.since \in 0 .. Horizon /\ n.since <= node.since + 1 /\ n.since <= trigger.held
            /\ trigger.held >= node.since + 1 \/ trigger.held = Horizon
      BY <1>3, <1>7, <1>10, <2>3, <2>5 DEF Later, None
  <2>7. ~trigger'.early
    <3>1. CASE Fires(n, cond)
      <4>1. n.since = None => n.spec.for <= 0
          BY <3>1, <2>3 DEF Fires, HeldLongEnough
      <4>2. n.since # None => n.spec.for <= n.since
          BY <3>1, <2>3, <2>6 DEF Fires, HeldLongEnough
      <4>3. trigger.held >= n.spec.for
          BY <1>7, <2>3, <2>6, <4>1, <4>2
      <4>4. ~(trigger.held < n.spec.for)
          BY <1>7, <2>3, <4>3
      <4> HIDE DEF f
      <4> QED BY <1>7, <2>2, <4>4
    <3>2. CASE ~Fires(n, cond)
      <4>1. f # 1
          BY <3>2
      <4> HIDE DEF f
      <4> QED BY <1>7, <2>2, <4>1
    <3> QED BY <3>1, <3>2
  <2>8. m.since # None => trigger'.held >= m.since + 1 \/ trigger'.held = Horizon
    <3>1. CASE Spent(n)
      <4>1. m.since = n.since /\ node.since = None
          BY <1>3, <1>7, <1>10, <2>1, <3>1 DEF Remembers, Spent
      <4> QED BY <2>5, <4>1
    <3>2. CASE ~Spent(n) /\ cond /\ ~Fires(n, cond)
      <4>1. m.since = (IF n.since = None THEN 0 ELSE n.since) /\ trigger'.held = Later(trigger.held)
          BY <2>1, <2>2, <3>2 DEF Remembers
      <4>2. trigger'.held = (IF trigger.held < Horizon THEN trigger.held + 1 ELSE trigger.held)
          BY <4>1 DEF Later
      <4> QED BY <1>7, <2>3, <2>6, <4>1, <4>2
    <3>3. CASE ~Spent(n) /\ (~cond \/ Fires(n, cond))
        BY <2>1, <3>3 DEF Remembers
    <3> QED BY <3>1, <3>2, <3>3
  <2>9. n.spec.once => trigger'.shots <= (IF m.fired THEN 1 ELSE 0)
    <3>1. SUFFICES ASSUME n.spec.once PROVE trigger'.shots <= (IF m.fired THEN 1 ELSE 0)
        OBVIOUS
    <3>2. trigger.shots <= (IF n.fired THEN 1 ELSE 0)
        BY <1>3, <1>7, <1>10, <3>1
    <3>3. CASE Fires(n, cond)
      <4>1. ~n.fired /\ m.fired
          BY <2>1, <2>3, <3>1, <3>3 DEF Fires, Spent, Remembers
      <4>2. trigger.shots = 0
          BY <1>7, <3>2, <4>1
      <4> QED BY <2>2, <3>3, <4>1, <4>2
    <3>4. CASE ~Fires(n, cond)
      <4>1. m.fired = n.fired
          BY <2>1, <2>3, <3>4 DEF Remembers
      <4>2. trigger'.shots = trigger.shots
          BY <1>7, <2>2, <3>2, <3>4
      <4> QED BY <3>2, <4>1, <4>2
    <3> QED BY <3>3, <3>4
  <2>10. n.spec.once /\ m.fired => m.since = None
    <3>1. CASE Spent(n)
        BY <1>3, <1>7, <1>10, <2>1, <2>5, <3>1 DEF Remembers, Spent
    <3>2. CASE ~Spent(n)
        BY <2>1, <3>2 DEF Remembers, Spent
    <3> QED BY <3>1, <3>2
  <2> QED BY <1>5, <2>4, <2>7, <2>8, <2>9, <2>10 DEF Debounce
<1> QED BY <1>8, <1>9, <1>10

\* The pump takes the first frame of the outbox.
LEMMA HeadTaken ==
    ASSUME Inv, node.outbox # <<>>, node' = [node EXCEPT !.outbox = Tail(@)]
    PROVE  /\ Good(node') /\ node'.run_seq = node.run_seq /\ node'.outbox = Tail(node.outbox)
           /\ Current(node') = Current(node)
           /\ Head(node.outbox) \in Message /\ Head(node.outbox).run \in Run
           /\ trigger' = trigger => Debounce'
<1>1. /\ Good(node) /\ node \in Node /\ node.outbox \in Seq(Message) /\ node.run_seq \in Run
      /\ \A i \in DOMAIN node.outbox : node.outbox[i].run <= node.run_seq
    BY DEF Inv, FiledInv, Types, Good, Node
<1>2. /\ Head(node.outbox) = node.outbox[1] /\ 1 \in DOMAIN node.outbox
      /\ node.outbox[1] \in Message /\ Tail(node.outbox) \in Seq(Message)
      /\ \A i \in DOMAIN Tail(node.outbox) :
            i + 1 \in DOMAIN node.outbox /\ Tail(node.outbox)[i] = node.outbox[i + 1]
    BY <1>1
<1>3. node.outbox[1].run \in Run
  <2>1. node.outbox[1].run \in Nat /\ node.outbox[1].run <= node.run_seq
      BY <1>1, <1>2 DEF Message
  <2> QED BY <1>1, <2>1, SpecsAssumption DEF Run
<1>4. node' \in Node
    BY <1>1, <1>2 DEF Node
<1>5. /\ node'.run_state = node.run_state /\ node'.run_id = node.run_id
      /\ node'.run_seq = node.run_seq /\ node'.spec = node.spec
      /\ node'.since = node.since /\ node'.fired = node.fired
      /\ node'.rate = node.rate /\ node'.saved = node.saved
      /\ node'.outbox = Tail(node.outbox)
    BY <1>1 DEF Node
<1>6. Good(node')
    BY <1>1, <1>2, <1>4, <1>5 DEF Good
<1>7. trigger' = trigger => Debounce'
    BY <1>5, DebounceKept DEF Inv
<1> QED BY <1>2, <1>3, <1>5, <1>6, <1>7 DEF Current

LEMMA PumpKeeps == ASSUME Inv, pump PROVE Inv'
<1> DEFINE f == Head(node.outbox)
<1>1. /\ node.outbox # <<>> /\ node' = [node EXCEPT !.outbox = Tail(@)]
      /\ ops' = ops /\ interrupted' = interrupted /\ trigger' = trigger
    BY DEF pump, OnTelemetry, OnExpState
<1>2. /\ Good(node') /\ node'.run_seq = node.run_seq /\ node'.outbox = Tail(node.outbox)
      /\ Current(node') = Current(node) /\ f \in Message /\ f.run \in Run /\ Debounce'
    BY <1>1, HeadTaken
<1>3. /\ active_run \in Run /\ active_run \in Nat /\ Good(node) /\ node.outbox \in Seq(Message)
      /\ DOMAIN runs \subseteq Run /\ NoRun \in Run
    BY SpecsAssumption DEF Inv, FiledInv, Types, Good, Node, Run, NoRun
<1>4. interrupted
      \/ /\ Tracks(active_run, node.outbox, Current(node))
         /\ FiledRight
    BY DEF Inv, FiledInv, Believes
<1>5. interrupted
      \/ /\ f.kind = "TELEMETRY" => f.run = active_run
         /\ Tracks(Heard(active_run, f), Tail(node.outbox), Current(node))
  <2>1. Current(node) \in Nat
      BY <1>3, CurrentType
  <2> QED BY <1>1, <1>3, <1>4, <2>1, TracksHead
<1> HIDE DEF f
<1>6. CASE OnTelemetry
  <2>1. /\ f.kind = "TELEMETRY" /\ active_run' = active_run /\ runs' = runs
        /\ samples' = samples \cup
              {[tag |-> active_run, run |-> f.of[i], sent |-> f.run, replay |-> f.replay] :
                    i \in DOMAIN f.of}
      BY <1>6 DEF OnTelemetry, f
  <2>2. Types'
      BY <1>1, <1>2, <1>3, <2>1 DEF Inv, FiledInv, Types
  <2>3. Heard(active_run, f) = active_run
      BY <2>1 DEF Heard
  <2>4. interrupted \/ FiledRight'
    <3>1. ~f.replay => \A i \in DOMAIN f.of : f.of[i] = f.run
        BY <1>2, <2>1 DEF Message
    <3> QED BY <1>4, <1>5, <2>1, <3>1 DEF FiledRight
  <2>5. Believes'
      BY <1>1, <1>2, <1>5, <2>1, <2>3, <2>4 DEF Believes, Current
  <2> QED BY <1>2, <2>2, <2>5 DEF Inv, FiledInv
<1>7. CASE OnExpState
  <2>1. /\ f.kind = "EXP_STATE" /\ active_run' = Heard(active_run, f)
        /\ runs' = Upsert(f.run, f.state) /\ samples' = samples
      BY <1>7 DEF OnExpState, Heard, f
  <2>2. active_run' \in Run /\ DOMAIN runs' \subseteq Run
      BY <1>2, <1>3, <2>1 DEF Heard, Upsert
  <2>3. Types'
      BY <1>1, <1>2, <2>2 DEF Inv, FiledInv, Types
  <2>4. Believes'
      BY <1>1, <1>2, <1>4, <1>5, <2>1 DEF Believes, FiledRight, Current
  <2> QED BY <1>2, <2>3, <2>4 DEF Inv, FiledInv
<1> QED BY <1>6, <1>7 DEF pump

LEMMA NextKeeps == ASSUME Inv, [Next]_vars PROVE Inv'
<1>1. CASE Tick
    BY <1>1, TickFiled, TickDebounced DEF Inv
<1>2. CASE \E s \in Specs : PushExperiment(s)
    BY <1>2, PushKeeps
<1>3. CASE PushRejected
    BY <1>3, RepeatKeeps DEF PushRejected
<1>4. CASE CmdStart
    BY <1>4, StartKeeps
<1>5. CASE CmdStop
    BY <1>5, StopKeeps
<1>6. CASE CmdState
    BY <1>6, RepeatKeeps DEF CmdState
<1>7. CASE CmdReboot
    BY <1>7, RebootKeeps
<1>8. CASE pump
    BY <1>8, PumpKeeps
<1>9. CASE UNCHANGED vars
    BY <1>9 DEF vars, gateway, Inv, FiledInv, Types, Believes, FiledRight, Debounce, Current
<1>10. CASE LinkRestore \/ LinkDrop \/ CmdErase
    BY <1>10, DropKeeps
<1> QED BY <1>1, <1>2, <1>3, <1>4, <1>5, <1>6, <1>7, <1>8, <1>9, <1>10 DEF Next, operator

LEMMA Invariant == Spec => []Inv
<1>1. Init => Inv
    BY InitFiled, InitDebounced DEF Inv
<1>2. Inv /\ [Next]_vars => Inv'
    BY NextKeeps
<1> QED BY <1>1, <1>2, PTL DEF Spec

\* Whatever specs are pushed and whenever the operator starts, stops and reboots: as
\* long as no run was cut short, every sample sent as it was taken is filed under the run
\* it was taken in, and every sample held back during a link drop, of any length, under
\* the run in progress when it is sent.
THEOREM Filed == Spec => []SamplesFiledUnderTheirRun
<1>1. Inv => SamplesFiledUnderTheirRun
    BY DEF Inv, FiledInv, Believes, FiledRight, SamplesFiledUnderTheirRun
<1> QED BY <1>1, Invariant, PTL

\* No trigger fires before its condition has held for its whole debounce time, and one
\* with once = true fires once in a run, for every list of actions, one that reboots
\* the node or ends the run included.
THEOREM Debounced == Spec => []TriggerDebounced
<1>1. Inv => TriggerDebounced
  <2>1. SUFFICES ASSUME Inv, node.run_state = "running", node.spec.once
                 PROVE  trigger.shots <= 1
      BY DEF Inv, Debounce, TriggerDebounced
  <2>2. trigger.shots \in Nat /\ trigger.shots <= (IF node.fired THEN 1 ELSE 0)
      BY <2>1 DEF Inv, Debounce
  <2> QED BY <2>2
<1> QED BY <1>1, Invariant, PTL

\* The type invariant; with it, after any nesting of bursts the rate given back is never
\* the rate of a burst.
THEOREM TypeCorrect == Spec => []TypeOK
<1>1. Inv => TypeOK
  <2>1. SUFFICES ASSUME Inv PROVE TypeOK
      OBVIOUS
  <2>2. /\ Good(node) /\ node \in Node /\ node.run_seq \in Run /\ active_run \in Run
        /\ DOMAIN runs \subseteq Run /\ ops \in 0 .. MaxOps
      BY <2>1 DEF Inv, FiledInv, Types, Good
  <2>3. \A i \in DOMAIN node.outbox : node.outbox[i].run \in Run
    <3>1. SUFFICES ASSUME NEW i \in DOMAIN node.outbox PROVE node.outbox[i].run \in Run
        OBVIOUS
    <3>2. node.outbox[i] \in Message
        BY <2>2 DEF Node
    <3>3. node.outbox[i].run \in Nat /\ node.outbox[i].run <= node.run_seq
        BY <2>2, <3>2 DEF Message, Good
    <3> QED BY <2>2, <3>3, SpecsAssumption DEF Run
  <2>4. node.run_id \in Run
      BY <2>2 DEF Good
  <2>5. /\ node.spec \in Specs \cup {NoSpec}
        /\ node.run_state \in {"idle", "armed", "running", "done"}
        /\ node.uptime \in 0 .. Horizon /\ node.elapsed \in 0 .. Horizon
        /\ node.since \in 0 .. Horizon \cup {None}
        /\ node.rate \in {"declared", "experiment", "triggered", "burst"}
        /\ node.saved \in {"none", "declared", "experiment", "triggered"}
        /\ node.burst_left \in 0 .. BurstTicks /\ node.link_dropped \in BOOLEAN
        /\ node.backlog \in Backlogs
      BY <2>2 DEF Node, State, Rate
  <2>6. Len(node.backlog) <= BacklogDepth /\ \A i \in DOMAIN node.backlog : node.backlog[i] \in Run
      BY <2>5 DEF Backlogs
  <2> QED BY <2>2, <2>3, <2>4, <2>5, <2>6 DEF TypeOK
<1> QED BY <1>1, Invariant, PTL
=============================================================================
