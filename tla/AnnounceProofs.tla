---------------------------- MODULE AnnounceProofs ----------------------------
(***************************************************************************)
(* Proofs about Announce, for every number of chunks, every queue depth    *)
(* and any number of faults: a node goes quiet only once it was heard, and *)
(* a round without late ACKs and refusals ends with the whole NDB known.   *)
(***************************************************************************)
EXTENDS Announce, FiniteSetTheorems, SequenceTheorems, TLAPS

-----------------------------------------------------------------------------
(* What the three FIFOs' operators do to the chunks of the current round.  *)

\* Every kind of record a queue is made of can have its cur field cleared.
LEMMA Clearable ==
    /\ \A m \in Frame : [m EXCEPT !.cur = FALSE] \in Frame /\ ~[m EXCEPT !.cur = FALSE].cur
    /\ \A m \in Ack : [m EXCEPT !.cur = FALSE] \in Ack /\ ~[m EXCEPT !.cur = FALSE].cur
    /\ \A m \in Load : [m EXCEPT !.cur = FALSE] \in Load /\ ~[m EXCEPT !.cur = FALSE].cur
  BY DEF Frame, Ack, Load

\* Nothing in a queue is current once a new round has begun.
LEMMA StaleFacts ==
    ASSUME NEW S, NEW q \in Seq(S),
           \A m \in S : [m EXCEPT !.cur = FALSE] \in S /\ ~[m EXCEPT !.cur = FALSE].cur
    PROVE  /\ Stale(q) \in Seq(S)
           /\ Len(Stale(q)) = Len(q)
           /\ Stale(q) # <<>> => q # <<>>
           /\ \A i \in 1 .. Len(q) : ~Stale(q)[i].cur
           /\ CurIn(Stale(q)) = {}
           /\ NoTwice(Stale(q))
<1>1. Len(q) \in Nat /\ \A i \in 1 .. Len(q) : q[i] \in S
  OBVIOUS
<1>2. \A i \in 1 .. Len(q) : [q[i] EXCEPT !.cur = FALSE] \in S
  BY <1>1
<1>3. Stale(q) \in [1 .. Len(q) -> S]
  BY <1>2 DEF Stale
<1>4. Stale(q) \in Seq(S) /\ Len(Stale(q)) = Len(q)
  BY <1>1, <1>3
<1>5. \A i \in 1 .. Len(q) : ~Stale(q)[i].cur
  BY <1>1 DEF Stale
<1>6. Stale(q) # <<>> => q # <<>>
  BY <1>4
<1>7. QED
  BY <1>4, <1>5, <1>6 DEF CurIn, NoTwice

\* Appending a frame adds its chunk, if it is current, and nothing else.
LEMMA AppendFacts ==
    ASSUME NEW S, NEW q \in Seq(S), NEW m \in S
    PROVE  /\ m.cur => CurIn(Append(q, m)) = CurIn(q) \cup {m.chunk}
           /\ ~m.cur => CurIn(Append(q, m)) = CurIn(q)
           /\ NoTwice(q) /\ (m.cur => m.chunk \notin CurIn(q)) => NoTwice(Append(q, m))
<1>1. /\ Len(Append(q, m)) = Len(q) + 1
      /\ Len(q) \in Nat
      /\ \A i \in 1 .. Len(q) : Append(q, m)[i] = q[i]
      /\ Append(q, m)[Len(q) + 1] = m
  OBVIOUS
<1>2. 1 .. Len(q) + 1 = (1 .. Len(q)) \cup {Len(q) + 1}
  BY <1>1
<1>3. /\ m.cur => CurIn(Append(q, m)) = CurIn(q) \cup {m.chunk}
      /\ ~m.cur => CurIn(Append(q, m)) = CurIn(q)
  BY <1>1, <1>2 DEF CurIn
<1>4. ASSUME NoTwice(q), m.cur => m.chunk \notin CurIn(q)
      PROVE  NoTwice(Append(q, m))
  BY <1>1, <1>2, <1>4 DEF NoTwice, CurIn
<1>5. QED
  BY <1>3, <1>4

\* Taking the head takes its chunk, if it is current, and nothing else.
LEMMA TailFacts ==
    ASSUME NEW S, NEW q \in Seq(S), q # <<>>, NoTwice(q)
    PROVE  /\ Head(q).cur => /\ CurIn(q) = CurIn(Tail(q)) \cup {Head(q).chunk}
                             /\ Head(q).chunk \notin CurIn(Tail(q))
           /\ ~Head(q).cur => CurIn(Tail(q)) = CurIn(q)
           /\ CurIn(Tail(q)) \subseteq CurIn(q)
           /\ NoTwice(Tail(q))
<1>1. /\ Len(q) \in Nat /\ Len(q) >= 1
      /\ Len(Tail(q)) = Len(q) - 1
      /\ \A i \in 1 .. Len(q) - 1 : Tail(q)[i] = q[i + 1]
      /\ Head(q) = q[1]
  OBVIOUS
<1>2. \A x \in CurIn(Tail(q)) : \E i \in 1 .. Len(q) : i # 1 /\ q[i].cur /\ x = q[i].chunk
  BY <1>1 DEF CurIn
<1>3. \A i \in 1 .. Len(q) : i # 1 /\ q[i].cur => q[i].chunk \in CurIn(Tail(q))
  <2> SUFFICES ASSUME NEW i \in 1 .. Len(q), i # 1, q[i].cur
               PROVE  q[i].chunk \in CurIn(Tail(q))
    OBVIOUS
  <2>1. i - 1 \in 1 .. Len(Tail(q)) /\ Tail(q)[i - 1] = q[i]
    BY <1>1
  <2>2. QED
    BY <2>1 DEF CurIn
<1>4. NoTwice(Tail(q))
  BY <1>1 DEF NoTwice
<1>5. CurIn(Tail(q)) \subseteq CurIn(q)
  BY <1>2 DEF CurIn
<1>6. Head(q).cur => Head(q).chunk \notin CurIn(Tail(q))
  <2>1. \A i \in 1 .. Len(q) : i # 1 /\ q[1].cur /\ q[i].cur => q[1].chunk # q[i].chunk
    BY <1>1 DEF NoTwice
  <2>2. QED
    BY <1>1, <1>2, <2>1
<1>7. Head(q).cur => CurIn(q) = CurIn(Tail(q)) \cup {Head(q).chunk}
  BY <1>1, <1>3, <1>5 DEF CurIn
<1>8. ~Head(q).cur => CurIn(Tail(q)) = CurIn(q)
  BY <1>1, <1>3, <1>5 DEF CurIn
<1>9. QED
  BY <1>4, <1>5, <1>6, <1>7, <1>8

\* The empty queue holds nothing.
LEMMA EmptyFacts == CurIn(<<>>) = {} /\ NoTwice(<<>>)
  BY DEF CurIn, NoTwice

\* The receive task has at most one increment under way.
LEMMA SingletonFacts ==
    ASSUME NEW r
    PROVE  /\ r.cur => CurIn(<<r>>) = {r.chunk}
           /\ ~r.cur => CurIn(<<r>>) = {}
  BY DEF CurIn

\* A queue of one element is that element.
LEMMA AtMostOne ==
    ASSUME NEW S, NEW q \in Seq(S), q # <<>>, Len(q) <= 1
    PROVE  q = <<Head(q)>> /\ Head(q) = q[1] /\ Head(q) \in S
<1>0. Len(q) \in Nat \ {0}
  BY EmptySeq, Zenon
<1>1. Len(q) = 1
  BY <1>0
<1>2. Head(q) = q[1] /\ q[1] \in S
  BY <1>1
<1>3. q = <<q[1]>>
  BY <1>1, <1>2, SeqEqual
<1>4. QED
  BY <1>2, <1>3

\* Sets of chunks are finite, so their sizes can be compared.
LEMMA ChunkFinite ==
    ASSUME NEW T, T \subseteq Chunk
    PROVE  IsFiniteSet(T) /\ Cardinality(T) \in Nat
<1>1. 1 \in Int /\ NumChunks \in Int
  BY SizesAssumption
<1>2. IsFiniteSet(Chunk)
  BY <1>1, FS_Interval DEF Chunk
<1>3. IsFiniteSet(T)
  BY <1>2, FS_Subset
<1>4. QED
  BY <1>3, FS_CardinalityType

-----------------------------------------------------------------------------
(* Every variable keeps its type.                                          *)

LEMMA TypeStep ==
    TypeOK /\ SendingInv /\ [Next]_vars => TypeOK'
<1> SUFFICES ASSUME TypeOK, SendingInv, [Next]_vars
             PROVE  TypeOK'
  OBVIOUS
<1> USE SizesAssumption DEF TypeOK
<1>1. CASE Boot
  BY <1>1 DEF Boot, wireVars, stationVars, history
<1>2. CASE BeginRound
  <2>1. rx' \in Seq(Load) /\ Len(rx') <= 1
    BY <1>2, StaleFacts, Clearable DEF BeginRound
  <2>2. tx_queue' \in Seq(Frame) /\ up' \in Seq(Frame) /\ down' \in Seq(Ack)
    BY <1>2, StaleFacts, Clearable DEF BeginRound
  <2>3. next' \in 1 .. NumChunks + 1
    BY <1>2 DEF BeginRound
  <2>4. QED
    BY <1>2, <2>1, <2>2, <2>3 DEF BeginRound, stationVars
<1>3. CASE SendChunk
  <2>1. next \in Chunk /\ [chunk |-> next, cur |-> TRUE] \in Frame
    BY <1>3 DEF SendChunk, SendingInv, Frame
  <2>2. next' \in 1 .. NumChunks + 1
    BY <1>3, <2>1 DEF SendChunk, Chunk
  <2>6. pc' \in {"send", "wait"}
    BY <1>3 DEF SendChunk, LastChunk
  <2>3. tx_queue' \in Seq(Frame)
    <3>1. Append(tx_queue, [chunk |-> next, cur |-> TRUE]) \in Seq(Frame)
      BY <2>1
    <3>2. QED
      BY <1>3, <3>1 DEF SendChunk
  <2>4. sent' \in Nat
    BY <1>3 DEF SendChunk
  <2>5. handed' \in SUBSET Chunk
    BY <1>3, <2>1 DEF SendChunk
  <2>7. QED
    BY <1>3, <2>2, <2>3, <2>4, <2>5, <2>6 DEF SendChunk, stationVars
<1>4. CASE GoQuiet
  BY <1>4 DEF GoQuiet, wireVars, stationVars, history
<1>5. CASE WaitExpires
  BY <1>5 DEF WaitExpires, wireVars, stationVars, history
<1>6. CASE OtherTraffic
  <2>1. [chunk |-> Other, cur |-> FALSE] \in Frame
    BY DEF Frame
  <2>2. QED
    BY <1>6, <2>1 DEF OtherTraffic, nodeVars, stationVars, history
<1>7. CASE Transmit
  <2>1. Head(tx_queue) \in Frame /\ Tail(tx_queue) \in Seq(Frame)
    BY <1>7 DEF Transmit
  <2>2. QED
    BY <1>7, <2>1 DEF Transmit, nodeVars, stationVars, history
<1>8. CASE AckLoad
  <2>1. Head(down) \in Ack /\ Tail(down) \in Seq(Ack)
    BY <1>8 DEF AckLoad
  <2>2. [val |-> g_hello_acks, chunk |-> Head(down).chunk, cur |-> Head(down).cur] \in Load
    BY <2>1 DEF Ack, Load
  <2>3. rx' \in Seq(Load) /\ Len(rx') <= 1
    BY <1>8, <2>2 DEF AckLoad
  <2>4. QED
    BY <1>8, <2>1, <2>3 DEF AckLoad, stationVars, history
<1>9. CASE AckStore
  <2>1. Head(rx) \in Load
    BY <1>9 DEF AckStore
  <2>2. g_hello_acks' \in Nat
    BY <1>9, <2>1 DEF AckStore, Load
  <2>3. fresh' \in SUBSET Chunk
    BY <1>9, <2>1 DEF AckStore, Load
  <2>4. tainted' \in BOOLEAN
    BY <1>9 DEF AckStore
  <2>5. rx' \in Seq(Load) /\ Len(rx') <= 1
    BY <1>9 DEF AckStore
  <2>6. QED
    BY <1>9, <2>2, <2>3, <2>4, <2>5 DEF AckStore, wireVars, stationVars
<1>10. CASE AckWhileBooting
  BY <1>10 DEF AckWhileBooting, nodeVars, stationVars, history
<1>11. CASE OnHello
  <2>1. Head(up) \in Frame /\ Tail(up) \in Seq(Frame)
    BY <1>11 DEF OnHello
  <2>2. Head(up) \in Ack /\ Head(up).chunk \in Chunk
    BY <1>11, <2>1 DEF OnHello, Frame, Ack
  <2>3. QED
    BY <1>11, <2>1, <2>2 DEF OnHello, nodeVars, history, Merge
<1>12. CASE OnOther
  BY <1>12 DEF OnOther, nodeVars, stationVars, history
<1>13. CASE LoseUp
  BY <1>13 DEF LoseUp, nodeVars, stationVars, history
<1>14. CASE LoseDown
  BY <1>14 DEF LoseDown, nodeVars, stationVars, history
<1>15. CASE NodeReset
  <2>1. up' \in Seq(Frame) /\ down' \in Seq(Ack)
    BY <1>15, StaleFacts, Clearable DEF NodeReset
  <2>2. rx' \in Seq(Load) /\ Len(rx') <= 1 /\ tx_queue' \in Seq(Frame)
    BY <1>15 DEF NodeReset
  <2>3. next' \in 1 .. NumChunks + 1 /\ sent' \in Nat /\ faults' \in Nat
    BY <1>15 DEF NodeReset
  <2>4. QED
    BY <1>15, <2>1, <2>2, <2>3 DEF NodeReset, stationVars
<1>16. CASE GatewayRestart
  BY <1>16 DEF GatewayRestart, nodeVars, history
<1>17. CASE UNCHANGED vars
  BY <1>17 DEF vars, nodeVars, wireVars, stationVars, history
<1>18. QED
  BY <1>1, <1>2, <1>3, <1>4, <1>5, <1>6, <1>7, <1>8, <1>9, <1>10, <1>11, <1>12,
     <1>13, <1>14, <1>15, <1>16, <1>17 DEF Next, helloTask, rxTask, station, Fault

-----------------------------------------------------------------------------
(* What each part of the inductive invariant needs of a step.              *)

LEMMA SendingStep ==
    TypeOK /\ SendingInv /\ [Next]_vars => SendingInv'
<1> SUFFICES ASSUME TypeOK, SendingInv, [Next]_vars
             PROVE  SendingInv'
  OBVIOUS
<1>1. CASE BeginRound
  <2>1. next' \in Chunk /\ handed' = {}
    BY <1>1, SizesAssumption DEF BeginRound, Chunk
  <2>2. QED
    BY <2>1 DEF SendingInv
<1>2. CASE SendChunk
  <2>1. next \in Chunk /\ handed \subseteq 1 .. next - 1 /\ next' = next + 1
    BY <1>2 DEF SendChunk, SendingInv
  <2>2. handed' \subseteq 1 .. next
    <3>1. handed \subseteq 1 .. next /\ next \in 1 .. next
      BY <2>1 DEF Chunk
    <3>2. QED
      BY <1>2, <3>1 DEF SendChunk
  <2>3. pc' = "send" => next # NumChunks
    BY <1>2 DEF SendChunk, LastChunk
  <2>4. QED
    BY <2>1, <2>2, <2>3, SizesAssumption DEF SendingInv, Chunk
<1>3. CASE pc' # "send"
  BY <1>3 DEF SendingInv
<1>4. CASE UNCHANGED <<pc, next, handed>>
  BY <1>4 DEF SendingInv
<1>5. QED
  BY <1>1, <1>2, <1>3, <1>4 DEF Next, helloTask, rxTask, station, Fault, Boot, GoQuiet,
     WaitExpires, OtherTraffic, Transmit, AckLoad, AckStore, AckWhileBooting, OnHello,
     OnOther, LoseUp, LoseDown, NodeReset, GatewayRestart, vars, nodeVars, history

\* Between queue and counter every chunk of the round is in at most one place.
LEMMA PlacesStep ==
    TypeOK /\ SendingInv /\ PlacesInv /\ [Next]_vars => PlacesInv'
<1> SUFFICES ASSUME TypeOK, SendingInv, PlacesInv, [Next]_vars
             PROVE  PlacesInv'
  OBVIOUS
<1>q. tx_queue \in Seq(Frame) /\ up \in Seq(Frame) /\ down \in Seq(Ack) /\ rx \in Seq(Load)
  BY DEF TypeOK
<1>1. CASE UNCHANGED <<tx_queue, up, down, rx, handed, fresh>>
  BY <1>1 DEF PlacesInv
<1>2. CASE BeginRound
  <2>1. /\ CurIn(tx_queue') = {} /\ NoTwice(tx_queue')
        /\ CurIn(up') = {} /\ NoTwice(up')
        /\ CurIn(down') = {} /\ NoTwice(down')
        /\ CurIn(rx') = {}
    BY <1>2, <1>q, StaleFacts, Clearable DEF BeginRound
  <2>2. handed' = {} /\ fresh' = {}
    BY <1>2 DEF BeginRound
  <2>3. QED
    BY <2>1, <2>2 DEF PlacesInv
<1>3. CASE SendChunk
  <2>1. UNCHANGED <<up, down, rx, fresh>>
    BY <1>3 DEF SendChunk
  <2>2. CASE UNCHANGED <<tx_queue, handed>>
    BY <2>1, <2>2 DEF PlacesInv
  <2>3. CASE /\ tx_queue' = Append(tx_queue, [chunk |-> next, cur |-> TRUE])
             /\ handed' = handed \cup {next}
    <3>1. next \in Chunk /\ next \notin handed
      BY <1>3 DEF SendChunk, SendingInv, Chunk
    <3>2. [chunk |-> next, cur |-> TRUE] \in Frame
      BY <3>1 DEF Frame
    <3>3. next \notin CurIn(tx_queue)
      BY <3>1 DEF PlacesInv
    <3>4. CurIn(tx_queue') = CurIn(tx_queue) \cup {next} /\ NoTwice(tx_queue')
      BY <1>q, <2>3, <3>2, <3>3, AppendFacts DEF PlacesInv
    <3>5. QED
      BY ZenonT(30), <2>1, <2>3, <3>1, <3>4 DEF PlacesInv
  <2>4. QED
    BY <1>3, <2>2, <2>3 DEF SendChunk
<1>4. CASE OtherTraffic
  <2>1. [chunk |-> Other, cur |-> FALSE] \in Frame
    BY DEF Frame
  <2>2. CurIn(tx_queue') = CurIn(tx_queue) /\ NoTwice(tx_queue')
    BY <1>q, <1>4, <2>1, AppendFacts DEF OtherTraffic, PlacesInv
  <2>3. UNCHANGED <<up, down, rx, handed, fresh>>
    BY <1>4 DEF OtherTraffic, nodeVars, history
  <2>4. QED
    BY <2>2, <2>3 DEF PlacesInv
<1>5. CASE Transmit
  <2> DEFINE h == Head(tx_queue)
  <2>1. h \in Frame /\ tx_queue # <<>> /\ tx_queue' = Tail(tx_queue) /\ up' = Append(up, h)
    BY <1>q, <1>5 DEF Transmit
  <2>2. UNCHANGED <<down, rx, handed, fresh>>
    BY <1>5 DEF Transmit, nodeVars, history
  <2> HIDE DEF h
  <2>3. /\ h.cur => /\ CurIn(tx_queue) = CurIn(tx_queue') \cup {h.chunk}
                    /\ h.chunk \notin CurIn(tx_queue')
        /\ ~h.cur => CurIn(tx_queue') = CurIn(tx_queue)
        /\ NoTwice(tx_queue')
    BY <1>q, <2>1, TailFacts DEF PlacesInv, h
  <2>4. h.cur => h.chunk \notin CurIn(up)
    BY <2>3 DEF PlacesInv
  <2>5. /\ h.cur => CurIn(up') = CurIn(up) \cup {h.chunk}
        /\ ~h.cur => CurIn(up') = CurIn(up)
        /\ NoTwice(up')
    BY <1>q, <2>1, <2>4, AppendFacts DEF PlacesInv
  <2>6. QED
    BY <2>2, <2>3, <2>5 DEF PlacesInv
<1>6. CASE AckLoad
  <2> DEFINE h == Head(down)
  <2>1. /\ h \in Ack /\ down # <<>> /\ down' = Tail(down) /\ rx = <<>>
        /\ rx' = <<[val |-> g_hello_acks, chunk |-> h.chunk, cur |-> h.cur]>>
    BY <1>q, <1>6 DEF AckLoad
  <2>2. UNCHANGED <<tx_queue, up, handed, fresh>>
    BY <1>6 DEF AckLoad, history
  <2> HIDE DEF h
  <2>3. /\ h.cur => CurIn(down) = CurIn(down') \cup {h.chunk} /\ h.chunk \notin CurIn(down')
        /\ ~h.cur => CurIn(down') = CurIn(down)
        /\ NoTwice(down')
    BY <1>q, <2>1, TailFacts DEF PlacesInv, h
  <2>4. /\ h.cur => CurIn(rx') = {h.chunk}
        /\ ~h.cur => CurIn(rx') = {}
    BY <2>1, SingletonFacts
  <2>5. QED
    BY <2>2, <2>3, <2>4 DEF PlacesInv
<1>7. CASE AckStore
  <2>1. rx # <<>> /\ rx = <<Head(rx)>>
    BY <1>7, <1>q, AtMostOne DEF AckStore, TypeOK
  <2>2. CurIn(rx) = IF Head(rx).cur THEN {Head(rx).chunk} ELSE {}
    BY <2>1, SingletonFacts
  <2>3. CurIn(rx') = {}
    BY <1>7, EmptyFacts DEF AckStore
  <2>4. fresh' = fresh \cup CurIn(rx)
    BY <1>7, <2>2 DEF AckStore
  <2>5. UNCHANGED <<tx_queue, up, down, handed>>
    BY <1>7 DEF AckStore, wireVars
  <2>6. QED
    BY <2>3, <2>4, <2>5 DEF PlacesInv
<1>8. CASE OnHello
  <2> DEFINE h == Head(up)
  <2>1. up # <<>> /\ up' = Tail(up) /\ down' = Append(down, h)
    BY <1>8 DEF OnHello
  <2>7. h \in Ack
    <3>1. h \in Frame /\ h.chunk # Other
      BY <1>q, <1>8 DEF OnHello
    <3>2. QED
      BY <3>1 DEF Frame, Ack
  <2>2. UNCHANGED <<tx_queue, rx, handed, fresh>>
    BY <1>8 DEF OnHello, nodeVars, history
  <2> HIDE DEF h
  <2>3. /\ h.cur => CurIn(up) = CurIn(up') \cup {h.chunk} /\ h.chunk \notin CurIn(up')
        /\ ~h.cur => CurIn(up') = CurIn(up)
        /\ NoTwice(up')
    BY <1>q, <2>1, TailFacts DEF PlacesInv, h
  <2>4. h.cur => h.chunk \notin CurIn(down)
    BY <2>3 DEF PlacesInv
  <2>5. /\ h.cur => CurIn(down') = CurIn(down) \cup {h.chunk}
        /\ ~h.cur => CurIn(down') = CurIn(down)
        /\ NoTwice(down')
    BY <1>q, <2>1, <2>7, <2>4, AppendFacts DEF PlacesInv
  <2>6. QED
    BY <2>2, <2>3, <2>5 DEF PlacesInv
<1>9. CASE up # <<>> /\ up' = Tail(up) /\ UNCHANGED <<tx_queue, down, rx, handed, fresh>>
  <2>1. CurIn(up') \subseteq CurIn(up) /\ NoTwice(up')
    BY <1>q, <1>9, TailFacts DEF PlacesInv
  <2>2. QED
    BY <1>9, <2>1 DEF PlacesInv
<1>10. CASE down # <<>> /\ down' = Tail(down) /\ UNCHANGED <<tx_queue, up, rx, handed, fresh>>
  <2>1. CurIn(down') \subseteq CurIn(down) /\ NoTwice(down')
    BY <1>q, <1>10, TailFacts DEF PlacesInv
  <2>2. QED
    BY <1>10, <2>1 DEF PlacesInv
<1>11. CASE NodeReset
  <2>1. /\ CurIn(up') = {} /\ NoTwice(up')
        /\ CurIn(down') = {} /\ NoTwice(down')
    BY <1>11, <1>q, StaleFacts, Clearable DEF NodeReset
  <2>2. tx_queue' = <<>> /\ rx' = <<>> /\ handed' = {} /\ fresh' = {}
    BY <1>11 DEF NodeReset
  <2>3. QED
    BY <2>1, <2>2, EmptyFacts DEF PlacesInv
<1>12. CASE GatewayRestart
  <2>1. up' = <<>> /\ UNCHANGED <<tx_queue, down, rx, handed, fresh>>
    BY <1>12 DEF GatewayRestart, nodeVars, history
  <2>2. QED
    BY <2>1, EmptyFacts DEF PlacesInv
<1>13. QED
  BY <1>1, <1>2, <1>3, <1>4, <1>5, <1>6, <1>7, <1>8, <1>9, <1>10, <1>11, <1>12
     DEF Next, helloTask, rxTask, station, Fault, Boot, GoQuiet, WaitExpires,
     AckWhileBooting, OnOther, LoseUp, LoseDown, vars, nodeVars, wireVars, history

\* The chunks on their way back and the chunks counted are chunks the station has.
LEMMA AckedStep ==
    TypeOK /\ AckedInv /\ PlacesInv /\ [Next]_vars => AckedInv'
<1> SUFFICES ASSUME TypeOK, AckedInv, PlacesInv, [Next]_vars
             PROVE  AckedInv'
  OBVIOUS
<1>q. up \in Seq(Frame) /\ down \in Seq(Ack) /\ rx \in Seq(Load)
  BY DEF TypeOK
<1>1. CASE UNCHANGED <<down, rx, g_hello_acks, fresh, stored>>
  BY <1>1 DEF AckedInv
<1>2. CASE BeginRound
  <2>1. CurIn(down') = {} /\ CurIn(rx') = {} /\ fresh' = {} /\ g_hello_acks' = 0
    BY <1>2, <1>q, StaleFacts, Clearable DEF BeginRound
  <2>2. (down' # <<>> => down # <<>>) /\ (rx' # <<>> => rx # <<>>)
    BY <1>2, <1>q, StaleFacts, Clearable DEF BeginRound
  <2>3. stored' = stored
    BY <1>2 DEF BeginRound, stationVars
  <2>4. QED
    BY <2>1, <2>2, <2>3 DEF AckedInv
<1>3. CASE AckLoad
  <2> DEFINE h == Head(down)
  <2>1. /\ h \in Ack /\ down # <<>> /\ down' = Tail(down)
        /\ rx' = <<[val |-> g_hello_acks, chunk |-> h.chunk, cur |-> h.cur]>>
    BY <1>q, <1>3 DEF AckLoad
  <2> HIDE DEF h
  <2>2. CurIn(down') \subseteq CurIn(down) /\ (h.cur => h.chunk \in CurIn(down))
    BY <1>q, <2>1, TailFacts DEF PlacesInv, h
  <2>3. (h.cur => CurIn(rx') = {h.chunk}) /\ (~h.cur => CurIn(rx') = {})
    BY <2>1, SingletonFacts
  <2>4. UNCHANGED <<g_hello_acks, fresh, stored>>
    BY <1>3 DEF AckLoad, stationVars, history
  <2>5. QED
    BY <2>1, <2>2, <2>3, <2>4 DEF AckedInv
<1>4. CASE AckStore
  <2>1. rx # <<>> /\ rx = <<Head(rx)>>
    BY <1>4, <1>q, AtMostOne DEF AckStore, TypeOK
  <2>2. fresh' \subseteq fresh \cup CurIn(rx)
    BY <1>4, <2>1, SingletonFacts DEF AckStore
  <2>3. rx' = <<>> /\ UNCHANGED <<down, stored>>
    BY <1>4 DEF AckStore, wireVars, stationVars
  <2>4. QED
    BY <2>1, <2>2, <2>3, EmptyFacts DEF AckedInv
<1>5. CASE OnHello
  <2> DEFINE h == Head(up)
  <2>1. h \in Frame /\ h.chunk # Other
    BY <1>5, <1>q DEF OnHello
  <2>2. h \in Ack
    BY <2>1 DEF Frame, Ack
  <2>3. down' = Append(down, h) /\ stored' = stored \cup {h.chunk}
    BY <1>5 DEF OnHello, Merge
  <2>4. UNCHANGED <<rx, g_hello_acks, fresh>>
    BY <1>5 DEF OnHello, nodeVars, history
  <2> HIDE DEF h
  <2>5. CurIn(down') \subseteq CurIn(down) \cup {h.chunk}
    BY <1>q, <2>2, <2>3, AppendFacts
  <2>6. QED
    BY <2>3, <2>4, <2>5 DEF AckedInv
<1>6. CASE down # <<>> /\ down' = Tail(down) /\ UNCHANGED <<rx, g_hello_acks, fresh, stored>>
  <2>1. CurIn(down') \subseteq CurIn(down)
    BY <1>q, <1>6, TailFacts DEF PlacesInv
  <2>2. QED
    BY <1>6, <2>1 DEF AckedInv
<1>7. CASE NodeReset
  <2>1. CurIn(down') = {} /\ (down' # <<>> => down # <<>>)
    BY <1>7, <1>q, StaleFacts, Clearable DEF NodeReset
  <2>2. rx' = <<>> /\ fresh' = {} /\ g_hello_acks' = 0 /\ stored' = stored
    BY <1>7 DEF NodeReset, stationVars
  <2>3. QED
    BY <2>1, <2>2, EmptyFacts DEF AckedInv
<1>8. QED
  BY <1>1, <1>2, <1>3, <1>4, <1>5, <1>6, <1>7
     DEF Next, helloTask, rxTask, station, Fault, Boot, SendChunk, GoQuiet, WaitExpires,
     OtherTraffic, Transmit, AckWhileBooting, OnOther, LoseUp, LoseDown, GatewayRestart,
     vars, nodeVars, wireVars, stationVars, history

\* The counters are the sizes of the sets they count.
LEMMA CountStep ==
    TypeOK /\ SendingInv /\ PlacesInv /\ CountInv /\ [Next]_vars => CountInv'
<1> SUFFICES ASSUME TypeOK, SendingInv, PlacesInv, CountInv, [Next]_vars
             PROVE  CountInv'
  OBVIOUS
<1>q. rx \in Seq(Load) /\ Len(rx) <= 1 /\ handed \subseteq Chunk /\ fresh \subseteq Chunk
  BY DEF TypeOK
<1>1. CASE UNCHANGED <<sent, handed, g_hello_acks, fresh, tainted, rx>>
  BY <1>1 DEF CountInv
<1>2. CASE BeginRound
  <2>1. /\ sent' = 0 /\ handed' = {} /\ g_hello_acks' = 0 /\ fresh' = {}
        /\ rx' = Stale(rx)
    BY <1>2 DEF BeginRound
  <2>2. rx' # <<>> => ~rx'[1].cur
    <3>1. rx' # <<>> => rx # <<>>
      BY <1>q, <2>1, StaleFacts, Clearable
    <3>2. rx # <<>> => 1 \in 1 .. Len(rx)
      BY <1>q
    <3>3. QED
      BY <1>q, <2>1, <3>1, <3>2, StaleFacts, Clearable
  <2>3. QED
    BY <2>1, <2>2, FS_EmptySet DEF CountInv
<1>3. CASE SendChunk
  <2>1. UNCHANGED <<g_hello_acks, fresh, tainted, rx>>
    BY <1>3 DEF SendChunk
  <2>2. sent' = Cardinality(handed')
    <3>1. CASE UNCHANGED <<sent, handed>>
      BY <3>1 DEF CountInv
    <3>2. CASE sent' = sent + 1 /\ handed' = handed \cup {next}
      <4>1. next \notin handed
        BY <1>3 DEF SendChunk, SendingInv, Chunk
      <4>2. Cardinality(handed \cup {next}) = Cardinality(handed) + 1
        BY <1>q, <4>1, ChunkFinite, FS_AddElement
      <4>3. QED
        BY <3>2, <4>2 DEF CountInv
    <3>3. QED
      BY <1>3, <3>1, <3>2 DEF SendChunk
  <2>3. QED
    BY <2>1, <2>2 DEF CountInv
<1>4. CASE AckLoad
  <2>1. rx'[1].val = g_hello_acks /\ UNCHANGED <<sent, handed, g_hello_acks, fresh, tainted>>
    BY <1>4 DEF AckLoad, history
  <2>2. QED
    BY <2>1 DEF CountInv
<1>5. CASE AckStore
  <2> DEFINE h == Head(rx)
  <2>1. rx # <<>> /\ rx = <<h>> /\ h = rx[1] /\ h \in Load
    BY <1>5, <1>q, AtMostOne DEF AckStore
  <2>2. /\ g_hello_acks' = h.val + 1 /\ rx' = <<>>
        /\ fresh' = IF h.cur THEN fresh \cup {h.chunk} ELSE fresh
        /\ UNCHANGED <<sent, handed>>
    BY <1>5 DEF AckStore
  <2>3. ~tainted' => ~tainted /\ h.cur
    BY <1>5 DEF AckStore
  <2> HIDE DEF h
  <2>4. ASSUME ~tainted'
        PROVE  g_hello_acks' = Cardinality(fresh')
    <3>1. h.cur /\ h.val = Cardinality(fresh)
      BY <2>1, <2>3, <2>4 DEF CountInv
    <3>2. CurIn(rx) = {h.chunk}
      BY <2>1, <3>1, SingletonFacts
    <3>3. h.chunk \notin fresh
      BY <3>2 DEF PlacesInv
    <3>4. Cardinality(fresh \cup {h.chunk}) = Cardinality(fresh) + 1
      BY <1>q, <3>3, ChunkFinite, FS_AddElement
    <3>5. QED
      BY <2>2, <3>1, <3>4
  <2>5. QED
    BY <2>2, <2>4 DEF CountInv
<1>6. CASE NodeReset
  BY <1>6, FS_EmptySet DEF NodeReset, CountInv
<1>7. QED
  BY <1>1, <1>2, <1>3, <1>4, <1>5, <1>6
     DEF Next, helloTask, rxTask, station, Fault, Boot, GoQuiet, WaitExpires,
     OtherTraffic, Transmit, AckWhileBooting, OnHello, OnOther, LoseUp, LoseDown,
     GatewayRestart, vars, nodeVars, history

-----------------------------------------------------------------------------
(* The two safety properties.                                              *)

\* A hello_task that ends has counted an ACK, hence the station stored a slice.
LEMMA QuietStep ==
    TypeOK /\ AckedInv /\ QuietOnlyAfterHeard /\ [Next]_vars => QuietOnlyAfterHeard'
<1> SUFFICES ASSUME TypeOK, AckedInv, QuietOnlyAfterHeard, [Next]_vars, pc' = "quiet"
             PROVE  stored' # {}
  BY DEF QuietOnlyAfterHeard
<1>1. CASE GoQuiet
  <2>1. g_hello_acks > 0
    BY <1>1 DEF GoQuiet, RoundComplete, TypeOK
  <2>2. QED
    BY <1>1, <2>1 DEF GoQuiet, stationVars, AckedInv
<1>2. CASE pc = "quiet" /\ stored \subseteq stored'
  BY <1>2 DEF QuietOnlyAfterHeard
<1>3. QED
  BY <1>1, <1>2 DEF Next, helloTask, rxTask, station, Fault, Boot, BeginRound, SendChunk,
     WaitExpires, OtherTraffic, Transmit, AckLoad, AckStore, AckWhileBooting, OnHello,
     Merge, OnOther, LoseUp, LoseDown, NodeReset, GatewayRestart, vars, nodeVars,
     stationVars

\* In an untainted round the counter counts slices, so enough of them is all.
LEMMA CleanStep ==
    IInv /\ [Next]_vars => CleanRoundIsComplete'
<1> SUFFICES ASSUME IInv, [Next]_vars, pc' = "quiet", handed' = Chunk, ~tainted'
             PROVE  stored' = Chunk
  BY DEF CleanRoundIsComplete
<1>q. fresh \subseteq handed /\ fresh \subseteq stored /\ stored \subseteq Chunk
  BY DEF IInv, TypeOK, PlacesInv, AckedInv
<1>1. CASE GoQuiet
  <2>1. UNCHANGED <<stored, handed, tainted>> /\ g_hello_acks >= sent
    BY <1>1 DEF GoQuiet, RoundComplete, stationVars, history
  <2>2. Cardinality(fresh) >= Cardinality(handed)
    BY <2>1 DEF IInv, CountInv
  <2>3. fresh = handed
    <3>1. handed \subseteq Chunk /\ fresh \subseteq Chunk
      BY DEF IInv, TypeOK
    <3>2. /\ IsFiniteSet(handed)
          /\ Cardinality(handed) \in Nat /\ Cardinality(fresh) \in Nat
      BY <3>1, ChunkFinite
    <3>3. QED
      BY <1>q, <2>2, <3>2, FS_Subset
  <2>4. QED
    BY <1>q, <2>1, <2>3
<1>2. CASE pc = "quiet" /\ handed = Chunk /\ ~tainted /\ stored \subseteq stored'
  <2>1. stored = Chunk
    BY <1>2 DEF IInv, CleanRoundIsComplete
  <2>2. stored' \subseteq Chunk
    BY TypeStep DEF IInv, TypeOK
  <2>3. QED
    BY <1>2, <2>1, <2>2
<1>3. CASE AckStore
  <2>1. pc = "quiet" /\ handed = Chunk /\ stored' = stored
    BY <1>3 DEF AckStore, stationVars
  <2>2. ~tainted
    BY <1>3 DEF AckStore
  <2>3. QED
    BY <1>2, <2>1, <2>2
<1>4. QED
  BY <1>1, <1>2, <1>3 DEF Next, helloTask, rxTask, station, Fault, Boot, BeginRound, SendChunk,
     WaitExpires, OtherTraffic, Transmit, AckLoad, AckWhileBooting, OnHello,
     Merge, OnOther, LoseUp, LoseDown, NodeReset, GatewayRestart, vars, nodeVars,
     stationVars, history

-----------------------------------------------------------------------------
LEMMA InitIInv == Init => IInv
<1> SUFFICES ASSUME Init
             PROVE  IInv
  OBVIOUS
<1>1. TypeOK
  <2>1. 1 \in 1 .. NumChunks + 1
    BY SizesAssumption
  <2>2. <<>> \in Seq(Load) /\ Len(<<>>) <= 1 /\ <<>> \in Seq(Frame) /\ <<>> \in Seq(Ack)
    OBVIOUS
  <2>3. QED
    BY <2>1, <2>2 DEF Init, TypeOK
<1>2. SendingInv /\ QuietOnlyAfterHeard /\ CleanRoundIsComplete
  BY DEF Init, SendingInv, QuietOnlyAfterHeard, CleanRoundIsComplete
<1>3. PlacesInv /\ AckedInv
  BY EmptyFacts DEF Init, PlacesInv, AckedInv
<1>4. CountInv
  BY FS_EmptySet DEF Init, CountInv
<1>5. QED
  BY <1>1, <1>2, <1>3, <1>4 DEF IInv

\* The invariant is inductive, so every reachable state satisfies it.
THEOREM Inductive == Spec => []IInv
<1>1. IInv /\ [Next]_vars => IInv'
  BY TypeStep, SendingStep, PlacesStep, AckedStep, CountStep, QuietStep, CleanStep DEF IInv
<1>2. QED
  BY InitIInv, <1>1, PTL DEF Spec

\* Every variable of node, wire and station keeps its type, whatever the sizes.
THEOREM TypeCorrect == Spec => []TypeOK
<1>1. IInv => TypeOK
  BY DEF IInv
<1>2. QED
  BY Inductive, <1>1, PTL

\* hello_task never ends on a node the station has not stored a slice of, for
\* any number of chunks, any queue depth and any number of faults.
THEOREM QuietHeard == Spec => []QuietOnlyAfterHeard
<1>1. IInv => QuietOnlyAfterHeard
  BY DEF IInv
<1>2. QED
  BY Inductive, <1>1, PTL

\* A round whose chunks the queue all took and that counted no late ACK ends
\* with the whole NDB in the station's database.
THEOREM CleanRound == Spec => []CleanRoundIsComplete
<1>1. IInv => CleanRoundIsComplete
  BY DEF IInv
<1>2. QED
  BY Inductive, <1>1, PTL
=============================================================================
