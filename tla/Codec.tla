------------------------------- MODULE Codec --------------------------------
(***************************************************************************)
(* The framings that carry frame bodies over a byte stream, end to end:    *)
(*                                                                         *)
(*   "up"    a board encodes with COBS (cobs.c), the gateway decodes with  *)
(*           StreamingDecoder;                                             *)
(*   "down"  the gateway encodes with COBS (cobs.py), the board decodes    *)
(*           with esps_enlp_stream_feed and its bounded buffer;            *)
(*   "tcp"   both ends use a length prefix of two bytes, and the decoder   *)
(*           is LengthPrefixDecoder.                                       *)
(*                                                                         *)
(* The receiver is handed the stream in chunks cut anywhere.  A serial     *)
(* line flips and loses bytes, and the text a board prints between two     *)
(* frames travels on the same line.                                        *)
(*                                                                         *)
(* A body is a sequence of bytes.  Header and CRC are abstracted to the    *)
(* set of bodies the two ends exchange: parse accepts a member of it and   *)
(* nothing else.  Every byte on the line carries, as history, the number   *)
(* of the frame it was sent with, so that a decoded frame can be told from *)
(* the copy of another.                                                    *)
(***************************************************************************)
EXTENDS Integers, Sequences, FiniteSets, SequencesExt

CONSTANTS
    MaxByte,    \* greatest value of a byte (255)
    MaxRun,     \* data bytes of the longest COBS block (254)
    RawCap,     \* bytes raw_buf holds (ESPS_ENLP_STREAM_MAX)
    Bodies,     \* direction -> the bodies sent in it
    MaxFrames,  \* bound: frames sent
    MaxFaults   \* bound: flipped, lost and printed bytes together

Byte == 0 .. MaxByte
FullCode == MaxRun + 1       \* the code of a block no zero ends (255)
Directions == DOMAIN Bodies

ASSUME CodecAssumption ==
    /\ MaxRun \in Nat \ {0} /\ MaxByte \in Nat /\ FullCode <= MaxByte
    /\ RawCap \in Nat \ {0}
    /\ Directions \subseteq {"up", "down", "tcp"}
    /\ \A d \in Directions : Bodies[d] \subseteq Seq(Byte)
    /\ MaxFrames \in Nat /\ MaxFaults \in Nat
    \* ESPS_ENLP_STREAM_MAX is ESPS_COBS_MAX_ENCODED of the longest body.
    /\ "down" \in Directions =>
          \A body \in Bodies["down"] : Len(body) + (Len(body) \div MaxRun) + 1 <= RawCap
    \* The length of a message is a number of two bytes.
    /\ "tcp" \in Directions =>
          \A body \in Bodies["tcp"] : Len(body) < (MaxByte + 1) * (MaxByte + 1)

VARIABLES
    dir,     \* the direction and the framing of this connection
    sent,    \* bodies sent so far
    wire,    \* bytes on the line
    buf,     \* bytes the decoder holds back
    out,     \* events the decoder returned
    open,    \* whether the receiver still reads
    hurt,    \* history: frames the line, or the end of the connection, touched
    fed,     \* history: bytes the decoder was given
    faults   \* faults so far

codecVars == <<dir, sent, wire, buf, out, open, hurt, fed, faults>>

Values(tagged) == [i \in DOMAIN tagged |-> tagged[i].byte]
Tagged(bytes, k) == [i \in DOMAIN bytes |-> [byte |-> bytes[i], frame |-> k]]
FramesOf(tagged) == {tagged[i].frame : i \in DOMAIN tagged}
\* Positions of the zeros of s at i or after it.
ZerosFrom(s, i) == {j \in i .. Len(s) : s[j] = 0}
First(S) == CHOOSE i \in S : \A j \in S : i <= j
-----------------------------------------------------------------------------
(* Encoding. *)

\* cobs.encode of the gateway: block after block, each up to the next zero
\* or MaxRun bytes long; a zero right after a block is skipped.
GatewayCobs(data) ==
    LET n == Len(data)
        stop(i) == LET z == ZerosFrom(data, i) \cup {n + 1}
                   IN  IF First(z) - i > MaxRun THEN i + MaxRun ELSE First(z)
        from[i \in 1 .. n + 1] ==
            LET e == stop(i)
                block == <<e - i + 1>> \o SubSeq(data, i, e - 1)
            IN  IF e > n THEN block
                ELSE IF data[e] # 0 THEN block \o from[e]
                ELSE IF e = n THEN block \o <<1>>
                ELSE block \o from[e + 1]
    IN  from[1]

\* esps_cobs_encode of the board: byte by byte, closing the block at a zero
\* and when it is full.
CloseBlock(acc, code) == [done |-> acc.done \o <<code>> \o acc.block, block |-> <<>>]
TakeByte(acc, b) ==
    LET grown == [acc EXCEPT !.block = Append(@, b)]
    IN  IF b = 0 THEN CloseBlock(acc, Len(acc.block) + 1)
        ELSE IF Len(grown.block) = MaxRun THEN CloseBlock(grown, FullCode)
        ELSE grown
BoardCobs(data) ==
    LET taken[i \in 0 .. Len(data)] ==
            IF i = 0 THEN [done |-> <<>>, block |-> <<>>] ELSE TakeByte(taken[i - 1], data[i])
        last == taken[Len(data)]
    IN  CloseBlock(last, Len(last.block) + 1).done

\* The length prefix of TCP, greatest byte first.
Prefixed(body) == <<Len(body) \div (MaxByte + 1), Len(body) % (MaxByte + 1)>> \o body

OnTheWire(d, body) ==
    CASE d = "up"   -> Append(BoardCobs(body), 0)
      [] d = "down" -> Append(GatewayCobs(body), 0)
      [] d = "tcp"  -> Prefixed(body)
-----------------------------------------------------------------------------
(* Decoding. *)

\* Whether the block that ended with this code hides a zero after its bytes.
HidesZeroAlways(code, more) == more
HidesZero(code, more) == code < FullCode /\ more

\* cobs.decode and esps_cobs_decode: the one body a block stands for, or no
\* body when a code runs past its end.
Uncobs(block) ==
    LET n == Len(block)
        from[i \in 1 .. n + 1] ==
            IF i > n THEN {<<>>}
            ELSE LET next == i + block[i]
                     zero == IF HidesZero(block[i], next <= n) THEN <<0>> ELSE <<>>
                 IN  IF block[i] = 0 \/ next > n + 1 THEN {}
                     ELSE {SubSeq(block, i + 1, next - 1) \o zero \o rest : rest \in from[next]}
    IN  from[1]

Parses(body) == body \in Bodies[dir]

Raw(bytes) == <<[kind |-> "raw", body |-> <<>>, bytes |-> bytes]>>
Decoded(body, bytes) == <<[kind |-> "frame", body |-> body, bytes |-> bytes]>>

\* _decode_block and stream_flush_segment: a block that is not a frame is
\* console text.
DecodeBlockDropsText(bytes) ==
    LET bodies == {b \in Uncobs(Values(bytes)) : Parses(b)}
    IN  IF bodies = {} THEN <<>> ELSE Decoded(CHOOSE b \in bodies : TRUE, bytes)
DecodeBlock(bytes) ==
    LET bodies == {b \in Uncobs(Values(bytes)) : Parses(b)}
    IN  IF bodies = {} THEN Raw(bytes) ELSE Decoded(CHOOSE b \in bodies : TRUE, bytes)

\* StreamingDecoder.feed: cut at each delimiter; nothing lies between two of
\* them in a row.
CobsFeed(s) ==
    LET n == Len(s)
        from[i \in 1 .. n + 1] ==
            LET zeros == ZerosFrom(Values(s), i)
                d == First(zeros)
            IN  IF zeros = {} THEN [events |-> <<>>, rest |-> SubSeq(s, i, n)]
                ELSE [events |-> (IF d = i THEN <<>> ELSE DecodeBlock(SubSeq(s, i, d - 1)))
                                 \o from[d + 1].events,
                      rest |-> from[d + 1].rest]
    IN  from[1]

\* raw_buf has no room for another byte.
Full(held) == Len(held) >= RawCap

\* esps_enlp_stream_feed: byte by byte; a full buffer is flushed as text.
PushByte(acc, t) ==
    IF t.byte = 0
    THEN [events |-> acc.events \o (IF acc.rest = <<>> THEN <<>> ELSE DecodeBlock(acc.rest)),
          rest |-> <<>>]
    ELSE IF Full(acc.rest)
    THEN [events |-> acc.events \o Raw(acc.rest), rest |-> <<t>>]
    ELSE [acc EXCEPT !.rest = Append(@, t)]
BoardFeed(held, chunk) ==
    LET pushed[i \in 0 .. Len(chunk)] ==
            IF i = 0 THEN [events |-> <<>>, rest |-> held] ELSE PushByte(pushed[i - 1], chunk[i])
    IN  pushed[Len(chunk)]

\* LengthPrefixDecoder.feed: as many whole messages as the buffer holds.  bytes are those
\* of the stream; the code's raw event leaves out the two of the length.
PrefixFeed(s) ==
    LET n == Len(s)
        from[i \in 1 .. n + 1] ==
            LET total == 2 + s[i].byte * (MaxByte + 1) + s[i + 1].byte
                bytes == SubSeq(s, i, i + total - 1)
                body == SubSeq(Values(bytes), 3, total)
            IN  IF n - i + 1 < 2 \/ n - i + 1 < total
                THEN [events |-> <<>>, rest |-> SubSeq(s, i, n)]
                ELSE [events |-> (IF Parses(body) THEN Decoded(body, bytes) ELSE Raw(bytes))
                                 \o from[i + total].events,
                      rest |-> from[i + total].rest]
    IN  from[1]

Fed(d, held, chunk) ==
    CASE d = "up"   -> CobsFeed(held \o chunk)
      [] d = "down" -> BoardFeed(held, chunk)
      [] d = "tcp"  -> PrefixFeed(held \o chunk)

\* flush: an undelimited tail is console text; the board has no flush.
Flushed(d, held) == IF d = "down" \/ held = <<>> THEN <<>> ELSE Raw(held)
-----------------------------------------------------------------------------
CodecInit ==
    /\ dir \in Directions
    /\ sent = <<>> /\ wire = <<>> /\ buf = <<>> /\ out = <<>> /\ fed = <<>>
    /\ open = TRUE /\ hurt = {} /\ faults = 0

Send(body) ==
    /\ open /\ Len(sent) < MaxFrames
    /\ sent' = Append(sent, body)
    /\ wire' = wire \o Tagged(OnTheWire(dir, body), Len(sent) + 1)
    /\ UNCHANGED <<dir, buf, out, open, hurt, fed, faults>>

\* The receiver reads what the line holds, or the first part of it.
Feed(n) ==
    /\ open
    /\ LET chunk == SubSeq(wire, 1, n)
           result == Fed(dir, buf, chunk)
       IN  /\ out' = out \o result.events
           /\ buf' = result.rest
           /\ fed' = fed \o chunk
    /\ wire' = SubSeq(wire, n + 1, Len(wire))
    /\ UNCHANGED <<dir, sent, open, hurt, faults>>

\* Link.stop: the transport is closed and the decoder flushed.
Close ==
    /\ open /\ open' = FALSE
    /\ out' = out \o Flushed(dir, buf)
    /\ buf' = IF dir = "down" THEN buf ELSE <<>>
    /\ hurt' = hurt \cup FramesOf(buf \o wire)
    /\ wire' = <<>>
    /\ UNCHANGED <<dir, sent, fed, faults>>

Fault ==
    /\ open /\ dir # "tcp" /\ faults < MaxFaults
    /\ faults' = faults + 1
    /\ UNCHANGED <<dir, sent, buf, out, open, fed>>

\* A damaged delimiter joins its frame to the next one.
HurtAt(i) == {wire[i].frame} \cup (IF wire[i].byte = 0 THEN {wire[i].frame + 1} ELSE {})

Flip(i, b) ==
    /\ Fault
    /\ wire[i].byte # b
    /\ wire' = [wire EXCEPT ![i].byte = b]
    /\ hurt' = hurt \cup HurtAt(i)

Lose(i) ==
    /\ Fault
    /\ wire' = RemoveAt(wire, i)
    /\ hurt' = hurt \cup HurtAt(i)

\* The banner of the boot ROM, or a printf: text without a delimiter, which
\* the decoder takes for the beginning of the next frame.
PrintText(b) ==
    /\ Fault /\ dir = "up"
    /\ wire' = wire \o Tagged(<<b>>, Len(sent) + 1)
    /\ hurt' = hurt \cup {Len(sent) + 1}

CodecNext ==
    \/ \E body \in Bodies[dir] : Send(body)
    \/ \E n \in 1 .. Len(wire) : Feed(n)
    \/ \E i \in 1 .. Len(wire), b \in Byte : Flip(i, b)
    \/ \E i \in 1 .. Len(wire) : Lose(i)
    \/ \E b \in Byte \ {0} : PrintText(b)
    \/ Close

CodecSpec == CodecInit /\ [][CodecNext]_codecVars
-----------------------------------------------------------------------------
TaggedBytes == Seq([byte : Byte, frame : 1 .. MaxFrames + 1])

\* Less than the message its first two bytes announce.
Incomplete(s) == Len(s) < 2 \/ Len(s) < 2 + s[1].byte * (MaxByte + 1) + s[2].byte

(* The type invariant: the decoder of the board never holds more than its  *)
(* buffer, and the others never hold a complete message back.              *)
CodecTypeOK ==
    /\ dir \in Directions
    /\ sent \in Seq(Bodies[dir]) /\ Len(sent) <= MaxFrames
    /\ wire \in TaggedBytes /\ buf \in TaggedBytes /\ fed \in TaggedBytes
    /\ \A i \in DOMAIN out :
          /\ out[i].kind \in {"frame", "raw"}
          /\ out[i].body \in Bodies[dir] \cup {<<>>}
          /\ out[i].bytes \in TaggedBytes
    /\ open \in BOOLEAN
    /\ hurt \subseteq 1 .. MaxFrames + 2
    /\ faults \in 0 .. MaxFaults
    /\ dir = "down" => Len(buf) <= RawCap
    /\ dir = "up" => 0 \notin ToSet(Values(buf))
    /\ dir = "tcp" => Incomplete(buf)

(* The bytes of frame k have all been read, its delimiter included. *)
Read(k) == k \in 1 .. Len(sent) /\ k \notin FramesOf(wire \o buf)

\* The events that are frame k: decoded from its bytes, and from no others.
Copies(k) == {i \in DOMAIN out : out[i].kind = "frame" /\ FramesOf(out[i].bytes) = {k}}

(* A frame whose bytes and whose preceding delimiter the line left alone   *)
(* is decoded, once, to the body that was sent, however the stream was cut *)
(* into chunks and whatever was damaged, lost or printed before it: one    *)
(* fault costs one frame, or two if it hits a delimiter.                   *)
IntactFramesArrive ==
    \A k \in (1 .. Len(sent)) \ hurt :
        Read(k) => \E i \in DOMAIN out : Copies(k) = {i} /\ out[i].body = sent[k]

\* What reaches the application of a stream: all of it, delimiters aside.
Visible(bytes) ==
    LET shown[i \in 0 .. Len(bytes)] ==
            IF i = 0 THEN <<>>
            ELSE IF dir # "tcp" /\ bytes[i].byte = 0 THEN shown[i - 1]
            ELSE Append(shown[i - 1], bytes[i])
    IN  shown[Len(bytes)]

(* Every byte the decoder was given is in a frame, in console text, or     *)
(* still held back: in arrival order, none dropped and none shown twice.   *)
EveryByteSurfaces ==
    FlattenSeq([i \in DOMAIN out |-> out[i].bytes]) \o buf = Visible(fed)
=============================================================================
