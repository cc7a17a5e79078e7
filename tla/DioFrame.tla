------------------------------ MODULE DioFrame ------------------------------
(***************************************************************************)
(* Frames of the digital link, as the firmware builds and reads them: the  *)
(* words of a test frame, the receiver that is fed bit by bit, the index a *)
(* frame carries.  What the boards do with them is in DioReceiver; SimDio  *)
(* holds the simulated node against them.                                  *)
(*                                                                         *)
(* A word of the link (a byte in the code) is a sequence of WordBits bits, *)
(* most significant first.                                                 *)
(***************************************************************************)
EXTENDS Integers, Sequences

CONSTANTS
    WordBits,    \* bits of a word (8 in the code)
    Poly,        \* the polynomial of the CRC, as a word (0x07)
    MaxPayload,  \* words of the longest payload (32)
    Body(_)      \* test payload of a frame after its first word (xorshift32)

Word == [1 .. WordBits -> {0, 1}]

\* How many values a word has: 256.
Values == LET values[i \in 0 .. WordBits] == IF i = 0 THEN 1 ELSE 2 * values[i - 1]
          IN values[WordBits]

ASSUME WordAssumption ==
    /\ WordBits \in Nat \ {0} /\ Poly \in Word
    /\ MaxPayload \in Nat \ {0} /\ MaxPayload < Values

-----------------------------------------------------------------------------
(* Plausible mistakes.                                                     *)

\* One word too many fits.
LenValidOffByOne(n) == n \in 1 .. MaxPayload + 1

\* The first word of a good frame is not looked at.
ResyncIndexNever(expected, low) == expected

-----------------------------------------------------------------------------
(* Words and frames.                                                       *)

Zero == [i \in 1 .. WordBits |-> 0]

\* 0xAA
Sync == [i \in 1 .. WordBits |-> i % 2]

Value(word) ==
    LET value[i \in 0 .. WordBits] == IF i = 0 THEN 0 ELSE 2 * value[i - 1] + word[i]
    IN value[WordBits]

ToWord(n) == CHOOSE w \in Word : Value(w) = n % Values

\* esps_dio_crc8: a word is added, then shifted out bit by bit.
Added(crc, word) == [j \in 1 .. WordBits |-> (crc[j] + word[j]) % 2]
Divided(c) ==
    [j \in 1 .. WordBits |-> ((IF j < WordBits THEN c[j + 1] ELSE 0) + (c[1] * Poly[j])) % 2]

Crc(crc, word) ==
    LET shifted[i \in 0 .. WordBits] ==
            IF i = 0 THEN Added(crc, word) ELSE Divided(shifted[i - 1])
    IN shifted[WordBits]

\* The same, word after word.
Checksum(words) ==
    LET sum[i \in 0 .. Len(words)] == IF i = 0 THEN Zero ELSE Crc(sum[i - 1], words[i])
    IN sum[Len(words)]

\* esps_dio_testframe_payload: the first word carries the low bits of the number.
TestPayload(k) == <<ToWord(k)>> \o Body(k)

\* esps_dio_frame_build: SYNC | LEN | PAYLOAD | CRC(LEN | PAYLOAD).
FrameWords(payload) ==
    LET body == <<ToWord(Len(payload))>> \o payload
    IN <<Sync>> \o body \o <<Checksum(body)>>

\* esps_dio_txbits_next: word after word, most significant bit first.
FrameBits(k) ==
    LET words == FrameWords(TestPayload(k))
    IN [i \in 1 .. WordBits * Len(words) |->
            words[((i - 1) \div WordBits) + 1][((i - 1) % WordBits) + 1]]

\* esps_dio_resync_index: the next index whose low bits are those of low.
ResyncIndex(expected, low) == expected + ((Value(low) - expected) % Values)

\* Whether the received payload differs from the zero-padded expected one.
Differs(payload, expected) ==
    \E i \in DOMAIN payload :
        payload[i] # (IF i <= Len(expected) THEN expected[i] ELSE Zero)

-----------------------------------------------------------------------------
(* esps_dio_rx_push_bit.                                                   *)

\* What is left in the receiver after a frame boundary (the old payload stays in
\* memory, and is overwritten before it is read again).
RxInit == [state |-> "HUNT", acc |-> Zero, nbits |-> 0, len |-> 0, crc |-> Zero,
           payload |-> <<>>]

LenValid(n) == n \in 1 .. MaxPayload

None == [result |-> "NONE", payload |-> <<>>]

\* The receiver in state rx has read a whole word.
TakeWord(rx, word) ==
    CASE rx.state = "LEN" /\ ~LenValid(Value(word)) -> RxInit
      [] rx.state = "LEN" /\ LenValid(Value(word)) ->
            [RxInit EXCEPT !.state = "PAYLOAD", !.len = Value(word), !.crc = Crc(Zero, word)]
      [] rx.state = "PAYLOAD" ->
            [rx EXCEPT !.payload = Append(@, word), !.crc = Crc(@, word),
                       !.acc = Zero, !.nbits = 0,
                       !.state = IF Len(rx.payload) + 1 >= rx.len THEN "CRC" ELSE "PAYLOAD"]
      [] rx.state = "CRC" -> RxInit

Completed(rx, word) ==
    CASE rx.state = "LEN" /\ ~LenValid(Value(word)) -> [None EXCEPT !.result = "LEN_ERR"]
      [] rx.state = "CRC" -> [result |-> IF word = rx.crc THEN "OK" ELSE "CRC_ERR",
                              payload |-> rx.payload]
      [] OTHER -> None

Shifted(rx, bit) == Append(Tail(rx.acc), bit)
WordDone(rx) == rx.state # "HUNT" /\ rx.nbits = WordBits - 1

PushBit(rx, bit) ==
    IF WordDone(rx) THEN TakeWord(rx, Shifted(rx, bit))
    ELSE IF rx.state # "HUNT" THEN [rx EXCEPT !.acc = Shifted(rx, bit), !.nbits = @ + 1]
    ELSE IF Shifted(rx, bit) = Sync THEN [RxInit EXCEPT !.state = "LEN"]
    ELSE [rx EXCEPT !.acc = Shifted(rx, bit)]

Pushed(rx, bit) == IF WordDone(rx) THEN Completed(rx, Shifted(rx, bit)) ELSE None
=============================================================================
