------------------------------ MODULE MCCodec -------------------------------
(* Bytes 0 to 3 and blocks of at most two data bytes: every body meets the *)
(* boundary of the length code.                                            *)
EXTENDS Codec

\* The empty body, zeros, a full block, more than a full block, and a full
\* block with a zero after it.
Boards == {<<0>>, <<1, 2>>, <<1, 2, 0>>, <<3, 1, 2>>}
\* The gateway's encoder loses a zero after a full block: see MCCodecCobs.
Gateways == {<<0>>, <<1, 2>>, <<1, 0, 2>>}

MCBodies == [up |-> Boards, down |-> Gateways, tcp |-> Gateways]
MCDownBodies == [down |-> {<<1, 2, 0>>}]
=============================================================================
