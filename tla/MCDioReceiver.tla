---------------------------- MODULE MCDioReceiver ----------------------------
(* Words of two bits, in which every other one looks like a SYNC. *)
EXTENDS DioReceiver

\* Payloads of one and of two words; the second one is a SYNC.
MCBody(k) == IF k % 2 = 0 THEN <<>> ELSE <<Sync>>
MCPoly == <<1, 1>>
=============================================================================
