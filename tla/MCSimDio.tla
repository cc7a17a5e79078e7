------------------------------ MODULE MCSimDio ------------------------------
(* Words of two bits: four frames in a row lost are the 256 of the code. *)
EXTENDS SimDio

MCBody(k) == IF k % 3 = 1 THEN <<Sync>> ELSE <<>>
MCPoly == <<1, 1>>

\* One event of each kind within two ticks.
MCLimits == [key \in {"dio.edge", "link.lost.frames", "link.frame_ok", "link.crc_err"} |->
                [window |-> 2, max |-> 1]]
=============================================================================
