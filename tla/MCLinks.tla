------------------------------ MODULE MCLinks -------------------------------
(* A Morse board beside a link of any other kind, and two Morse sources    *)
(* whose paths sum alike.                                                  *)
EXTENDS Links, TLC

CONSTANTS l1, l2
MCLink == {l1, l2}
MCBase(l) == 0
MCKinds == l1 :> {"morse"} @@ l2 :> {"serial", "tcp", "replay"}
MCSources == [l \in MCLink |-> {"morse", "replay"}]
=============================================================================
