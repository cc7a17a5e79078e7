----------------------------- MODULE MCTimeSync -----------------------------
(* Half a dozen milliseconds of a node and of its gateway. *)
EXTENDS TimeSync
=============================================================================
