----------------------------- MODULE MCCommand -----------------------------
(* The instance of Command that TLC checks. *)
EXTENDS Command
=============================================================================
