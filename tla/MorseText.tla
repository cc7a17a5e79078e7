------------------------------ MODULE MorseText ------------------------------
(***************************************************************************)
(* What a board of the Morse duplex bench prints, as the specification of  *)
(* its lines and the board itself have it in common.  A line is a record:  *)
(* what the text says, without the wording.  The duration in a symbol line *)
(* is a ghost: the text does not have it.                                  *)
(***************************************************************************)
EXTENDS Integers, Sequences

VARIABLES
    verbose,   \* the board prints durations
    printed    \* the lines the present step prints

Line(kind, value, ms) == [dir |-> "RX", kind |-> kind, value |-> value, ms |-> ms]
IfVerbose(line) == IF verbose THEN <<line>> ELSE <<>>
==============================================================================
