----------------------------- MODULE MorseLines -----------------------------
(***************************************************************************)
(* What a board of the Morse duplex bench promises to print of the hand it *)
(* decodes, without its clocks: which line may follow which.  MorseLink    *)
(* implements it, and MorseSketch relies on it.                            *)
(***************************************************************************)
EXTENDS MorseText

CONSTANTS
    Durations,  \* what a duration may be
    Codes       \* what a letter may be made of

VARIABLES
    level,     \* of the wire, as the decoder last saw it
    in_pulse,  \* it saw the wire rise
    fell,      \* it has decided a symbol since the board started
    letter,    \* a letter is under way
    word       \* a letter was closed since the last word

lineVars == <<level, in_pulse, fell, letter, word, verbose, printed>>

LinesInit ==
    /\ level \in {0, 1} /\ in_pulse = FALSE /\ fell = FALSE
    /\ letter = FALSE /\ word = FALSE
    /\ verbose \in BOOLEAN /\ printed = <<>>

\* The wire rises: the silence is over, and its length is printed.
Rise ==
    /\ level = 0 /\ level' = 1 /\ in_pulse' = TRUE
    /\ \/ fell /\ \E ms \in Durations : printed' = IfVerbose(Line("gap", "none", ms))
       \/ ~fell /\ printed' = <<>>
    /\ UNCHANGED <<fell, letter, word, verbose>>

\* The wire falls: a symbol and at once its duration, or noise, or no line at all if
\* the board has not seen it rise.
Fall ==
    /\ level = 1 /\ level' = 0 /\ in_pulse' = FALSE
    /\ \/ /\ in_pulse
          /\ \E s \in {".", "-"}, ms \in Durations :
                printed' = <<Line("symbol", s, ms)>> \o IfVerbose(Line("pulse", "none", ms))
          /\ fell' = TRUE /\ letter' = TRUE
       \/ /\ in_pulse
          /\ \E ms \in Durations : printed' = IfVerbose(Line("filtered", "none", ms))
          /\ UNCHANGED <<fell, letter>>
       \/ ~in_pulse /\ printed' = <<>> /\ UNCHANGED <<fell, letter>>
    /\ UNCHANGED <<word, verbose>>

WordLine(ms) == Line("word", "none", ms)

\* The silence closes the letter, and the word with it if nobody looked in between.
CloseLetter ==
    /\ level = 0 /\ letter /\ letter' = FALSE
    /\ \E kind \in {"letter", "unknown"}, code \in Codes, ms \in Durations :
          \/ printed' = <<Line(kind, code, ms)>> /\ word' = TRUE
          \/ printed' = <<Line(kind, code, ms), WordLine(ms)>> /\ word' = FALSE
    /\ UNCHANGED <<level, in_pulse, fell, verbose>>

CloseWord ==
    /\ level = 0 /\ word /\ ~letter /\ word' = FALSE
    /\ \E ms \in Durations : printed' = <<WordLine(ms)>>
    /\ UNCHANGED <<level, in_pulse, fell, letter, verbose>>

NothingPrinted ==
    /\ printed' = <<>>
    /\ UNCHANGED <<level, in_pulse, fell, letter, word, verbose>>

LinesNext == Rise \/ Fall \/ CloseLetter \/ CloseWord \/ NothingPrinted

\* A silence that lasts closes what is under way.
LinesSpec ==
    /\ LinesInit /\ [][LinesNext]_lineVars
    /\ WF_lineVars(CloseLetter) /\ WF_lineVars(CloseWord)
==============================================================================
