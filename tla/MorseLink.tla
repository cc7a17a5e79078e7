------------------------------ MODULE MorseLink ------------------------------
(***************************************************************************)
(* The receiving side of the Morse duplex bench: an interrupt stamps the   *)
(* edges of the wire, the loop of the board drains them into a decoder and *)
(* looks at the silence.  What the decoder decides is printed, line by     *)
(* line, on the serial port of the board.                                  *)
(*                                                                         *)
(* The wire is whatever the other board, its operator and the noise make   *)
(* of it.  The decoder is the same machine in the sketch, in esps_morse    *)
(* and in the gateway; its clock wraps, so every duration is a difference  *)
(* of stamps modulo Wrap.  micros() is counted in whole milliseconds.      *)
(***************************************************************************)
EXTENDS MorseText, SequencesExt

CONSTANTS
    debounce_ms,  \* a shorter pulse is noise (15)
    dot_dash_ms,  \* shorter is a dot (300)
    letter_ms,    \* a silence this long ends a letter (700)
    word_ms,      \* a silence this long ends a word (1800)
    Wrap,         \* milliseconds after which the clock wraps (2^32 us)
    MaxSymbol,    \* symbols a letter holds (8)
    RingSize,     \* edges the buffer of the interrupt holds (63)
    Table,        \* the codes that are letters
    MaxLag,       \* bound: milliseconds between two turns of the loop
    MaxHold,      \* bound: milliseconds the wire stays high
    MaxPulses,    \* bound: pulses of a letter
    MaxGlitches   \* bound: pulses shorter than debounce_ms between two others

\* A pause this long must end a letter: the loop is late by MaxLag, and each glitch hides
\* the silence for its own length and for two turns, one for each of its edges.
OldAge == letter_ms + MaxLag + MaxGlitches * ((debounce_ms - 1) + 2 * MaxLag)

ASSUME MorseAssumption ==
    /\ {debounce_ms, dot_dash_ms, letter_ms, word_ms, Wrap, MaxSymbol, RingSize} \subseteq Nat \ {0}
    /\ {MaxLag, MaxHold, MaxPulses, MaxGlitches} \subseteq Nat
    /\ letter_ms < word_ms /\ MaxLag < letter_ms
    /\ word_ms + MaxLag < Wrap /\ MaxHold < Wrap
    /\ OldAge < Wrap
    /\ \A code \in Table : code \in Seq({".", "-"}) /\ Len(code) <= MaxSymbol

VARIABLES
    now,          \* the clock of the board
    wire,         \* the level of the wire
    ring,         \* edges stamped by the interrupt, not drained yet
    dec,          \* the decoder
    at,           \* where the loop is: "drain" or "silence"
    lag,          \* since the last turn of the loop
    wireAge,      \* history: how long the wire has been high
    sinceFall,    \* history: how long since the last pulse that was no glitch
    glitches,     \* history: pulses shorter than debounce_ms since then
    pause,        \* history: what pause the wire rose after
    keyed,        \* history: the pulses since the last closed letter
    drained,      \* history: how many of them the decoder has seen
    missed        \* history: the ring refused an edge

wiring == <<wire, ring>>
receiver == <<dec, at, lag, verbose>>
wireHistory == <<wireAge, sinceFall, glitches, pause, missed>>
history == <<wireHistory, keyed, drained>>
boardVars == <<now, wiring, receiver, printed, history>>

-----------------------------------------------------------------------------
(* Plausible mistakes.                                                     *)

\* Durations subtracted without regard to the wrap.
ElapsedUnbounded(t, then) == t - then

\* Noise counts as the end of a pulse.
NoiseEndsSilence(d, t) == [d EXCEPT !.level = 0, !.in_pulse = FALSE, !.t_fall = t]

-----------------------------------------------------------------------------
(* The decoder.                                                            *)

Elapsed(t, then) == (t - then) % Wrap

NewDecoder(lvl) ==
    [level |-> lvl, in_pulse |-> FALSE, have_fall |-> FALSE, measuring |-> FALSE,
     overflowed |-> FALSE, letter_since_word |-> FALSE, t_rise |-> 0, t_fall |-> 0,
     symbol |-> <<>>]

Class(ms) == IF ms < dot_dash_ms THEN "." ELSE "-"

\* Below the debounce: not a symbol, and the silence goes on through it.
NoiseFiltered(d, t) == [d EXCEPT !.level = 0, !.in_pulse = FALSE]

Fits(d) == Len(d.symbol) < MaxSymbol

SymbolTaken(d, t) ==
    [d EXCEPT !.level = 0, !.in_pulse = FALSE, !.t_fall = t,
              !.have_fall = TRUE, !.measuring = TRUE,
              !.symbol = IF Fits(d) THEN Append(@, Class(Elapsed(t, d.t_rise))) ELSE @,
              !.overflowed = @ \/ ~Fits(d)]

\* One edge, already stamped.  A level the decoder already has is a stale reading.
Edge(d, lvl, t) ==
    CASE lvl = d.level -> d
      [] lvl = 1 /\ d.level = 0 -> [d EXCEPT !.level = 1, !.t_rise = t, !.in_pulse = TRUE]
      [] lvl = 0 /\ d.level = 1 /\ ~d.in_pulse -> [d EXCEPT !.level = 0]
      [] lvl = 0 /\ d.level = 1 /\ d.in_pulse ->
            IF Elapsed(t, d.t_rise) < debounce_ms THEN NoiseFiltered(d, t) ELSE SymbolTaken(d, t)

EdgeLines(d, lvl, t) ==
    LET ms == Elapsed(t, d.t_rise)
    IN CASE lvl = d.level -> <<>>
         [] lvl = 1 /\ d.level = 0 ->
                IF d.have_fall THEN IfVerbose(Line("gap", "none", Elapsed(t, d.t_fall))) ELSE <<>>
         [] lvl = 0 /\ d.level = 1 /\ ~d.in_pulse -> <<>>
         [] lvl = 0 /\ d.level = 1 /\ d.in_pulse ->
                (IF ms >= debounce_ms THEN <<Line("symbol", Class(ms), ms)>> ELSE <<>>)
                \o IfVerbose(Line(IF ms < debounce_ms THEN "filtered" ELSE "pulse", "none", ms))

\* CODE_TO_CHAR, unless symbols were dropped.
IsLetter(d) == d.symbol \in Table /\ ~d.overflowed

LetterDue(d, t) == d.symbol # <<>> /\ Elapsed(t, d.t_fall) >= letter_ms
WordDue(d, t) ==
    (d.letter_since_word \/ LetterDue(d, t)) /\ Elapsed(t, d.t_fall) >= word_ms

Measures(d) == d.measuring /\ d.level = 0

\* One look at the silence: it closes the letter, then the word.
Silence(d, t) ==
    LET code == IF LetterDue(d, t) THEN <<>> ELSE d.symbol
        since == (d.letter_since_word \/ LetterDue(d, t)) /\ ~WordDue(d, t)
    IN  IF ~Measures(d) THEN d
        ELSE [d EXCEPT !.symbol = code, !.letter_since_word = since,
                       !.overflowed = @ /\ ~LetterDue(d, t),
                       !.measuring = code # <<>> \/ since]

SilenceLines(d, t) ==
    LET ms == Elapsed(t, d.t_fall)
    IN (IF Measures(d) /\ LetterDue(d, t)
        THEN <<Line(IF IsLetter(d) THEN "letter" ELSE "unknown", d.symbol, ms)>> ELSE <<>>)
       \o (IF Measures(d) /\ WordDue(d, t) THEN <<Line("word", "none", ms)>> ELSE <<>>)
-----------------------------------------------------------------------------
(* The wire, the interrupt and the loop.                                   *)

\* The ages of the history stop counting where nothing depends on them.
Aged(age) == IF age < OldAge THEN age + 1 ELSE age

BoardInit ==
    /\ now = 0 /\ wire \in {0, 1}
    /\ ring = <<>> /\ dec = NewDecoder(wire) /\ at = "drain" /\ lag = 0
    /\ verbose \in BOOLEAN /\ printed = <<>>
    /\ wireAge = 0 /\ sinceFall = OldAge /\ pause = "none"
    /\ glitches = 0 /\ keyed = <<>> /\ drained = 0 /\ missed = FALSE

\* A pause that must end a letter, one that must not, and one that may: give or
\* take the lateness of the loop, and the glitches that hide the end of it.
PauseOf(age) ==
    IF age < letter_ms - MaxLag THEN "short" ELSE IF age >= OldAge THEN "long" ELSE "either"

\* The wire changes, and isrFlanco stamps the edge.  The pulse that ends is one of
\* those keyed if it rose before the eyes of the board and is no glitch.
WireChanges ==
    /\ wire = 0 => Len(keyed) < MaxPulses
    /\ ~missed
    /\ wire' = 1 - wire
    /\ LET fits == Len(ring) < RingSize
           pulse == wire = 1 /\ wireAge >= debounce_ms /\ pause # "none"
           glitch == wire = 1 /\ wireAge < debounce_ms
       IN  /\ ring' = IF fits THEN Append(ring, [level |-> wire', t |-> now]) ELSE ring
           /\ missed' = (missed \/ ~fits)
           /\ glitches' = IF pulse THEN 0 ELSE IF glitch THEN glitches + 1 ELSE glitches
           /\ glitches' <= MaxGlitches
           /\ sinceFall' = IF pulse THEN 0 ELSE sinceFall
           /\ keyed' = IF pulse THEN Append(keyed, [symbol |-> Class(wireAge), pause |-> pause])
                                ELSE keyed
    /\ wireAge' = 0
    /\ pause' = IF wire = 0 THEN PauseOf(sinceFall) ELSE "none"
    /\ printed' = <<>>
    /\ UNCHANGED <<now, receiver, drained>>

\* loop() takes one edge from the buffer: procesarFlanco.
Drain ==
    /\ at = "drain" /\ ring # <<>>
    /\ LET e == Head(ring)
       IN  /\ dec' = Edge(dec, e.level, e.t)
           /\ printed' = EdgeLines(dec, e.level, e.t)
    /\ ring' = Tail(ring)
    /\ drained' = drained + (IF \E i \in DOMAIN printed' : printed'[i].kind = "symbol" THEN 1 ELSE 0)
    /\ UNCHANGED <<now, wire, at, lag, verbose, wireHistory, keyed>>

Drained ==
    /\ at = "drain" /\ ring = <<>>
    /\ at' = "silence" /\ printed' = <<>>
    /\ UNCHANGED <<now, wiring, dec, lag, verbose, history>>

\* revisarSilencio, which reads the clock itself; the turn of the loop is over.
LookAtSilence ==
    /\ at = "silence"
    /\ dec' = Silence(dec, now) /\ printed' = SilenceLines(dec, now)
    /\ at' = "drain" /\ lag' = 0
    /\ IF dec.symbol # <<>> /\ dec'.symbol = <<>>
       THEN keyed' = SubSeq(keyed, drained + 1, Len(keyed)) /\ drained' = 0
       ELSE UNCHANGED <<keyed, drained>>
    /\ UNCHANGED <<now, wiring, verbose, wireHistory>>

\* A millisecond goes by.
Tick ==
    /\ lag < MaxLag
    /\ wire = 1 /\ ~missed => wireAge < MaxHold
    /\ now' = (now + 1) % Wrap
    /\ lag' = lag + 1 /\ printed' = <<>>
    /\ wireAge' = (IF wire = 1 /\ wireAge < MaxHold THEN wireAge + 1 ELSE wireAge) /\ sinceFall' = Aged(sinceFall)
    /\ UNCHANGED <<wiring, dec, at, verbose, glitches, pause, missed, keyed, drained>>

BoardNext == WireChanges \/ Drain \/ Drained \/ LookAtSilence \/ Tick

\* The loop of the board turns and time goes by.  Nobody has to press or let go.
BoardSpec ==
    /\ BoardInit /\ [][BoardNext]_boardVars
    /\ WF_boardVars(Drain \/ Drained \/ LookAtSilence) /\ WF_boardVars(Tick)
-----------------------------------------------------------------------------
(* Properties.                                                             *)

BoardCodes == UNION {[1 .. n -> {".", "-"}] : n \in 0 .. MaxSymbol}

BoardTypeOK ==
    /\ now \in 0 .. Wrap - 1 /\ wire \in {0, 1} /\ at \in {"drain", "silence"}
    /\ dec.symbol \in BoardCodes /\ dec.level \in {0, 1}
    /\ {dec.t_rise, dec.t_fall} \subseteq 0 .. Wrap - 1
    /\ Len(ring) <= RingSize /\ lag \in 0 .. MaxLag
    /\ drained <= Len(keyed) \/ missed

\* The first n of the pulses keyed are one letter of the hand: no pause inside it
\* must end a letter, and the one after it may.
IsLetterOfTheHand(n) ==
    /\ \A i \in 2 .. n : keyed[i].pause # "long"
    /\ IF n < Len(keyed) THEN keyed[n + 1].pause # "short" ELSE sinceFall >= letter_ms

\* A letter that is printed is the pulses of the wire between two letter pauses,
\* whatever glitches fell among them, and never a code cut short.
LettersAreAsKeyed ==
    [][\A i \in DOMAIN printed' :
          printed'[i].dir = "RX" /\ printed'[i].kind \in {"letter", "unknown"} /\ ~missed =>
             LET code == [k \in 1 .. drained |-> keyed[k].symbol]
             IN  /\ IsLetterOfTheHand(drained)
                 /\ printed'[i].value =
                        SubSeq(code, 1, IF drained < MaxSymbol THEN drained ELSE MaxSymbol)
                 /\ (printed'[i].kind = "letter") = (code \in Table)]_boardVars

\* The board prints what MorseLines promises of it, in that order, and a silence that
\* lasts closes letter and word, across the wrap of the clock.
Lines == INSTANCE MorseLines WITH
    Durations <- 0 .. Wrap - 1, Codes <- BoardCodes,
    level <- dec.level, in_pulse <- dec.in_pulse, fell <- dec.have_fall,
    letter <- dec.symbol # <<>>, word <- dec.letter_since_word

PrintsItsLines == Lines!LinesSpec
==============================================================================
