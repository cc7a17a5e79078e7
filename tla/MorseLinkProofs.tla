--------------------------- MODULE MorseLinkProofs ---------------------------
(***************************************************************************)
(* What a board prints, whatever the thresholds, the size of the buffer,   *)
(* the wrap of the clock and the lateness of the loop, and what the        *)
(* adapter of the gateway makes of it, whatever the durations.             *)
(*                                                                         *)
(* The safety half of the refinement: it prints only what MorseLines       *)
(* allows it to print next.  DecInv says what the decoder and the buffer   *)
(* can hold; it is needed because the lines carry a code and durations,    *)
(* which the abstract board takes from Codes and Durations.                *)
(*                                                                         *)
(* The letters: while no edge is lost, a letter that is printed is what    *)
(* the hand keyed.  HandInv relates the wire, the edges that wait in the   *)
(* buffer and the decoder: which edges end the pulses it has not seen, and *)
(* how old a letter can get before the loop closes it.                     *)
(*                                                                         *)
(* The adapter: TallyInv counts the symbols it read, and OwnInv says how   *)
(* many lines about a hand were spoiled since it took hold of what it      *)
(* holds: with two, the next line comes whole and lets go of it, before    *)
(* any other duration of that hand.                                        *)
(***************************************************************************)
EXTENDS MorseLink, MorseSketch, FiniteSetTheorems, SequenceTheorems, TLAPS

Time == 0 .. Wrap - 1
Level == {0, 1}
Mark == {".", "-"}
EdgeType == [level : Level, t : Time]

Decoder ==
    [level : Level, in_pulse : BOOLEAN, have_fall : BOOLEAN, measuring : BOOLEAN,
     overflowed : BOOLEAN, letter_since_word : BOOLEAN, t_rise : Time, t_fall : Time,
     symbol : {s \in Seq(Mark) : Len(s) <= MaxSymbol}]

DecInv ==
    /\ now \in Time /\ wire \in Level /\ verbose \in BOOLEAN
    /\ ring \in Seq(EdgeType)
    /\ dec \in Decoder

-----------------------------------------------------------------------------
(* The pure steps of the decoder.                                          *)

LEMMA Thresholds ==
    /\ debounce_ms \in Nat /\ dot_dash_ms \in Nat /\ letter_ms \in Nat /\ word_ms \in Nat
    /\ Wrap \in Nat /\ Wrap > 0 /\ MaxSymbol \in Nat /\ MaxSymbol > 0
    /\ letter_ms < word_ms
BY MorseAssumption

\* A difference of two stamps is a duration, on either side of the wrap.
LEMMA ElapsedInTime ==
    ASSUME NEW t \in Time, NEW then \in Time
    PROVE  Elapsed(t, then) \in Time
<1>1. t - then \in Int /\ Wrap \in Nat /\ Wrap > 0
    BY Thresholds DEF Time
<1>2. \A i \in Int : i % Wrap \in 0 .. Wrap - 1
    BY <1>1
<1> QED BY <1>1, <1>2 DEF Elapsed, Time

LEMMA CodesAreSequences ==
    ASSUME NEW s \in Seq(Mark), Len(s) <= MaxSymbol
    PROVE  s \in BoardCodes
<1>1. Len(s) \in 0 .. MaxSymbol
    BY Thresholds
<1>2. s \in [1 .. Len(s) -> Mark]
    OBVIOUS
<1> QED BY <1>1, <1>2 DEF BoardCodes, Mark

LEMMA TwoLines == ASSUME NEW u, NEW v PROVE <<u>> \o <<v>> = <<u, v>>
<1> DEFINE S == {u, v}
<1>1. <<u>> \in Seq(S) /\ <<v>> \in Seq(S) /\ <<u, v>> \in Seq(S)
    OBVIOUS
<1>2. /\ Len(<<u>> \o <<v>>) = 2 /\ <<u>> \o <<v>> \in Seq(S)
      /\ (<<u>> \o <<v>>)[1] = u /\ (<<u>> \o <<v>>)[2] = v
    BY <1>1
<1>3. \A i \in 1 .. Len(<<u, v>>) : (<<u>> \o <<v>>)[i] = <<u, v>>[i]
    BY <1>2
<1> HIDE DEF S
<1> QED BY <1>1, <1>2, <1>3, SeqEqual

LEMMA NoLineBefore == ASSUME NEW u PROVE <<>> \o <<u>> = <<u>> /\ <<>> \o <<>> = <<>>
OBVIOUS

LEMMA ClassIsMark == ASSUME NEW ms PROVE Class(ms) \in Mark
BY DEF Class, Mark

\* A pulse that is a symbol leaves a letter under way, full or not.
LEMMA TakenTyped ==
    ASSUME NEW d \in Decoder, NEW t \in Time
    PROVE  SymbolTaken(d, t) \in Decoder /\ SymbolTaken(d, t).symbol # <<>>
<1> DEFINE symbol == IF Fits(d) THEN Append(d.symbol, Class(Elapsed(t, d.t_rise))) ELSE d.symbol
<1>1. d.symbol \in Seq(Mark) /\ Len(d.symbol) <= MaxSymbol
    BY DEF Decoder
<1>2. symbol \in Seq(Mark) /\ Len(symbol) <= MaxSymbol /\ symbol # <<>>
  <2>1. CASE Fits(d)
      BY <1>1, <2>1, ClassIsMark, Thresholds DEF Fits
  <2>2. CASE ~Fits(d)
      BY <1>1, <2>2, Thresholds DEF Fits
  <2> QED BY <2>1, <2>2
<1>3. (d.overflowed \/ ~Fits(d)) \in BOOLEAN
    BY DEF Decoder
<1>4. SymbolTaken(d, t) =
        [d EXCEPT !.level = 0, !.in_pulse = FALSE, !.t_fall = t, !.have_fall = TRUE,
                  !.measuring = TRUE, !.symbol = symbol, !.overflowed = d.overflowed \/ ~Fits(d)]
    BY DEF SymbolTaken, Decoder
<1> HIDE DEF symbol
<1> QED BY <1>2, <1>3, <1>4 DEF Decoder, Level

LEMMA EdgeTyped ==
    ASSUME NEW d \in Decoder, NEW lvl \in Level, NEW t \in Time
    PROVE  Edge(d, lvl, t) \in Decoder
<1>1. [d EXCEPT !.level = 1, !.t_rise = t, !.in_pulse = TRUE] \in Decoder
    BY DEF Decoder, Level
<1>2. [d EXCEPT !.level = 0] \in Decoder /\ NoiseFiltered(d, t) \in Decoder
    BY DEF Decoder, Level, NoiseFiltered
<1>3. d.level \in Level
    BY DEF Decoder
<1> QED BY <1>1, <1>2, <1>3, TakenTyped DEF Edge, Level

LEMMA SilenceTyped ==
    ASSUME NEW d \in Decoder, NEW t \in Time
    PROVE  Silence(d, t) \in Decoder
<1> DEFINE code == IF LetterDue(d, t) THEN <<>> ELSE d.symbol
           since == (d.letter_since_word \/ LetterDue(d, t)) /\ ~WordDue(d, t)
<1>1. code \in {s \in Seq(Mark) : Len(s) <= MaxSymbol}
    BY Thresholds DEF Decoder
<1>2. since \in BOOLEAN /\ (code # <<>> \/ since) \in BOOLEAN
      /\ (d.overflowed /\ ~LetterDue(d, t)) \in BOOLEAN
    OBVIOUS
<1>3. Silence(d, t) =
        IF ~Measures(d) THEN d
        ELSE [d EXCEPT !.symbol = code, !.letter_since_word = since,
                       !.overflowed = d.overflowed /\ ~LetterDue(d, t),
                       !.measuring = code # <<>> \/ since]
    BY DEF Silence, Decoder
<1> HIDE DEF code, since
<1> QED BY <1>1, <1>2, <1>3 DEF Decoder

-----------------------------------------------------------------------------
(* The invariant.                                                          *)

LEMMA InitDecInv == BoardInit => DecInv
<1> SUFFICES ASSUME BoardInit PROVE DecInv
    OBVIOUS
<1>1. 0 \in Time
    BY Thresholds DEF Time
<1>2. wire \in Level
    BY DEF BoardInit, Level
<1>3. <<>> \in {s \in Seq(Mark) : Len(s) <= MaxSymbol}
    BY Thresholds
<1>4. NewDecoder(wire) \in Decoder
    BY <1>1, <1>2, <1>3 DEF NewDecoder, Decoder
<1> QED BY <1>1, <1>2, <1>4 DEF BoardInit, DecInv

LEMMA HeadTail ==
    ASSUME NEW S, NEW s \in Seq(S), s # <<>>
    PROVE  Head(s) \in S /\ Tail(s) \in Seq(S)
OBVIOUS

LEMMA NextDecInv == DecInv /\ [BoardNext]_boardVars => DecInv'
<1> SUFFICES ASSUME DecInv, [BoardNext]_boardVars PROVE DecInv'
    OBVIOUS
<1>1. CASE WireChanges
  <2>1. wire' \in Level
      BY <1>1 DEF WireChanges, DecInv, Level
  <2>2. [level |-> wire', t |-> now] \in EdgeType
      BY <2>1 DEF DecInv, EdgeType
  <2>3. ring' \in Seq(EdgeType)
      BY <1>1, <2>2 DEF WireChanges, DecInv
  <2> QED BY <1>1, <2>1, <2>3 DEF WireChanges, DecInv, receiver
<1>2. CASE Drain
  <2>1. Head(ring) \in EdgeType /\ Tail(ring) \in Seq(EdgeType)
      BY <1>2, HeadTail DEF Drain, DecInv
  <2>2. dec' \in Decoder
      BY <1>2, <2>1, EdgeTyped DEF Drain, DecInv, EdgeType
  <2> QED BY <1>2, <2>1, <2>2 DEF Drain, DecInv
<1>3. CASE Drained
    BY <1>3 DEF Drained, DecInv, wiring
<1>4. CASE LookAtSilence
  <2>1. dec' \in Decoder
      BY <1>4, SilenceTyped DEF LookAtSilence, DecInv
  <2> QED BY <1>4, <2>1 DEF LookAtSilence, DecInv, wiring
<1>5. CASE Tick
  <2>1. now' \in Time
      BY <1>5, Thresholds DEF Tick, DecInv, Time
  <2> QED BY <1>5, <2>1 DEF Tick, DecInv, wiring
<1>6. CASE UNCHANGED boardVars
    BY <1>6 DEF boardVars, wiring, receiver, DecInv
<1> QED BY <1>1, <1>2, <1>3, <1>4, <1>5, <1>6 DEF BoardNext

-----------------------------------------------------------------------------
(* The steps of the board are steps of its lines.                          *)

LEMMA InitMaps == BoardInit => Lines!LinesInit
BY DEF BoardInit, NewDecoder, Lines!LinesInit

\* A step that leaves the decoder alone prints nothing.
LEMMA QuietMaps ==
    ASSUME dec' = dec, verbose' = verbose, printed' = <<>>
    PROVE  Lines!LinesNext
BY DEF Lines!LinesNext, Lines!NothingPrinted

LEMMA EdgeMaps ==
    ASSUME DecInv, NEW lvl \in Level, NEW t \in Time,
           dec' = Edge(dec, lvl, t), printed' = EdgeLines(dec, lvl, t), verbose' = verbose
    PROVE  Lines!LinesNext
<1>1. dec \in Decoder /\ dec.level \in Level /\ dec.in_pulse \in BOOLEAN
      /\ dec.t_rise \in Time /\ dec.t_fall \in Time /\ dec.have_fall \in BOOLEAN
    BY DEF DecInv, Decoder
<1>2. Elapsed(t, dec.t_rise) \in Time /\ Elapsed(t, dec.t_fall) \in Time
    BY <1>1, ElapsedInTime
<1>3. CASE lvl = dec.level
  <2>1. dec' = dec
      BY <1>3 DEF Edge
  <2>2. printed' = <<>>
      BY <1>3 DEF EdgeLines
  <2> QED BY <2>1, <2>2, QuietMaps
<1>4. CASE lvl = 1 /\ dec.level = 0
  <2>1. dec' = [dec EXCEPT !.level = 1, !.t_rise = t, !.in_pulse = TRUE]
      BY <1>4 DEF Edge
  <2>2. printed' = IF dec.have_fall THEN IfVerbose(Line("gap", "none", Elapsed(t, dec.t_fall)))
                   ELSE <<>>
      BY <1>4 DEF EdgeLines, IfVerbose, Line
  <2>3. /\ dec'.level = 1 /\ dec'.in_pulse = TRUE /\ dec'.have_fall = dec.have_fall
        /\ dec'.symbol = dec.symbol /\ dec'.letter_since_word = dec.letter_since_word
      BY <1>1, <2>1 DEF Decoder
  <2>4. Lines!Rise
      BY <1>1, <1>2, <1>4, <2>2, <2>3
         DEF Lines!Rise, Lines!IfVerbose, Lines!Line, IfVerbose, Line, Time
  <2> QED BY <2>4 DEF Lines!LinesNext
<1>5. CASE lvl = 0 /\ dec.level = 1 /\ ~dec.in_pulse
  <2>1. dec' = [dec EXCEPT !.level = 0] /\ printed' = <<>>
      BY <1>5 DEF Edge, EdgeLines
  <2>2. /\ dec'.level = 0 /\ dec'.in_pulse = FALSE /\ dec'.have_fall = dec.have_fall
        /\ dec'.symbol = dec.symbol /\ dec'.letter_since_word = dec.letter_since_word
      BY <1>1, <1>5, <2>1 DEF Decoder
  <2>3. Lines!Fall
      BY <1>5, <2>1, <2>2 DEF Lines!Fall
  <2> QED BY <2>3 DEF Lines!LinesNext
<1>6. CASE lvl = 0 /\ dec.level = 1 /\ dec.in_pulse /\ Elapsed(t, dec.t_rise) < debounce_ms
  <2>0. ~(Elapsed(t, dec.t_rise) >= debounce_ms)
      BY <1>2, <1>6, Thresholds DEF Time
  <2>1. dec' = [dec EXCEPT !.level = 0, !.in_pulse = FALSE]
      BY <1>6 DEF Edge, NoiseFiltered
  <2>2. /\ dec'.level = 0 /\ dec'.in_pulse = FALSE /\ dec'.have_fall = dec.have_fall
        /\ dec'.symbol = dec.symbol /\ dec'.letter_since_word = dec.letter_since_word
      BY <1>1, <2>1 DEF Decoder
  <2>3. printed' = IfVerbose(Line("filtered", "none", Elapsed(t, dec.t_rise)))
      BY <1>6, <2>0 DEF EdgeLines, IfVerbose, Line
  <2>4. Lines!Fall
      BY <1>2, <1>6, <2>2, <2>3
         DEF Lines!Fall, Lines!IfVerbose, Lines!Line, IfVerbose, Line, Time
  <2> QED BY <2>4 DEF Lines!LinesNext
<1>7. CASE lvl = 0 /\ dec.level = 1 /\ dec.in_pulse /\ ~(Elapsed(t, dec.t_rise) < debounce_ms)
  <2> DEFINE ms == Elapsed(t, dec.t_rise)
  <2>0. ms >= debounce_ms
      BY <1>2, <1>7, Thresholds DEF Time
  <2>1. dec' = SymbolTaken(dec, t)
      BY <1>7 DEF Edge
  <2>1a. printed' = <<Line("symbol", Class(ms), ms)>> \o IfVerbose(Line("pulse", "none", ms))
      BY <1>7, <2>0 DEF EdgeLines, IfVerbose, Line
  <2>2. /\ dec'.level = 0 /\ dec'.in_pulse = FALSE /\ dec'.have_fall = TRUE
        /\ dec'.letter_since_word = dec.letter_since_word
      BY <1>1, <2>1 DEF SymbolTaken, Decoder
  <2>3. dec'.symbol # <<>>
      BY <1>1, <2>1, TakenTyped
  <2>4. Class(ms) \in {".", "-"} /\ ms \in Time
      BY <1>2, ClassIsMark DEF Mark
  <2> HIDE DEF ms
  <2>5. Lines!Fall
      BY <1>7, <2>2, <2>3, <2>4, <2>1a
         DEF Lines!Fall, Lines!IfVerbose, Lines!Line, IfVerbose, Line, Time
  <2> QED BY <2>5 DEF Lines!LinesNext
<1> QED BY <1>1, <1>3, <1>4, <1>5, <1>6, <1>7 DEF Level

LEMMA SilenceMaps ==
    ASSUME DecInv, dec' = Silence(dec, now), printed' = SilenceLines(dec, now),
           verbose' = verbose
    PROVE  Lines!LinesNext
<1> DEFINE ms == Elapsed(now, dec.t_fall)
<1>1. dec \in Decoder /\ now \in Time /\ dec.t_fall \in Time /\ dec.letter_since_word \in BOOLEAN
      /\ dec.symbol \in Seq(Mark) /\ Len(dec.symbol) <= MaxSymbol
    BY DEF DecInv, Decoder
<1>2. ms \in Time /\ dec.symbol \in BoardCodes
    BY <1>1, ElapsedInTime, CodesAreSequences
<1>3. CASE ~Measures(dec)
  <2>1. dec' = dec /\ printed' = <<>>
      BY <1>3 DEF Silence, SilenceLines
  <2> QED BY <2>1, QuietMaps
<1>4. CASE Measures(dec) /\ LetterDue(dec, now)
  <2>1. /\ dec'.level = dec.level /\ dec'.in_pulse = dec.in_pulse
        /\ dec'.have_fall = dec.have_fall /\ dec'.symbol = <<>>
        /\ dec'.letter_since_word = ~WordDue(dec, now)
      BY <1>1, <1>4 DEF Silence, Decoder
  <2>2. dec.level = 0 /\ dec.symbol # <<>>
      BY <1>4 DEF Measures, LetterDue
  <2> DEFINE kind == IF IsLetter(dec) THEN "letter" ELSE "unknown"
  <2>3. /\ kind \in {"letter", "unknown"}
        /\ printed' = <<Line(kind, dec.symbol, ms)>>
                      \o (IF WordDue(dec, now) THEN <<Line("word", "none", ms)>> ELSE <<>>)
      BY <1>4 DEF SilenceLines
  <2> HIDE DEF kind
  <2> HIDE DEF ms
  <2>4. CASE WordDue(dec, now)
    <3>1. printed' = <<Line(kind, dec.symbol, ms), Line("word", "none", ms)>>
        BY <2>3, <2>4, TwoLines
    <3>2. Lines!CloseLetter
        BY <1>2, <2>1, <2>2, <2>3, <2>4, <3>1
           DEF Lines!CloseLetter, Lines!WordLine, Lines!Line, Line, Time
    <3> QED BY <3>2 DEF Lines!LinesNext
  <2>5. CASE ~WordDue(dec, now)
    <3>1. printed' = <<Line(kind, dec.symbol, ms)>>
        BY <2>3, <2>5
    <3>2. Lines!CloseLetter
        BY <1>2, <2>1, <2>2, <2>3, <2>5, <3>1
           DEF Lines!CloseLetter, Lines!WordLine, Lines!Line, Line, Time
    <3> QED BY <3>2 DEF Lines!LinesNext
  <2> QED BY <2>4, <2>5
<1>5. CASE Measures(dec) /\ ~LetterDue(dec, now)
  <2>1. /\ dec'.level = dec.level /\ dec'.in_pulse = dec.in_pulse
        /\ dec'.have_fall = dec.have_fall /\ dec'.symbol = dec.symbol
        /\ dec'.letter_since_word = (dec.letter_since_word /\ ~WordDue(dec, now))
      BY <1>1, <1>5 DEF Silence, Decoder
  <2>2. dec.level = 0
      BY <1>5 DEF Measures
  <2>3. printed' = IF WordDue(dec, now) THEN <<Line("word", "none", ms)>> ELSE <<>>
      BY <1>5 DEF SilenceLines
  <2>4. CASE WordDue(dec, now)
    <3>1. dec.letter_since_word /\ ms >= word_ms
        BY <1>5, <2>4 DEF WordDue
    <3>2. dec.symbol = <<>>
        BY <1>2, <1>5, <3>1, Thresholds DEF LetterDue, Time
    <3>3. Lines!CloseWord
        BY <1>2, <2>1, <2>2, <2>3, <2>4, <3>1, <3>2
           DEF Lines!CloseWord, Lines!WordLine, Lines!Line, Line, Time
    <3> QED BY <3>3 DEF Lines!LinesNext
  <2>5. CASE ~WordDue(dec, now)
      BY <1>1, <2>1, <2>3, <2>5 DEF Lines!LinesNext, Lines!NothingPrinted
  <2> QED BY <2>4, <2>5
<1> QED BY <1>3, <1>4, <1>5

LEMMA NextMaps ==
    DecInv /\ [BoardNext]_boardVars => [Lines!LinesNext]_(Lines!lineVars)
<1> SUFFICES ASSUME DecInv, [BoardNext]_boardVars
             PROVE  Lines!LinesNext \/ UNCHANGED Lines!lineVars
    OBVIOUS
<1>1. CASE WireChanges
    BY <1>1, QuietMaps DEF WireChanges, receiver
<1>2. CASE Drain
  <2>1. Head(ring) \in EdgeType
      BY <1>2, HeadTail DEF Drain, DecInv
  <2>2. Head(ring).level \in Level /\ Head(ring).t \in Time
      BY <2>1 DEF EdgeType
  <2> QED BY <1>2, <2>2, EdgeMaps DEF Drain
<1>3. CASE Drained
    BY <1>3, QuietMaps DEF Drained
<1>4. CASE LookAtSilence
    BY <1>4, SilenceMaps DEF LookAtSilence
<1>5. CASE Tick
    BY <1>5, QuietMaps DEF Tick
<1>6. CASE UNCHANGED boardVars
    BY <1>6 DEF boardVars, receiver, Lines!lineVars
<1> QED BY <1>1, <1>2, <1>3, <1>4, <1>5, <1>6 DEF BoardNext

\* What the decoder and the buffer of the interrupt hold is well formed, whatever the
\* edges and the moment the clock wraps (morse_duplex.ino, procesarFlanco and
\* revisarSilencio).
THEOREM DecoderTyped == BoardSpec => []DecInv
<1> QED BY InitDecInv, NextDecInv, PTL DEF BoardSpec

\* Every line a board prints is one its abstract specification allows at that point:
\* a symbol only for a pulse it saw rise, a letter only after a symbol, a word only after
\* a letter, and no duration of a gap before the first symbol.
THEOREM LinesInOrder ==
    BoardSpec => Lines!LinesInit /\ [][Lines!LinesNext]_(Lines!lineVars)
<1> QED BY InitMaps, NextMaps, DecoderTyped, PTL DEF BoardSpec

-----------------------------------------------------------------------------
(* The letters.  While the buffer loses no edge, the pulses of the hand    *)
(* that the decoder has not seen are exactly those still in the buffer, in *)
(* the order of their keying: count[j] of them rose and fell up to its     *)
(* j-th edge.                                                              *)

Pauses == {"none", "short", "either", "long"}
Pulse == [symbol : Mark, pause : Pauses]

HandTyped ==
    /\ at \in {"drain", "silence"} /\ lag \in 0 .. MaxLag
    /\ wireAge \in 0 .. MaxHold /\ sinceFall \in 0 .. OldAge /\ glitches \in 0 .. MaxGlitches
    /\ pause \in Pauses /\ drained \in Nat /\ missed \in BOOLEAN
    /\ keyed \in Seq(Pulse)

\* The j-th edge of buffer r, as decoder d will meet it: the level and the rise before
\* it, how long the wire was high, and whether the decoder will take it for a symbol.
Before(d, r, j) == IF j = 1 THEN d.level ELSE r[j - 1].level
RoseAt(d, r, j) == IF j = 1 THEN d.t_rise ELSE r[j - 1].t
Width(d, r, j) == Elapsed(r[j].t, RoseAt(d, r, j))
IsPulse(d, r, j) ==
    r[j].level = 0 /\ (j = 1 => d.in_pulse) /\ Width(d, r, j) >= debounce_ms

Numbered(d, r, k, n, count) ==
    /\ count[0] = n /\ count[Len(r)] = Len(k)
    /\ \A i, j \in 0 .. Len(r) : i <= j => count[i] <= count[j]
    /\ \A j \in 1 .. Len(r) :
          /\ r[j].level = 1 - Before(d, r, j)
          /\ count[j] = count[j - 1] + (IF IsPulse(d, r, j) THEN 1 ELSE 0)
          /\ IsPulse(d, r, j) => k[count[j]].symbol = Class(Width(d, r, j))

\* The stamp of the last pulse of the hand, if it is in the buffer.
Dated(d, r, k, t, age, count) ==
    \A j \in 1 .. Len(r) :
        IsPulse(d, r, j) /\ count[j] = Len(k) /\ age < OldAge => Elapsed(t, r[j].t) = age

Counts(r, k) == [0 .. Len(r) -> 0 .. Len(k)]

InBuffer(d, r, k, n, t, age) ==
    \E count \in Counts(r, k) : Numbered(d, r, k, n, count) /\ Dated(d, r, k, t, age, count)

RingInv == InBuffer(dec, ring, keyed, drained, now, sinceFall)

\* A wire that is high rose after a pause, unless nobody saw it rise.
HighSince(d, r, w, p, age, t) ==
    /\ w = Before(d, r, Len(r) + 1)
    /\ w = 1 =>
          /\ p # "none" <=> (Len(r) = 0 => d.in_pulse)
          /\ p # "none" => Elapsed(t, RoseAt(d, r, Len(r) + 1)) = age

WireInv == HighSince(dec, ring, wire, pause, wireAge, now)

\* The letter under way is the pulses the decoder has seen, cut at MaxSymbol.
LetterInv ==
    /\ Len(dec.symbol) = (IF drained < MaxSymbol THEN drained ELSE MaxSymbol)
    /\ \A i \in 1 .. Len(dec.symbol) : dec.symbol[i] = keyed[i].symbol
    /\ dec.overflowed <=> drained > MaxSymbol
    /\ drained >= 1 => dec.measuring
    /\ drained >= 1 /\ drained = Len(keyed) /\ sinceFall < OldAge
          => Elapsed(now, dec.t_fall) = sinceFall

\* No letter has a long pause inside.
PauseInv ==
    /\ wire = 1 /\ keyed # <<>> => pause \in {"short", "either"}
    /\ \A i \in 2 .. Len(keyed) : keyed[i].pause # "long"

\* A pulse that came after the edges were drained is younger than the turn of the loop,
\* and the rise that ended a short pause is too.
EndedShort ==
    /\ dec.level = 0 /\ drained >= 1
    /\ IF drained < Len(keyed) THEN keyed[drained + 1].pause = "short"
                               ELSE wire = 1 /\ pause = "short"
LookInv ==
    at = "silence" =>
      /\ drained < Len(keyed) => sinceFall <= lag
      /\ EndedShort => Elapsed(now, dec.t_fall) < (letter_ms - MaxLag) + lag

\* A letter that the loop has not closed is not old: every glitch hides a turn of the
\* loop, two if its edges fall apart.
Hidden(g) == (letter_ms - 1) + g * ((debounce_ms - 1) + 2 * MaxLag)
AgeInv ==
    keyed # <<>> =>
       IF wire = 1 THEN sinceFall <= (Hidden(glitches) + MaxLag) + wireAge
       ELSE sinceFall <= (Hidden(glitches) + lag)
                         - (IF at = "silence" /\ dec.level = 1 THEN MaxLag ELSE 0)

HandInv ==
    /\ DecInv /\ HandTyped
    /\ ~missed => RingInv /\ WireInv /\ LetterInv /\ PauseInv /\ LookInv /\ AgeInv

-----------------------------------------------------------------------------
(* Durations.                                                              *)

LEMMA Modulo ==
    ASSUME NEW R \in Nat, R > 0, NEW x \in Int
    PROVE  /\ 0 <= x /\ x < R => x % R = x
           /\ -R <= x /\ x < 0 => x % R = x + R
           /\ x = R => x % R = 0
<1>1. \A q \in Int, y \in 0 .. R - 1 : (R * q + y) % R = y
    OBVIOUS
<1>2. ASSUME 0 <= x, x < R PROVE x % R = x
  <2>1. (R * 0 + x) % R = x
      BY <1>1, <1>2
  <2> QED BY <2>1
<1>3. ASSUME -R <= x, x < 0 PROVE x % R = x + R
  <2>1. (R * (-1) + (x + R)) % R = x + R
      BY <1>1, <1>3
  <2> QED BY <2>1
<1>4. ASSUME x = R PROVE x % R = 0
  <2>1. (R * 1 + 0) % R = 0
      BY <1>1
  <2> QED BY <1>4, <2>1
<1> QED BY <1>2, <1>3, <1>4

LEMMA ElapsedIs ==
    ASSUME NEW t \in Time, NEW then \in Time
    PROVE  Elapsed(t, then) = IF t >= then THEN t - then ELSE (t - then) + Wrap
<1>1. t - then \in Int /\ Wrap \in Nat /\ Wrap > 0 /\ t - then < Wrap /\ -Wrap <= t - then
    BY Thresholds DEF Time
<1>2. /\ 0 <= t - then => (t - then) % Wrap = t - then
      /\ t - then < 0 => (t - then) % Wrap = (t - then) + Wrap
    BY <1>1, Modulo
<1> QED BY <1>1, <1>2 DEF Elapsed, Time

LEMMA ElapsedNow == ASSUME NEW t \in Time PROVE Elapsed(t, t) = 0
BY ElapsedIs DEF Time

\* A duration that has not run full grows with the clock.
LEMMA ElapsedTick ==
    ASSUME NEW t \in Time, NEW then \in Time, Elapsed(t, then) + 1 < Wrap
    PROVE  (t + 1) % Wrap \in Time /\ Elapsed((t + 1) % Wrap, then) = Elapsed(t, then) + 1
<1>1. /\ t \in Nat /\ then \in Nat /\ t < Wrap /\ then < Wrap /\ Wrap \in Nat /\ Wrap > 0
    BY Thresholds DEF Time
<1> DEFINE u == (t + 1) % Wrap
<1>2. u = IF t + 1 < Wrap THEN t + 1 ELSE 0
  <2>1. t + 1 \in Int /\ 0 <= t + 1 /\ (t + 1 < Wrap \/ t + 1 = Wrap)
      BY <1>1
  <2> QED BY <1>1, <2>1, Modulo
<1>3. u \in Time
    BY <1>1, <1>2 DEF Time
<1>4. Elapsed(u, then) = IF u >= then THEN u - then ELSE (u - then) + Wrap
    BY <1>3, ElapsedIs
<1>5. Elapsed(t, then) = IF t >= then THEN t - then ELSE (t - then) + Wrap
    BY ElapsedIs
<1> HIDE DEF u
<1>6. Elapsed(u, then) = Elapsed(t, then) + 1
    BY <1>1, <1>2, <1>4, <1>5
<1> QED BY <1>3, <1>6 DEF u

-----------------------------------------------------------------------------
(* Bounds.                                                                 *)

LEMMA Products ==
    ASSUME NEW P \in Nat, NEW g \in Nat, NEW m \in Nat, g <= m
    PROVE  /\ g * P \in Nat /\ m * P \in Nat /\ g * P <= m * P
           /\ (g + 1) * P = g * P + P
OBVIOUS

LEMMA Limits ==
    /\ letter_ms \in Nat /\ letter_ms > 0 /\ MaxLag \in Nat /\ MaxLag < letter_ms
    /\ debounce_ms \in Nat /\ debounce_ms > 0
    /\ MaxHold \in Nat /\ MaxHold < Wrap /\ MaxGlitches \in Nat
    /\ letter_ms < Wrap /\ Wrap \in Nat
    /\ OldAge \in Nat /\ OldAge < Wrap /\ letter_ms <= OldAge
<1>1. /\ letter_ms \in Nat /\ letter_ms > 0 /\ MaxLag \in Nat /\ MaxLag < letter_ms
      /\ debounce_ms \in Nat /\ debounce_ms > 0 /\ word_ms \in Nat
      /\ MaxHold \in Nat /\ MaxHold < Wrap /\ MaxGlitches \in Nat /\ Wrap \in Nat
      /\ letter_ms < word_ms /\ word_ms + MaxLag < Wrap
      /\ OldAge < Wrap
    BY MorseAssumption
<1>2. (debounce_ms - 1) + 2 * MaxLag \in Nat
    BY <1>1
<1>3. MaxGlitches * ((debounce_ms - 1) + 2 * MaxLag) \in Nat
    BY <1>1, <1>2, Products
<1> QED BY <1>1, <1>3 DEF OldAge

\* The age a letter may reach after some glitches, and after one more.
LEMMA HiddenBounds ==
    ASSUME NEW g \in 0 .. MaxGlitches
    PROVE  /\ Hidden(g) \in Int /\ letter_ms - 1 <= Hidden(g) /\ Hidden(g) + MaxLag < OldAge
           /\ Hidden(g + 1) = (Hidden(g) + (debounce_ms - 1)) + 2 * MaxLag
<1> DEFINE P == (debounce_ms - 1) + 2 * MaxLag
<1>1. P \in Nat /\ g \in Nat /\ MaxGlitches \in Nat /\ g <= MaxGlitches
    BY Limits
<1>2. /\ g * P \in Nat /\ MaxGlitches * P \in Nat /\ g * P <= MaxGlitches * P
      /\ (g + 1) * P = g * P + P
    BY <1>1, Products
<1>3. /\ OldAge = letter_ms + MaxLag + MaxGlitches * P
      /\ Hidden(g) = (letter_ms - 1) + g * P /\ Hidden(g + 1) = (letter_ms - 1) + (g + 1) * P
    BY DEF OldAge, Hidden
<1>4. P = (debounce_ms - 1) + 2 * MaxLag
    OBVIOUS
<1> HIDE DEF P
<1> QED BY <1>1, <1>2, <1>3, <1>4, Limits

LEMMA AgedTyped ==
    ASSUME NEW age \in 0 .. OldAge
    PROVE  /\ Aged(age) \in 0 .. OldAge /\ Aged(age) <= age + 1
           /\ Aged(age) < OldAge => Aged(age) = age + 1 /\ age < OldAge
BY Limits DEF Aged

-----------------------------------------------------------------------------
(* At the start, and as the loop goes on to look at the silence.           *)

LEMMA NoEdges ==
    ASSUME NEW d, NEW k \in Seq(Pulse), NEW t, NEW age
    PROVE  /\ InBuffer(d, <<>>, k, Len(k), t, age)
           /\ \A n : InBuffer(d, <<>>, k, n, t, age) => n = Len(k)
<1>1. Len(<<>>) = 0 /\ Len(k) \in Nat
    OBVIOUS
<1> DEFINE c == [i \in 0 .. 0 |-> Len(k)]
<1>2. c \in Counts(<<>>, k) /\ c[0] = Len(k)
    BY <1>1 DEF Counts
<1>3. Numbered(d, <<>>, k, Len(k), c) /\ Dated(d, <<>>, k, t, age, c)
  <2>1. \A j \in 1 .. 0 : FALSE
      OBVIOUS
  <2>2. \A i, j \in 0 .. 0 : i = 0 /\ j = 0
      OBVIOUS
  <2> HIDE DEF c
  <2> QED BY <1>1, <1>2, <2>1, <2>2 DEF Numbered, Dated
<1>4. ASSUME NEW n, InBuffer(d, <<>>, k, n, t, age) PROVE n = Len(k)
    BY <1>1, <1>4 DEF InBuffer, Numbered
<1> QED BY <1>2, <1>3, <1>4 DEF InBuffer

LEMMA InitHand == BoardInit => HandInv
<1> SUFFICES ASSUME BoardInit PROVE HandInv
    OBVIOUS
<1>1. DecInv
    BY InitDecInv
<1>2. HandTyped
  <2>1. <<>> \in Seq(Pulse)
      OBVIOUS
  <2>2. OldAge \in 0 .. OldAge /\ 0 \in 0 .. MaxLag /\ 0 \in 0 .. MaxHold /\ 0 \in 0 .. MaxGlitches
      BY Limits
  <2> QED BY <2>1, <2>2 DEF BoardInit, HandTyped, Pauses
<1>3. RingInv
  <2>1. <<>> \in Seq(Pulse) /\ Len(<<>>) = 0
      OBVIOUS
  <2>2. InBuffer(dec, <<>>, <<>>, Len(<<>>), now, sinceFall)
      BY <2>1, NoEdges
  <2> QED BY <2>1, <2>2 DEF BoardInit, RingInv
<1>4. WireInv
    BY DEF BoardInit, WireInv, HighSince, Before, NewDecoder
<1>5. LetterInv
  <2>1. Len(dec.symbol) = 0 /\ dec.overflowed = FALSE /\ drained = 0
      BY DEF BoardInit, NewDecoder
  <2>2. 0 < MaxSymbol /\ MaxSymbol \in Nat
      BY Thresholds
  <2> QED BY <2>1, <2>2 DEF LetterInv
<1>6. PauseInv /\ LookInv /\ AgeInv
    BY DEF BoardInit, PauseInv, LookInv, AgeInv
<1> QED BY <1>1, <1>2, <1>3, <1>4, <1>5, <1>6 DEF HandInv

LEMMA DrainedHand ==
    ASSUME HandInv, Drained
    PROVE  HandTyped' /\ (~missed' => (RingInv /\ WireInv /\ LetterInv /\ PauseInv
                                       /\ LookInv /\ AgeInv)')
<1>1. /\ at' = "silence" /\ ring = <<>> /\ UNCHANGED <<now, wire, ring, dec, lag, verbose>>
      /\ UNCHANGED <<wireAge, sinceFall, glitches, pause, missed, keyed, drained>>
    BY DEF Drained, wiring, history, wireHistory
<1>2. HandTyped'
    BY <1>1 DEF HandInv, HandTyped
<1> SUFFICES ASSUME ~missed'
             PROVE  (RingInv /\ WireInv /\ LetterInv /\ PauseInv /\ LookInv /\ AgeInv)'
    BY <1>2
<1>3. RingInv /\ WireInv /\ LetterInv /\ PauseInv /\ AgeInv /\ HandTyped /\ DecInv
    BY <1>1 DEF HandInv
<1>4. drained = Len(keyed) /\ dec.level = wire
  <2>1. keyed \in Seq(Pulse)
      BY <1>3 DEF HandTyped
  <2>2. InBuffer(dec, <<>>, keyed, drained, now, sinceFall)
      BY <1>1, <1>3 DEF RingInv
  <2>3. Len(ring) + 1 = 1
      BY <1>1
  <2> QED BY <1>1, <1>3, <2>1, <2>2, <2>3, NoEdges DEF WireInv, HighSince, Before
<1>5. RingInv' /\ WireInv' /\ LetterInv' /\ PauseInv'
    BY <1>1, <1>3 DEF RingInv, WireInv, LetterInv, PauseInv
<1>6. LookInv'
  <2>1. Len(keyed) \in Nat
      BY <1>3 DEF HandTyped
  <2> QED BY <1>1, <1>4, <2>1 DEF LookInv, EndedShort
<1>7. AgeInv'
    BY <1>1, <1>3, <1>4 DEF AgeInv, DecInv, Level
<1> QED BY <1>5, <1>6, <1>7

-----------------------------------------------------------------------------
(* A millisecond goes by.                                                  *)

LEMMA EdgeAt ==
    ASSUME NEW r \in Seq(EdgeType), NEW j \in 1 .. Len(r)
    PROVE  r[j].t \in Time /\ r[j].level \in Level
<1>1. r[j] \in EdgeType
    OBVIOUS
<1> QED BY <1>1 DEF EdgeType

\* A stamp that tells the age of the last pulse goes on telling it.
LEMMA AgeTick ==
    ASSUME NEW t \in Time, NEW stamp \in Time, NEW age \in 0 .. OldAge,
           Aged(age) < OldAge, age < OldAge => Elapsed(t, stamp) = age
    PROVE  Elapsed((t + 1) % Wrap, stamp) = Aged(age)
<1>1. Aged(age) = age + 1 /\ age < OldAge
    BY AgedTyped
<1>2. Elapsed(t, stamp) + 1 < Wrap
    BY <1>1, Limits
<1> QED BY <1>1, <1>2, ElapsedTick

LEMMA DecoderFields ==
    ASSUME NEW d \in Decoder
    PROVE  /\ d.level \in Level /\ d.in_pulse \in BOOLEAN /\ d.measuring \in BOOLEAN
           /\ d.overflowed \in BOOLEAN /\ d.t_rise \in Time /\ d.t_fall \in Time
           /\ d.symbol \in Seq(Mark) /\ Len(d.symbol) <= MaxSymbol
BY DEF Decoder

LEMMA RoseAtTyped ==
    ASSUME NEW d \in Decoder, NEW r \in Seq(EdgeType), NEW j \in 1 .. Len(r) + 1
    PROVE  RoseAt(d, r, j) \in Time /\ Before(d, r, j) \in Level
<1>1. CASE j = 1
    BY <1>1, DecoderFields DEF RoseAt, Before
<1>2. CASE j # 1
  <2>1. j - 1 \in 1 .. Len(r)
      BY <1>2
  <2> QED BY <1>2, <2>1, EdgeAt DEF RoseAt, Before
<1> QED BY <1>1, <1>2

LEMMA TickHand ==
    ASSUME HandInv, Tick
    PROVE  HandTyped' /\ (~missed' => (RingInv /\ WireInv /\ LetterInv /\ PauseInv
                                       /\ LookInv /\ AgeInv)')
<1>1. /\ lag < MaxLag /\ lag' = lag + 1 /\ now' = (now + 1) % Wrap
      /\ wireAge' = (IF wire = 1 /\ wireAge < MaxHold THEN wireAge + 1 ELSE wireAge)
      /\ sinceFall' = Aged(sinceFall)
      /\ wire = 1 /\ ~missed => wireAge < MaxHold
      /\ UNCHANGED <<wire, ring, dec, at, glitches, pause, missed, keyed, drained>>
    BY DEF Tick, wiring
<1>2. HandTyped /\ DecInv
    BY DEF HandInv
<1>3. /\ lag \in 0 .. MaxLag /\ wireAge \in 0 .. MaxHold /\ sinceFall \in 0 .. OldAge
      /\ glitches \in 0 .. MaxGlitches
    BY <1>2 DEF HandTyped
<1>4. lag' \in 0 .. MaxLag /\ wireAge' \in 0 .. MaxHold /\ sinceFall' \in 0 .. OldAge
    BY <1>1, <1>3, AgedTyped, Limits
<1>5. HandTyped'
    BY <1>1, <1>2, <1>4 DEF HandTyped
<1> SUFFICES ASSUME ~missed'
             PROVE  (RingInv /\ WireInv /\ LetterInv /\ PauseInv /\ LookInv /\ AgeInv)'
    BY <1>5
<1>6. RingInv /\ WireInv /\ LetterInv /\ PauseInv /\ LookInv /\ AgeInv
    BY <1>1 DEF HandInv
<1>7. now \in Time /\ dec \in Decoder /\ ring \in Seq(EdgeType) /\ wire \in Level
    BY <1>2 DEF DecInv
<1>8. ASSUME NEW stamp \in Time, sinceFall' < OldAge,
             sinceFall < OldAge => Elapsed(now, stamp) = sinceFall
      PROVE  Elapsed(now', stamp) = sinceFall'
    BY <1>1, <1>3, <1>7, <1>8, AgeTick
<1>9. RingInv'
  <2>1. PICK count \in Counts(ring, keyed) :
           Numbered(dec, ring, keyed, drained, count)
           /\ Dated(dec, ring, keyed, now, sinceFall, count)
      BY <1>6 DEF RingInv, InBuffer
  <2>2. Dated(dec, ring, keyed, now', sinceFall', count)
    <3> SUFFICES ASSUME NEW j \in 1 .. Len(ring), IsPulse(dec, ring, j),
                        count[j] = Len(keyed), sinceFall' < OldAge
                 PROVE  Elapsed(now', ring[j].t) = sinceFall'
        BY DEF Dated
    <3>1. ring[j].t \in Time
        BY <1>7, EdgeAt
    <3>2. sinceFall < OldAge => Elapsed(now, ring[j].t) = sinceFall
        BY <2>1 DEF Dated
    <3> QED BY <1>8, <3>1, <3>2
  <2>3. InBuffer(dec, ring, keyed, drained, now', sinceFall')
      BY <2>1, <2>2 DEF InBuffer
  <2> QED BY <1>1, <2>3 DEF RingInv
<1>10. WireInv'
  <2> DEFINE n == Len(ring) + 1
             rose == RoseAt(dec, ring, n)
  <2>1. wire = Before(dec, ring, n)
        /\ (wire = 1 => /\ pause # "none" <=> (Len(ring) = 0 => dec.in_pulse)
                        /\ pause # "none" => Elapsed(now, rose) = wireAge)
      BY <1>6 DEF WireInv, HighSince
  <2>2. rose \in Time
    <3>1. n \in 1 .. Len(ring) + 1
        BY <1>7
    <3> QED BY <1>7, <3>1, RoseAtTyped
  <2>3. ASSUME wire = 1, pause # "none" PROVE Elapsed(now', rose) = wireAge'
    <3>1. Elapsed(now, rose) = wireAge /\ wireAge < MaxHold /\ wireAge' = wireAge + 1
        BY <1>1, <2>1, <2>3
    <3>2. Elapsed(now, rose) + 1 < Wrap
        BY <1>3, <3>1, Limits
    <3> QED BY <1>1, <1>7, <2>2, <3>1, <3>2, ElapsedTick
  <2>4. HighSince(dec, ring, wire, pause, wireAge', now')
      BY <2>1, <2>3 DEF HighSince
  <2> QED BY <1>1, <2>4 DEF WireInv
<1>11. LetterInv'
  <2>1. drained >= 1 /\ drained = Len(keyed) /\ sinceFall' < OldAge
           => Elapsed(now', dec.t_fall) = sinceFall'
      BY <1>6, <1>7, <1>8, DecoderFields DEF LetterInv
  <2> QED BY <1>1, <1>6, <2>1 DEF LetterInv
<1>12. PauseInv'
    BY <1>1, <1>6 DEF PauseInv
<1>13. LookInv'
  <2>1. EndedShort' <=> EndedShort
      BY <1>1 DEF EndedShort
  <2>2. sinceFall <= lag => sinceFall' <= lag'
      BY <1>1, <1>3, AgedTyped, Limits
  <2>3. ASSUME Elapsed(now, dec.t_fall) < (letter_ms - MaxLag) + lag
        PROVE  Elapsed(now', dec.t_fall) < (letter_ms - MaxLag) + lag'
    <3>0. dec.t_fall \in Time /\ Elapsed(now, dec.t_fall) \in Time
        BY <1>7, DecoderFields, ElapsedInTime
    <3>1. dec.t_fall \in Time /\ Elapsed(now, dec.t_fall) \in Nat
        BY <3>0 DEF Time
    <3>2. Elapsed(now, dec.t_fall) + 1 < Wrap
        BY <1>1, <1>3, <2>3, <3>1, Limits
    <3>3. Elapsed(now', dec.t_fall) = Elapsed(now, dec.t_fall) + 1
        BY <1>1, <1>7, <3>1, <3>2, ElapsedTick
    <3> QED BY <1>1, <1>3, <2>3, <3>1, <3>3, Limits
  <2> QED BY <1>1, <1>6, <2>1, <2>2, <2>3 DEF LookInv
<1>14. AgeInv'
  <2>1. sinceFall' <= sinceFall + 1 /\ Hidden(glitches) \in Int
      BY <1>1, <1>3, AgedTyped, HiddenBounds
  <2>2. ASSUME wire = 1, sinceFall <= (Hidden(glitches) + MaxLag) + wireAge
        PROVE  sinceFall' <= (Hidden(glitches) + MaxLag) + wireAge'
      BY <1>1, <1>3, <1>4, <2>1, <2>2, Limits
  <2>3. ASSUME NEW x \in Int, sinceFall <= (Hidden(glitches) + lag) - x
        PROVE  sinceFall' <= (Hidden(glitches) + lag') - x
      BY <1>1, <1>3, <1>4, <2>1, <2>3, Limits
  <2>4. (IF at = "silence" /\ dec.level = 1 THEN MaxLag ELSE 0) \in Int
      BY Limits
  <2> QED BY <1>1, <1>6, <2>2, <2>3, <2>4 DEF AgeInv
<1> QED BY <1>9, <1>10, <1>11, <1>12, <1>13, <1>14

-----------------------------------------------------------------------------
(* The loop looks at the silence.                                          *)

LEMMA SubSeqFrom ==
    ASSUME NEW S, NEW s \in Seq(S), NEW n \in 0 .. Len(s)
    PROVE  /\ SubSeq(s, n + 1, Len(s)) \in Seq(S)
           /\ Len(SubSeq(s, n + 1, Len(s))) = Len(s) - n
           /\ \A i \in 1 .. Len(s) - n : SubSeq(s, n + 1, Len(s))[i] = s[n + i]
<1>1. n \in Nat /\ Len(s) \in Nat /\ n <= Len(s) /\ n + 1 \in Int /\ Len(s) \in Int
    OBVIOUS
<1>2. \A i \in n + 1 .. Len(s) : s[i] \in S
    BY <1>1
<1> DEFINE u == SubSeq(s, n + 1, Len(s))
<1>3. /\ u \in Seq(S)
      /\ Len(u) = IF n + 1 <= Len(s) THEN (Len(s) - (n + 1)) + 1 ELSE 0
      /\ \A i \in 1 .. (Len(s) - (n + 1)) + 1 : u[i] = s[((n + 1) + i) - 1]
    BY <1>1, <1>2, SubSeqProperties
<1> HIDE DEF u
<1>4. Len(u) = Len(s) - n
    BY <1>1, <1>3
<1>5. ASSUME NEW i \in 1 .. Len(s) - n PROVE u[i] = s[n + i]
  <2>1. i \in 1 .. (Len(s) - (n + 1)) + 1 /\ ((n + 1) + i) - 1 = n + i
      BY <1>1
  <2> QED BY <1>3, <2>1
<1> QED BY <1>3, <1>4, <1>5 DEF u

LEMMA SilenceDoes ==
    ASSUME NEW d \in Decoder, NEW t \in Time
    PROVE  /\ Silence(d, t).level = d.level /\ Silence(d, t).in_pulse = d.in_pulse
           /\ Silence(d, t).t_rise = d.t_rise /\ Silence(d, t).t_fall = d.t_fall
           /\ Silence(d, t).symbol = IF Measures(d) /\ LetterDue(d, t) THEN <<>> ELSE d.symbol
           /\ Silence(d, t).overflowed <=> d.overflowed /\ ~(Measures(d) /\ LetterDue(d, t))
           /\ d.measuring /\ Silence(d, t).symbol # <<>> => Silence(d, t).measuring
<1> DEFINE code == IF LetterDue(d, t) THEN <<>> ELSE d.symbol
           since == (d.letter_since_word \/ LetterDue(d, t)) /\ ~WordDue(d, t)
<1>1. CASE ~Measures(d)
    BY <1>1 DEF Silence
<1>2. CASE Measures(d)
  <2>1. Silence(d, t) =
          [d EXCEPT !.symbol = code, !.letter_since_word = since,
                    !.overflowed = d.overflowed /\ ~LetterDue(d, t),
                    !.measuring = code # <<>> \/ since]
      BY <1>2 DEF Silence, Decoder
  <2> HIDE DEF since
  <2>2. /\ Silence(d, t).level = d.level /\ Silence(d, t).in_pulse = d.in_pulse
        /\ Silence(d, t).t_rise = d.t_rise /\ Silence(d, t).t_fall = d.t_fall
        /\ Silence(d, t).symbol = code
        /\ Silence(d, t).overflowed <=> d.overflowed /\ ~LetterDue(d, t)
        /\ Silence(d, t).measuring <=> code # <<>> \/ since
      BY <2>1 DEF Decoder
  <2> QED BY <1>2, <2>2
<1> QED BY <1>1, <1>2

\* What the buffer holds depends on the decoder only through its last level.
SameSight(d, e) == e.level = d.level /\ e.in_pulse = d.in_pulse /\ e.t_rise = d.t_rise

LEMMA SameEdges ==
    ASSUME NEW d, NEW e, NEW r, NEW j, SameSight(d, e)
    PROVE  /\ Before(e, r, j) = Before(d, r, j) /\ RoseAt(e, r, j) = RoseAt(d, r, j)
           /\ Width(e, r, j) = Width(d, r, j)
           /\ IsPulse(e, r, j) <=> IsPulse(d, r, j)
<1>1. Before(e, r, j) = Before(d, r, j) /\ RoseAt(e, r, j) = RoseAt(d, r, j)
    BY DEF SameSight, Before, RoseAt
<1>2. Width(e, r, j) = Width(d, r, j)
    BY <1>1 DEF Width
<1> QED BY <1>1, <1>2 DEF IsPulse, SameSight

\* The counts lie between what the decoder has seen and what was keyed.
LEMMA CountBounds ==
    ASSUME NEW d, NEW r \in Seq(EdgeType), NEW k \in Seq(Pulse), NEW n \in Nat,
           NEW c \in Counts(r, k), Numbered(d, r, k, n, c)
    PROVE  /\ n <= Len(k)
           /\ \A j \in 0 .. Len(r) : c[j] \in Nat /\ n <= c[j] /\ c[j] <= Len(k)
           /\ \A j \in 1 .. Len(r) : IsPulse(d, r, j) => c[j] >= n + 1
<1>1. Len(r) \in Nat /\ Len(k) \in Nat /\ \A j \in 0 .. Len(r) : c[j] \in 0 .. Len(k)
    BY DEF Counts
<1>2. c[0] = n /\ \A i, j \in 0 .. Len(r) : i <= j => c[i] <= c[j]
    BY DEF Numbered
<1>3. ASSUME NEW j \in 0 .. Len(r) PROVE c[j] \in Nat /\ n <= c[j] /\ c[j] <= Len(k)
  <2>1. 0 \in 0 .. Len(r) /\ 0 <= j
      BY <1>1
  <2> QED BY <1>1, <1>2, <2>1
<1>4. n <= Len(k)
  <2>1. 0 \in 0 .. Len(r)
      BY <1>1
  <2>2. c[0] <= Len(k)
      BY <1>3, <2>1
  <2> QED BY <1>2, <2>2
<1>5. ASSUME NEW j \in 1 .. Len(r), IsPulse(d, r, j) PROVE c[j] >= n + 1
  <2>1. j - 1 \in 0 .. Len(r)
      BY <1>1
  <2>2. c[j] = c[j - 1] + 1
      BY <1>5 DEF Numbered
  <2>3. c[j - 1] \in Nat /\ n <= c[j - 1]
      BY <1>3, <2>1
  <2> QED BY <2>2, <2>3
<1> QED BY <1>3, <1>4, <1>5

\* Closing a letter takes its pulses from the front.
LEMMA BufferClosed ==
    ASSUME NEW d, NEW e, SameSight(d, e), NEW r \in Seq(EdgeType), NEW k \in Seq(Pulse),
           NEW n \in Nat, NEW t, NEW age, InBuffer(d, r, k, n, t, age)
    PROVE  InBuffer(e, r, SubSeq(k, n + 1, Len(k)), 0, t, age)
<1>1. PICK c \in Counts(r, k) : Numbered(d, r, k, n, c) /\ Dated(d, r, k, t, age, c)
    BY DEF InBuffer
<1> DEFINE u == SubSeq(k, n + 1, Len(k))
           b == [j \in 0 .. Len(r) |-> c[j] - n]
<1>2. /\ n <= Len(k) /\ Len(k) \in Nat /\ Len(r) \in Nat
      /\ \A j \in 0 .. Len(r) : c[j] \in Nat /\ n <= c[j] /\ c[j] <= Len(k)
      /\ \A j \in 1 .. Len(r) : IsPulse(d, r, j) => c[j] >= n + 1
  <2>1. Len(k) \in Nat /\ Len(r) \in Nat
      OBVIOUS
  <2>2. Numbered(d, r, k, n, c)
      BY <1>1
  <2>3. /\ n <= Len(k)
        /\ \A j \in 0 .. Len(r) : c[j] \in Nat /\ n <= c[j] /\ c[j] <= Len(k)
        /\ \A j \in 1 .. Len(r) : IsPulse(d, r, j) => c[j] >= n + 1
      BY <2>2, CountBounds
  <2> QED BY <2>1, <2>3
<1>3. Len(u) = Len(k) - n /\ \A i \in 1 .. Len(k) - n : u[i] = k[n + i]
  <2>1. n \in 0 .. Len(k)
      BY <1>2
  <2> QED BY <2>1, SubSeqFrom
<1> HIDE DEF u
<1>4. \A j \in 0 .. Len(r) : b[j] = c[j] - n
    OBVIOUS
<1>5. b \in Counts(r, u)
  <2>1. \A j \in 0 .. Len(r) : c[j] - n \in 0 .. Len(u)
      BY <1>2, <1>3
  <2> QED BY <2>1 DEF Counts
<1> HIDE DEF b
<1>6. Numbered(e, r, u, 0, b)
  <2>1. b[0] = 0 /\ b[Len(r)] = Len(u)
    <3>1. c[0] = n /\ c[Len(r)] = Len(k)
        BY <1>1 DEF Numbered
    <3>2. 0 \in 0 .. Len(r) /\ Len(r) \in 0 .. Len(r)
        BY <1>2
    <3>3. b[0] = c[0] - n /\ b[Len(r)] = c[Len(r)] - n
        BY <1>4, <3>2
    <3> QED BY <1>2, <1>3, <3>1, <3>3
  <2>2. ASSUME NEW i \in 0 .. Len(r), NEW j \in 0 .. Len(r), i <= j PROVE b[i] <= b[j]
    <3>1. c[i] <= c[j]
        BY <1>1, <2>2 DEF Numbered
    <3>2. c[i] \in Nat /\ c[j] \in Nat /\ b[i] = c[i] - n /\ b[j] = c[j] - n
        BY <1>2, <1>4
    <3> QED BY <3>1, <3>2
  <2>3. ASSUME NEW j \in 1 .. Len(r)
        PROVE  /\ r[j].level = 1 - Before(e, r, j)
               /\ b[j] = b[j - 1] + (IF IsPulse(e, r, j) THEN 1 ELSE 0)
               /\ IsPulse(e, r, j) => u[b[j]].symbol = Class(Width(e, r, j))
    <3>1. /\ Before(e, r, j) = Before(d, r, j) /\ Width(e, r, j) = Width(d, r, j)
          /\ IsPulse(e, r, j) <=> IsPulse(d, r, j)
        BY SameEdges
    <3>2. /\ r[j].level = 1 - Before(d, r, j)
          /\ c[j] = c[j - 1] + (IF IsPulse(d, r, j) THEN 1 ELSE 0)
          /\ IsPulse(d, r, j) => k[c[j]].symbol = Class(Width(d, r, j))
        BY <1>1 DEF Numbered
    <3>3. j - 1 \in 0 .. Len(r) /\ j \in 0 .. Len(r)
        BY <1>2
    <3>4. /\ c[j] \in Nat /\ c[j - 1] \in Nat /\ b[j] = c[j] - n /\ b[j - 1] = c[j - 1] - n
          /\ c[j] <= Len(k)
        BY <1>2, <1>4, <3>3
    <3>5. b[j] = b[j - 1] + (IF IsPulse(e, r, j) THEN 1 ELSE 0)
        BY <3>1, <3>2, <3>4
    <3>6. ASSUME IsPulse(d, r, j) PROVE u[b[j]] = k[c[j]]
      <4>1. b[j] \in 1 .. Len(k) - n /\ n + b[j] = c[j]
          BY <1>2, <3>4, <3>6
      <4> QED BY <1>3, <4>1
    <3> QED BY <3>1, <3>2, <3>5, <3>6
  <2> QED BY <2>1, <2>2, <2>3 DEF Numbered
<1>7. Dated(e, r, u, t, age, b)
  <2> SUFFICES ASSUME NEW j \in 1 .. Len(r), IsPulse(e, r, j), b[j] = Len(u), age < OldAge
               PROVE  Elapsed(t, r[j].t) = age
      BY DEF Dated
  <2>1. IsPulse(d, r, j)
      BY SameEdges
  <2>2. c[j] = Len(k)
    <3>1. j \in 0 .. Len(r)
        BY <1>2
    <3>2. c[j] \in Nat /\ b[j] = c[j] - n
        BY <1>2, <1>4, <3>1
    <3> QED BY <1>2, <1>3, <3>2
  <2> QED BY <1>1, <2>1, <2>2 DEF Dated
<1> QED BY <1>5, <1>6, <1>7 DEF InBuffer, u

LEMMA BufferKept ==
    ASSUME NEW d, NEW e, SameSight(d, e), NEW r, NEW k, NEW n, NEW t, NEW age,
           InBuffer(d, r, k, n, t, age)
    PROVE  InBuffer(e, r, k, n, t, age)
<1>1. PICK c \in Counts(r, k) : Numbered(d, r, k, n, c) /\ Dated(d, r, k, t, age, c)
    BY DEF InBuffer
<1>2. \A j : /\ Before(e, r, j) = Before(d, r, j) /\ Width(e, r, j) = Width(d, r, j)
             /\ IsPulse(e, r, j) <=> IsPulse(d, r, j)
    BY SameEdges
<1>3. Numbered(e, r, k, n, c)
    BY <1>1, <1>2 DEF Numbered
<1>4. Dated(e, r, k, t, age, c)
    BY <1>1, <1>2 DEF Dated
<1> QED BY <1>3, <1>4 DEF InBuffer

\* While no edge is lost the decoder has seen no more pulses than were keyed.
LEMMA SeenWereKeyed ==
    ASSUME HandInv, ~missed
    PROVE  drained \in Nat /\ Len(keyed) \in Nat /\ drained <= Len(keyed)
<1>1. keyed \in Seq(Pulse) /\ drained \in Nat /\ ring \in Seq(EdgeType)
    BY DEF HandInv, HandTyped, DecInv
<1>2. PICK count \in Counts(ring, keyed) : Numbered(dec, ring, keyed, drained, count)
    BY DEF HandInv, RingInv, InBuffer
<1>3. drained <= Len(keyed)
    BY <1>1, <1>2, CountBounds
<1> QED BY <1>1, <1>3

\* The loop never leaves an old letter open.
LEMMA OpenIsYoung ==
    ASSUME HandInv, ~missed, at = "silence", wire = 0, keyed # <<>>,
           drained = Len(keyed) => ~(Measures(dec) /\ LetterDue(dec, now))
    PROVE  sinceFall <= Hidden(glitches)
<1>1. /\ LetterInv /\ LookInv /\ AgeInv /\ HandTyped /\ DecInv
    BY DEF HandInv
<1>2. /\ lag \in 0 .. MaxLag /\ sinceFall \in 0 .. OldAge /\ glitches \in 0 .. MaxGlitches
      /\ keyed \in Seq(Pulse) /\ dec \in Decoder /\ now \in Time
    BY <1>1 DEF HandTyped, DecInv
<1>3. /\ Hidden(glitches) \in Int /\ letter_ms - 1 <= Hidden(glitches)
      /\ Hidden(glitches) + MaxLag < OldAge
    BY <1>2, HiddenBounds
<1>4. drained \in Nat /\ Len(keyed) \in Nat /\ drained <= Len(keyed) /\ Len(keyed) >= 1
    BY <1>2, SeenWereKeyed
<1>5. dec.level \in {0, 1}
    BY <1>2, DecoderFields DEF Level
<1>6. CASE dec.level = 1
  <2>1. sinceFall <= (Hidden(glitches) + lag) - MaxLag
      BY <1>1, <1>6 DEF AgeInv
  <2> QED BY <1>2, <1>3, <2>1, Limits
<1>7. CASE dec.level = 0 /\ drained < Len(keyed)
  <2>1. sinceFall <= lag
      BY <1>1, <1>7 DEF LookInv
  <2> QED BY <1>2, <1>3, <2>1, Limits
<1>8. CASE dec.level = 0 /\ drained = Len(keyed)
  <2>1. sinceFall <= (Hidden(glitches) + lag) - 0
      BY <1>1, <1>8 DEF AgeInv
  <2>2. sinceFall < OldAge
      BY <1>2, <1>3, <2>1, Limits
  <2>3. Elapsed(now, dec.t_fall) = sinceFall
      BY <1>1, <1>4, <1>8, <2>2 DEF LetterInv
  <2>4. Measures(dec)
      BY <1>1, <1>4, <1>8 DEF LetterInv, Measures
  <2>5. dec.symbol # <<>>
    <3>1. Len(dec.symbol) = (IF drained < MaxSymbol THEN drained ELSE MaxSymbol)
        BY <1>1 DEF LetterInv
    <3>2. Len(dec.symbol) # 0
        BY <1>4, <1>8, <3>1, Thresholds
    <3> QED BY <3>2
  <2>6. ~(sinceFall >= letter_ms)
      BY <1>8, <2>3, <2>4, <2>5 DEF LetterDue
  <2> QED BY <1>2, <1>3, <2>6, Limits
<1> QED BY <1>4, <1>5, <1>6, <1>7, <1>8

LEMMA LookHand ==
    ASSUME HandInv, LookAtSilence
    PROVE  HandTyped' /\ (~missed' => (RingInv /\ WireInv /\ LetterInv /\ PauseInv
                                       /\ LookInv /\ AgeInv)')
<1>1. /\ at = "silence" /\ at' = "drain" /\ lag' = 0 /\ dec' = Silence(dec, now)
      /\ UNCHANGED <<now, wire, ring, wireAge, sinceFall, glitches, pause, missed>>
      /\ IF dec.symbol # <<>> /\ dec'.symbol = <<>>
         THEN keyed' = SubSeq(keyed, drained + 1, Len(keyed)) /\ drained' = 0
         ELSE keyed' = keyed /\ drained' = drained
    BY DEF LookAtSilence, wiring, wireHistory
<1>2. /\ keyed \in Seq(Pulse) /\ drained \in Nat /\ dec \in Decoder /\ now \in Time
      /\ ring \in Seq(EdgeType) /\ glitches \in 0 .. MaxGlitches /\ sinceFall \in 0 .. OldAge
    BY DEF HandInv, HandTyped, DecInv
<1>3. keyed' \in Seq(Pulse) /\ drained' \in Nat
  <2>1. SubSeq(keyed, drained + 1, Len(keyed)) \in Seq(Pulse)
    <3> DEFINE m == drained + 1
               n == Len(keyed)
    <3>1. m \in Int /\ n \in Int /\ \A i \in m .. n : keyed[i] \in Pulse
        BY <1>2
    <3> HIDE DEF m, n
    <3>2. SubSeq(keyed, m, n) \in Seq(Pulse)
        BY <3>1, SubSeqProperties
    <3> QED BY <3>2 DEF m, n
  <2>2. CASE dec.symbol # <<>> /\ dec'.symbol = <<>>
    <3>1. keyed' = SubSeq(keyed, drained + 1, Len(keyed)) /\ drained' = 0
        BY <1>1, <2>2
    <3>2. drained' \in Nat
        BY <3>1
    <3> QED BY <2>1, <3>1, <3>2, Zenon
  <2>3. CASE ~(dec.symbol # <<>> /\ dec'.symbol = <<>>)
    <3>1. keyed' = keyed /\ drained' = drained
        BY <1>1, <2>3, Zenon
    <3> QED BY <1>2, <3>1
  <2> QED BY <2>2, <2>3
<1>4. HandTyped'
  <2>1. 0 \in 0 .. MaxLag
      BY Limits
  <2> QED BY <1>1, <1>3, <2>1 DEF HandInv, HandTyped
<1> SUFFICES ASSUME ~missed'
             PROVE  (RingInv /\ WireInv /\ LetterInv /\ PauseInv /\ LookInv /\ AgeInv)'
    BY <1>4
<1>5. /\ ~missed
      /\ RingInv /\ WireInv /\ LetterInv /\ PauseInv /\ LookInv /\ AgeInv
    BY <1>1 DEF HandInv
<1>6. Len(keyed) \in Nat /\ drained <= Len(keyed)
    BY <1>5, SeenWereKeyed
<1>7. SameSight(dec, dec') /\ dec'.t_fall = dec.t_fall
    BY <1>1, <1>2, SilenceDoes DEF SameSight
<1>8. /\ dec'.symbol = IF Measures(dec) /\ LetterDue(dec, now) THEN <<>> ELSE dec.symbol
      /\ dec'.overflowed <=> dec.overflowed /\ ~(Measures(dec) /\ LetterDue(dec, now))
      /\ dec.measuring /\ dec'.symbol # <<>> => dec'.measuring
    BY <1>1, <1>2, SilenceDoes
<1> DEFINE closing == Measures(dec) /\ LetterDue(dec, now)
           rest == SubSeq(keyed, drained + 1, Len(keyed))
<1>9. closing => dec.symbol # <<>>
    BY DEF LetterDue
<1>10. /\ closing => keyed' = rest /\ drained' = 0
       /\ ~closing => keyed' = keyed /\ drained' = drained
    BY <1>1, <1>8, <1>9
<1>11. /\ Len(rest) = Len(keyed) - drained
       /\ \A i \in 1 .. Len(keyed) - drained : rest[i] = keyed[drained + i]
  <2>1. drained \in 0 .. Len(keyed)
      BY <1>2, <1>6
  <2> QED BY <1>2, <2>1, SubSeqFrom
<1>12. WireInv'
  <2>1. \A j : Before(dec', ring, j) = Before(dec, ring, j)
               /\ RoseAt(dec', ring, j) = RoseAt(dec, ring, j)
      BY <1>7, SameEdges
  <2>2. HighSince(dec', ring, wire, pause, wireAge, now)
      BY <1>5, <1>7, <2>1 DEF WireInv, HighSince, SameSight
  <2> QED BY <1>1, <2>2 DEF WireInv
<1>13. RingInv'
  <2>1. CASE closing
    <3>1. InBuffer(dec', ring, rest, 0, now, sinceFall)
        BY <1>2, <1>5, <1>7, BufferClosed DEF RingInv
    <3> QED BY <1>1, <1>10, <2>1, <3>1 DEF RingInv
  <2>2. CASE ~closing
    <3>1. InBuffer(dec', ring, keyed, drained, now, sinceFall)
        BY <1>5, <1>7, BufferKept DEF RingInv
    <3> QED BY <1>1, <1>10, <2>2, <3>1 DEF RingInv
  <2> QED BY <2>1, <2>2
<1>14. LetterInv'
  <2>1. CASE closing
    <3>1. dec'.symbol = <<>> /\ Len(dec'.symbol) = 0 /\ ~dec'.overflowed /\ drained' = 0
        BY <1>8, <1>10, <2>1
    <3>2. 0 < MaxSymbol /\ ~(0 > MaxSymbol) /\ ~(0 >= 1)
        BY Thresholds
    <3>3. \A i \in 1 .. 0 : FALSE
        OBVIOUS
    <3> QED BY <3>1, <3>2, <3>3 DEF LetterInv
  <2>2. CASE ~closing
    <3>1. /\ dec'.symbol = dec.symbol /\ (dec'.overflowed <=> dec.overflowed)
          /\ keyed' = keyed /\ drained' = drained
        BY <1>8, <1>10, <2>2
    <3>2. drained >= 1 => dec'.measuring
      <4>1. SUFFICES ASSUME drained >= 1 PROVE dec'.measuring
          OBVIOUS
      <4>2. Len(dec.symbol) = (IF drained < MaxSymbol THEN drained ELSE MaxSymbol) /\ dec.measuring
          BY <1>5, <4>1 DEF LetterInv
      <4>3. Len(dec.symbol) # 0
          BY <1>2, <4>1, <4>2, Thresholds
      <4>4. dec.symbol # <<>>
          BY <4>3
      <4> QED BY <1>8, <3>1, <4>2, <4>4
    <3> QED BY <1>1, <1>5, <1>7, <3>1, <3>2 DEF LetterInv
  <2> QED BY <2>1, <2>2
<1>15. PauseInv'
  <2>1. CASE closing
    <3>1. keyed' = rest
        BY <1>10, <2>1
    <3>2. ASSUME wire = 1, rest # <<>> PROVE pause \in {"short", "either"}
      <4>1. keyed # <<>>
        <5>1. ASSUME keyed = <<>> PROVE FALSE
          <6>1. Len(keyed) = 0
              BY <5>1
          <6>2. Len(rest) = 0
              BY <1>2, <1>6, <1>11, <6>1
          <6>3. rest \in Seq(Pulse)
              BY <1>3, <3>1
          <6> QED BY <3>2, <6>2, <6>3
        <5> QED BY <5>1
      <4> QED BY <1>5, <3>2, <4>1 DEF PauseInv
    <3>3. ASSUME NEW i \in 2 .. Len(rest) PROVE rest[i].pause # "long"
      <4>1. i \in 1 .. Len(keyed) - drained /\ drained + i \in 2 .. Len(keyed)
          BY <1>2, <1>6, <1>11
      <4>2. rest[i] = keyed[drained + i]
          BY <1>11, <4>1
      <4> QED BY <1>5, <4>1, <4>2 DEF PauseInv
    <3> HIDE DEF rest
    <3> QED BY <1>1, <3>1, <3>2, <3>3 DEF PauseInv
  <2>2. CASE ~closing
      BY <1>1, <1>5, <1>10, <2>2 DEF PauseInv
  <2> QED BY <2>1, <2>2
<1>16. LookInv'
    BY <1>1 DEF LookInv
<1>17. AgeInv'
  <2> SUFFICES ASSUME keyed' # <<>>
               PROVE  IF wire = 1 THEN sinceFall <= (Hidden(glitches) + MaxLag) + wireAge
                      ELSE sinceFall <= (Hidden(glitches) + 0) - 0
      BY <1>1 DEF AgeInv
  <2>1. Len(keyed') # 0
      BY <1>3
  <2>2. keyed # <<>> /\ (closing => drained < Len(keyed))
    <3>1. CASE closing
      <4>1. Len(keyed) - drained # 0
          BY <1>10, <1>11, <2>1, <3>1
      <4>2. drained < Len(keyed) /\ Len(keyed) # 0
          BY <1>2, <1>6, <4>1
      <4> QED BY <4>2
    <3>2. CASE ~closing
        BY <1>10, <3>2
    <3> QED BY <3>1, <3>2
  <2>3. CASE wire = 1
      BY <1>5, <2>2, <2>3 DEF AgeInv
  <2>4. CASE wire # 1
    <3>1. wire = 0
        BY <2>4 DEF HandInv, DecInv, Level
    <3>2. drained = Len(keyed) => ~closing
        BY <1>2, <1>6, <2>2
    <3>3. sinceFall <= Hidden(glitches)
        BY <1>1, <1>5, <2>2, <3>1, <3>2, OpenIsYoung
    <3>4. Hidden(glitches) \in Int
        BY <1>2, HiddenBounds
    <3> QED BY <2>4, <3>3, <3>4
  <2> QED BY <2>3, <2>4
<1> QED BY <1>12, <1>13, <1>14, <1>15, <1>16, <1>17

-----------------------------------------------------------------------------
(* The loop drains an edge.                                                *)

\* A symbol is printed for a pulse that the decoder saw rise and that is no noise.
TakesSymbol(d, lvl, t) ==
    lvl = 0 /\ d.level = 1 /\ d.in_pulse /\ Elapsed(t, d.t_rise) >= debounce_ms

LEMMA SymbolLine ==
    ASSUME NEW d \in Decoder, NEW lvl \in Level, NEW t \in Time
    PROVE  (\E i \in DOMAIN EdgeLines(d, lvl, t) : EdgeLines(d, lvl, t)[i].kind = "symbol")
              <=> TakesSymbol(d, lvl, t)
<1> DEFINE ms == Elapsed(t, d.t_rise)
           P(s) == \E i \in DOMAIN s : s[i].kind = "symbol"
<1>1. ms \in Nat /\ d.level \in {0, 1} /\ d.in_pulse \in BOOLEAN /\ lvl \in {0, 1}
  <2>1. d.t_rise \in Time /\ d.level \in Level /\ d.in_pulse \in BOOLEAN
      BY DecoderFields
  <2>2. ms \in Time
      BY <2>1, ElapsedInTime
  <2> QED BY <2>1, <2>2 DEF Time, Level
<1>2. ASSUME NEW l, l.kind # "symbol" PROVE ~P(<<>>) /\ ~P(<<l>>) /\ ~P(IfVerbose(l))
  <2>1. ~P(<<>>)
      OBVIOUS
  <2>2. ~P(<<l>>)
      BY <1>2
  <2> QED BY <2>1, <2>2 DEF IfVerbose
<1>3. ASSUME NEW l, l.kind = "symbol", NEW m PROVE P(<<l>> \o IfVerbose(m))
  <2>1. CASE verbose
    <3>1. <<l>> \o IfVerbose(m) = <<l, m>>
        BY <2>1, TwoLines DEF IfVerbose
    <3>2. P(<<l, m>>)
      <4>1. 1 \in DOMAIN <<l, m>> /\ <<l, m>>[1] = l
          OBVIOUS
      <4> QED BY <1>3, <4>1
    <3> QED BY <3>1, <3>2
  <2>2. CASE ~verbose
    <3>1. <<l>> \o IfVerbose(m) = <<l>>
        BY <2>2 DEF IfVerbose
    <3>2. P(<<l>>)
      <4>1. 1 \in DOMAIN <<l>> /\ <<l>>[1] = l
          OBVIOUS
      <4> QED BY <1>3, <4>1
    <3> QED BY <3>1, <3>2
  <2> QED BY <2>1, <2>2
<1>4. ASSUME NEW kind, NEW v, NEW x PROVE Line(kind, v, x).kind = kind
    BY DEF Line
<1> SUFFICES P(EdgeLines(d, lvl, t)) <=> TakesSymbol(d, lvl, t)
    OBVIOUS
<1> HIDE DEF P
<1>5. CASE lvl = d.level
  <2>1. EdgeLines(d, lvl, t) = <<>>
      BY <1>5 DEF EdgeLines
  <2>2. ~P(<<>>)
    <3>1. Line("gap", "none", 0).kind # "symbol"
        BY <1>4
    <3> QED BY <1>2, <3>1
  <2> QED BY <1>5, <2>1, <2>2 DEF TakesSymbol
<1>6. CASE lvl = 1 /\ d.level = 0
  <2> DEFINE gap == Line("gap", "none", Elapsed(t, d.t_fall))
  <2>1. EdgeLines(d, lvl, t) = IF d.have_fall THEN IfVerbose(gap) ELSE <<>>
      BY <1>6 DEF EdgeLines
  <2>2. gap.kind # "symbol"
      BY <1>4
  <2> HIDE DEF gap
  <2>3. ~P(<<>>) /\ ~P(IfVerbose(gap))
      BY <1>2, <2>2
  <2> QED BY <1>6, <2>1, <2>3 DEF TakesSymbol
<1>7. CASE lvl = 0 /\ d.level = 1 /\ ~d.in_pulse
  <2>1. EdgeLines(d, lvl, t) = <<>>
      BY <1>7 DEF EdgeLines
  <2>2. ~P(<<>>)
    <3>1. Line("gap", "none", 0).kind # "symbol"
        BY <1>4
    <3> QED BY <1>2, <3>1
  <2> QED BY <1>7, <2>1, <2>2 DEF TakesSymbol
<1>8. CASE lvl = 0 /\ d.level = 1 /\ d.in_pulse /\ ms < debounce_ms
  <2> DEFINE noise == Line("filtered", "none", ms)
  <2>0. ~(ms >= debounce_ms)
      BY <1>1, <1>8, Thresholds
  <2>1. EdgeLines(d, lvl, t) = <<>> \o IfVerbose(noise)
      BY <1>8, <2>0 DEF EdgeLines
  <2>2. noise.kind # "symbol"
      BY <1>4
  <2> HIDE DEF noise
  <2>3. <<>> \o IfVerbose(noise) = IfVerbose(noise)
      BY NoLineBefore DEF IfVerbose
  <2>4. ~P(IfVerbose(noise))
      BY <1>2, <2>2
  <2> QED BY <1>8, <2>0, <2>1, <2>3, <2>4 DEF TakesSymbol
<1>9. CASE lvl = 0 /\ d.level = 1 /\ d.in_pulse /\ ms >= debounce_ms
  <2> DEFINE symbol == Line("symbol", Class(ms), ms)
             pulse == Line("pulse", "none", ms)
  <2>0. ~(ms < debounce_ms)
      BY <1>1, <1>9, Thresholds
  <2>1. EdgeLines(d, lvl, t) = <<symbol>> \o IfVerbose(pulse)
      BY <1>9, <2>0 DEF EdgeLines
  <2>2. symbol.kind = "symbol"
      BY <1>4
  <2> HIDE DEF symbol, pulse
  <2>3. P(<<symbol>> \o IfVerbose(pulse))
      BY <1>3, <2>2
  <2> QED BY <1>9, <2>1, <2>3 DEF TakesSymbol
<1>10. ms < debounce_ms \/ ms >= debounce_ms
    BY <1>1, Thresholds
<1> QED BY <1>1, <1>5, <1>6, <1>7, <1>8, <1>9, <1>10

LEMMA EdgeDoes ==
    ASSUME NEW d \in Decoder, NEW lvl \in Level, lvl = 1 - d.level, NEW t \in Time
    PROVE  /\ Edge(d, lvl, t).level = lvl
           /\ lvl = 1 => Edge(d, lvl, t).in_pulse /\ Edge(d, lvl, t).t_rise = t
           /\ IF TakesSymbol(d, lvl, t)
              THEN /\ Edge(d, lvl, t).t_fall = t /\ Edge(d, lvl, t).measuring
                   /\ Edge(d, lvl, t).symbol =
                        IF Fits(d) THEN Append(d.symbol, Class(Elapsed(t, d.t_rise))) ELSE d.symbol
                   /\ Edge(d, lvl, t).overflowed <=> d.overflowed \/ ~Fits(d)
              ELSE /\ Edge(d, lvl, t).t_fall = d.t_fall
                   /\ Edge(d, lvl, t).measuring = d.measuring
                   /\ Edge(d, lvl, t).symbol = d.symbol
                   /\ Edge(d, lvl, t).overflowed = d.overflowed
<1> DEFINE ms == Elapsed(t, d.t_rise)
           e == Edge(d, lvl, t)
<1>1. ms \in Nat /\ d.level \in {0, 1} /\ d.in_pulse \in BOOLEAN /\ lvl \in {0, 1}
  <2>1. d.t_rise \in Time /\ d.level \in Level /\ d.in_pulse \in BOOLEAN
      BY DecoderFields
  <2>2. ms \in Time
      BY <2>1, ElapsedInTime
  <2> QED BY <2>1, <2>2 DEF Time, Level
<1>2. CASE lvl = 1
  <2>1. d.level = 0 /\ ~TakesSymbol(d, lvl, t)
      BY <1>1, <1>2 DEF TakesSymbol
  <2>2. e = [d EXCEPT !.level = 1, !.t_rise = t, !.in_pulse = TRUE]
      BY <1>2, <2>1 DEF Edge
  <2> HIDE DEF e
  <2>3. /\ e.level = 1 /\ e.in_pulse = TRUE /\ e.t_rise = t /\ e.t_fall = d.t_fall
        /\ e.measuring = d.measuring /\ e.symbol = d.symbol /\ e.overflowed = d.overflowed
      BY <2>2 DEF Decoder
  <2> QED BY <1>2, <2>1, <2>3 DEF e
<1>3. CASE lvl = 0 /\ ~TakesSymbol(d, lvl, t)
  <2>1. d.level = 1
      BY <1>1, <1>3
  <2>2. e = [d EXCEPT !.level = 0] \/ e = [d EXCEPT !.level = 0, !.in_pulse = FALSE]
    <3>1. CASE ~d.in_pulse
        BY <1>3, <2>1, <3>1 DEF Edge
    <3>2. CASE d.in_pulse
      <4>1. ms < debounce_ms
          BY <1>1, <1>3, <2>1, <3>2, Thresholds DEF TakesSymbol
      <4> QED BY <1>3, <2>1, <3>2, <4>1 DEF Edge, NoiseFiltered
    <3> QED BY <3>1, <3>2
  <2> HIDE DEF e
  <2>3. /\ e.level = 0 /\ e.t_fall = d.t_fall
        /\ e.measuring = d.measuring /\ e.symbol = d.symbol /\ e.overflowed = d.overflowed
      BY <2>2 DEF Decoder
  <2> QED BY <1>3, <2>3 DEF e
<1>4. CASE lvl = 0 /\ TakesSymbol(d, lvl, t)
  <2>1. d.level = 1 /\ d.in_pulse /\ ms >= debounce_ms /\ ~(ms < debounce_ms)
      BY <1>1, <1>4, Thresholds DEF TakesSymbol
  <2>2. e = SymbolTaken(d, t)
      BY <1>4, <2>1 DEF Edge
  <2> DEFINE symbol == IF Fits(d) THEN Append(d.symbol, Class(ms)) ELSE d.symbol
  <2>3. e = [d EXCEPT !.level = 0, !.in_pulse = FALSE, !.t_fall = t, !.have_fall = TRUE,
                      !.measuring = TRUE, !.symbol = symbol,
                      !.overflowed = d.overflowed \/ ~Fits(d)]
      BY <2>2 DEF SymbolTaken, Decoder
  <2> HIDE DEF e, symbol
  <2>4. /\ e.level = 0 /\ e.t_fall = t /\ e.measuring = TRUE /\ e.symbol = symbol
        /\ e.overflowed <=> d.overflowed \/ ~Fits(d)
      BY <2>3 DEF Decoder
  <2> QED BY <1>4, <2>4 DEF e, symbol
<1> QED BY <1>1, <1>2, <1>3, <1>4

\* What is left in the buffer is counted as before.
Passed(d, e, r) ==
    /\ e.level = r[1].level /\ r[1].level = 1 - d.level
    /\ r[1].level = 1 => e.in_pulse /\ e.t_rise = r[1].t

LEMMA TailEdge ==
    ASSUME NEW d, NEW e, NEW r \in Seq(EdgeType), r # <<>>, Passed(d, e, r),
           NEW j \in 1 .. Len(r)
    PROVE  /\ Before(e, Tail(r), j) = Before(d, r, j + 1)
           /\ Before(d, r, j + 1) = 1 => RoseAt(e, Tail(r), j) = RoseAt(d, r, j + 1)
           /\ j # Len(r) => Tail(r)[j] = r[j + 1]
<1>1. Len(r) \in Nat /\ Len(Tail(r)) = Len(r) - 1
      /\ \A i \in 1 .. Len(Tail(r)) : Tail(r)[i] = r[i + 1]
    BY HeadTailProperties
<1>2. j + 1 # 1 /\ (j + 1) - 1 = j
    BY <1>1
<1>3. Before(d, r, j + 1) = r[j].level /\ RoseAt(d, r, j + 1) = r[j].t
    BY <1>2 DEF Before, RoseAt
<1>4. CASE j = 1
  <2>1. Before(e, Tail(r), j) = e.level /\ RoseAt(e, Tail(r), j) = e.t_rise
      BY <1>4 DEF Before, RoseAt
  <2>2. Before(d, r, j + 1) = r[1].level /\ RoseAt(d, r, j + 1) = r[1].t
      BY <1>3, <1>4
  <2> QED BY <2>1, <2>2 DEF Passed
<1>5. CASE j # 1
  <2>1. j - 1 \in 1 .. Len(Tail(r)) /\ (j - 1) + 1 = j
      BY <1>1, <1>5
  <2>2. Tail(r)[j - 1] = r[j]
      BY <1>1, <2>1
  <2> QED BY <1>3, <1>5, <2>2 DEF Before, RoseAt
<1>6. ASSUME j # Len(r) PROVE Tail(r)[j] = r[j + 1]
  <2>1. \A n \in Nat : \A i \in 1 .. n : i # n => i \in 1 .. n - 1
      OBVIOUS
  <2>2. j \in 1 .. Len(r) - 1
      BY <1>1, <1>6, <2>1
  <2> QED BY <1>1, <2>2
<1>7. /\ Before(e, Tail(r), j) = Before(d, r, j + 1)
      /\ Before(d, r, j + 1) = 1 => RoseAt(e, Tail(r), j) = RoseAt(d, r, j + 1)
    BY <1>4, <1>5
<1> QED BY <1>6, <1>7

LEMMA BufferDrained ==
    ASSUME NEW d, NEW e, NEW r \in Seq(EdgeType), r # <<>>, Passed(d, e, r),
           NEW k \in Seq(Pulse), NEW n \in Nat, NEW t, NEW age, InBuffer(d, r, k, n, t, age)
    PROVE  /\ InBuffer(e, Tail(r), k, n + (IF IsPulse(d, r, 1) THEN 1 ELSE 0), t, age)
           /\ IsPulse(d, r, 1) =>
                 /\ n + 1 \in 1 .. Len(k) /\ k[n + 1].symbol = Class(Width(d, r, 1))
                 /\ n + 1 = Len(k) /\ age < OldAge => Elapsed(t, r[1].t) = age
<1>1. PICK c \in Counts(r, k) : Numbered(d, r, k, n, c) /\ Dated(d, r, k, t, age, c)
    BY DEF InBuffer
<1> DEFINE u == Tail(r)
           m == n + (IF IsPulse(d, r, 1) THEN 1 ELSE 0)
           b == [j \in 0 .. Len(u) |-> c[j + 1]]
<1>2. /\ Len(r) \in Nat /\ Len(r) >= 1 /\ Len(u) = Len(r) - 1 /\ Len(k) \in Nat
  <2>1. Len(r) \in Nat /\ Len(k) \in Nat /\ Len(r) # 0
      OBVIOUS
  <2>2. Len(u) = Len(r) - 1
      BY HeadTailProperties
  <2> QED BY <2>1, <2>2
<1>3. /\ \A j \in 0 .. Len(r) : c[j] \in 0 .. Len(k)
      /\ \A j \in 1 .. Len(r) : IsPulse(d, r, j) => c[j] >= n + 1
  <2>1. \A j \in 0 .. Len(r) : c[j] \in 0 .. Len(k)
      BY DEF Counts
  <2>2. Numbered(d, r, k, n, c)
      BY <1>1
  <2>3. \A j \in 1 .. Len(r) : IsPulse(d, r, j) => c[j] >= n + 1
      BY <2>2, CountBounds
  <2> QED BY <2>1, <2>3
<1>4. 1 \in 1 .. Len(r) /\ 1 - 1 = 0 /\ 1 \in 0 .. Len(r)
    BY <1>2
<1>5. c[1] = m
  <2>1. c[1] = c[1 - 1] + (IF IsPulse(d, r, 1) THEN 1 ELSE 0) /\ c[0] = n
      BY <1>1, <1>4 DEF Numbered
  <2> QED BY <1>4, <2>1
<1>6. ASSUME IsPulse(d, r, 1)
      PROVE  /\ n + 1 \in 1 .. Len(k) /\ k[n + 1].symbol = Class(Width(d, r, 1))
             /\ n + 1 = Len(k) /\ age < OldAge => Elapsed(t, r[1].t) = age
  <2>1. c[1] = n + 1
      BY <1>5, <1>6
  <2>2. n + 1 \in 1 .. Len(k)
      BY <1>2, <1>3, <1>4, <2>1
  <2>3. k[c[1]].symbol = Class(Width(d, r, 1))
      BY <1>1, <1>4, <1>6 DEF Numbered
  <2>4. c[1] = Len(k) /\ age < OldAge => Elapsed(t, r[1].t) = age
      BY <1>1, <1>4, <1>6 DEF Dated
  <2> QED BY <2>1, <2>2, <2>3, <2>4
<1> HIDE DEF u, m
<1>7. \A j \in 0 .. Len(u) : b[j] = c[j + 1] /\ j + 1 \in 0 .. Len(r)
    BY <1>2
<1>8. b \in Counts(u, k)
  <2>1. \A j \in 0 .. Len(u) : c[j + 1] \in 0 .. Len(k)
      BY <1>3, <1>7
  <2> QED BY <2>1 DEF Counts
<1> HIDE DEF b
\* Edge j of the rest is edge j + 1 of the buffer.
<1>9. ASSUME NEW j \in 1 .. Len(u)
      PROVE  /\ j + 1 \in 1 .. Len(r) /\ u[j] = r[j + 1] /\ b[j] = c[j + 1]
             /\ b[j - 1] = c[(j + 1) - 1]
             /\ r[j + 1].level = 1 - Before(d, r, j + 1)
             /\ Before(e, u, j) = Before(d, r, j + 1)
             /\ IsPulse(e, u, j) <=> IsPulse(d, r, j + 1)
             /\ IsPulse(e, u, j) => Width(e, u, j) = Width(d, r, j + 1)
  <2>1. /\ j \in 1 .. Len(r) /\ j + 1 \in 1 .. Len(r) /\ j # Len(r) /\ j \in Nat /\ j >= 1
        /\ j \in 0 .. Len(u) /\ j - 1 \in 0 .. Len(u) /\ (j - 1) + 1 = (j + 1) - 1
        /\ j + 1 # 1 /\ (j + 1) - 1 = j
      BY <1>2
  <2>2. /\ Before(e, u, j) = Before(d, r, j + 1)
        /\ Before(d, r, j + 1) = 1 => RoseAt(e, u, j) = RoseAt(d, r, j + 1)
        /\ u[j] = r[j + 1]
      BY <2>1, TailEdge DEF u
  <2>3. r[j + 1].level = 1 - Before(d, r, j + 1)
      BY <1>1, <2>1 DEF Numbered
  <2>4. b[j] = c[j + 1] /\ b[j - 1] = c[(j + 1) - 1]
      BY <1>7, <2>1
  <2>5. CASE r[j + 1].level = 0
    <3>1. Before(d, r, j + 1) = 1
      <4>1. j + 1 \in 1 .. Len(r) + 1 /\ Before(d, r, j + 1) = r[j].level
          BY <1>2, <2>1 DEF Before
      <4>2. r[j].level \in {0, 1}
          BY <2>1, EdgeAt DEF Level
      <4> QED BY <2>3, <2>5, <4>1, <4>2
    <3>2. Width(e, u, j) = Width(d, r, j + 1)
        BY <2>2, <3>1 DEF Width
    <3>3. j = 1 => e.in_pulse
      <4>1. Before(d, r, j + 1) = r[j].level
          BY <2>1 DEF Before
      <4> QED BY <3>1, <4>1 DEF Passed
    <3>4. IsPulse(e, u, j) <=> IsPulse(d, r, j + 1)
        BY <2>1, <2>2, <3>2, <3>3 DEF IsPulse
    <3> QED BY <2>1, <2>2, <2>3, <2>4, <3>2, <3>4
  <2>6. CASE r[j + 1].level # 0
    <3>1. ~IsPulse(e, u, j) /\ ~IsPulse(d, r, j + 1)
        BY <2>2, <2>6 DEF IsPulse
    <3> QED BY <2>1, <2>2, <2>3, <2>4, <3>1
  <2> QED BY <2>5, <2>6
<1>10. Numbered(e, u, k, m, b)
  <2>1. b[0] = m /\ b[Len(u)] = Len(k)
    <3>1. 0 \in 0 .. Len(u) /\ Len(u) \in 0 .. Len(u) /\ 0 + 1 = 1 /\ Len(u) + 1 = Len(r)
        BY <1>2
    <3>2. c[Len(r)] = Len(k)
        BY <1>1 DEF Numbered
    <3>3. b[0] = c[1] /\ b[Len(u)] = c[Len(r)]
        BY <1>7, <3>1
    <3> QED BY <1>5, <3>2, <3>3
  <2>2. ASSUME NEW i \in 0 .. Len(u), NEW j \in 0 .. Len(u), i <= j PROVE b[i] <= b[j]
    <3>1. i + 1 \in 0 .. Len(r) /\ j + 1 \in 0 .. Len(r) /\ b[i] = c[i + 1] /\ b[j] = c[j + 1]
        BY <1>7
    <3>2. i + 1 <= j + 1
        BY <1>2, <2>2
    <3>3. c[i + 1] <= c[j + 1]
        BY <1>1, <3>1, <3>2 DEF Numbered
    <3> QED BY <3>1, <3>3
  <2>3. ASSUME NEW j \in 1 .. Len(u)
        PROVE  /\ u[j].level = 1 - Before(e, u, j)
               /\ b[j] = b[j - 1] + (IF IsPulse(e, u, j) THEN 1 ELSE 0)
               /\ IsPulse(e, u, j) => k[b[j]].symbol = Class(Width(e, u, j))
    <3>1. j + 1 \in 1 .. Len(r)
        BY <1>9
    <3>2. /\ c[j + 1] = c[(j + 1) - 1] + (IF IsPulse(d, r, j + 1) THEN 1 ELSE 0)
          /\ IsPulse(d, r, j + 1) => k[c[j + 1]].symbol = Class(Width(d, r, j + 1))
        BY <1>1, <3>1 DEF Numbered
    <3> QED BY <1>9, <3>2
  <2> QED BY <2>1, <2>2, <2>3 DEF Numbered
<1>11. Dated(e, u, k, t, age, b)
  <2> SUFFICES ASSUME NEW j \in 1 .. Len(u), IsPulse(e, u, j), b[j] = Len(k), age < OldAge
               PROVE  Elapsed(t, u[j].t) = age
      BY DEF Dated
  <2>1. /\ j + 1 \in 1 .. Len(r) /\ IsPulse(d, r, j + 1) /\ c[j + 1] = Len(k)
        /\ u[j] = r[j + 1]
      BY <1>9
  <2>2. Elapsed(t, r[j + 1].t) = age
      BY <1>1, <2>1 DEF Dated
  <2> QED BY <2>1, <2>2
<1>12. InBuffer(e, u, k, m, t, age)
    BY <1>8, <1>10, <1>11 DEF InBuffer
<1> QED BY <1>6, <1>12 DEF u, m

LEMMA WireDrained ==
    ASSUME NEW d, NEW e, NEW r \in Seq(EdgeType), r # <<>>, Passed(d, e, r),
           NEW w, NEW p, NEW age, NEW t, HighSince(d, r, w, p, age, t)
    PROVE  HighSince(e, Tail(r), w, p, age, t)
<1>1. Len(r) \in Nat /\ Len(r) >= 1 /\ Len(Tail(r)) + 1 = Len(r)
  <2>1. Len(r) \in Nat /\ Len(r) # 0
      OBVIOUS
  <2>2. Len(Tail(r)) = Len(r) - 1
      BY HeadTailProperties
  <2> QED BY <2>1, <2>2
<1> DEFINE n == Len(r)
           u == Tail(r)
<1>2. n \in 1 .. n
    BY <1>1
<1>3. /\ Before(e, u, n) = Before(d, r, n + 1)
      /\ Before(d, r, n + 1) = 1 => RoseAt(e, u, n) = RoseAt(d, r, n + 1)
    BY <1>2, TailEdge
<1>4. Before(d, r, n + 1) = r[n].level
  <2>1. n + 1 # 1 /\ (n + 1) - 1 = n
      BY <1>1
  <2> QED BY <2>1 DEF Before
<1>6. Len(r) # 0
    BY <1>1
<1>7. /\ w = Before(d, r, n + 1)
      /\ w = 1 => /\ p # "none" <=> (Len(r) = 0 => d.in_pulse)
                  /\ p # "none" => Elapsed(t, RoseAt(d, r, n + 1)) = age
    BY DEF HighSince
<1> HIDE DEF n, u
<1>8. Len(u) + 1 = n
    BY <1>1 DEF n, u
<1>5. ASSUME w = 1, Len(u) = 0 PROVE e.in_pulse
  <2>1. n = 1
      BY <1>5, <1>8
  <2> QED BY <1>4, <1>5, <1>7, <2>1 DEF Passed
<1>9. /\ w = Before(e, u, n)
      /\ w = 1 => /\ p # "none" <=> (Len(u) = 0 => e.in_pulse)
                  /\ p # "none" => Elapsed(t, RoseAt(e, u, n)) = age
    BY <1>3, <1>5, <1>6, <1>7
<1>10. HighSince(e, u, w, p, age, t)
    BY <1>8, <1>9 DEF HighSince
<1> QED BY <1>10 DEF u

LEMMA DrainHand ==
    ASSUME HandInv, Drain
    PROVE  HandTyped' /\ (~missed' => (RingInv /\ WireInv /\ LetterInv /\ PauseInv
                                       /\ LookInv /\ AgeInv)')
<1> DEFINE h == ring[1]
           taken == TakesSymbol(dec, h.level, h.t)
<1>1. /\ at = "drain" /\ at' = "drain" /\ ring # <<>> /\ ring' = Tail(ring)
      /\ dec' = Edge(dec, h.level, h.t) /\ printed' = EdgeLines(dec, h.level, h.t)
      /\ drained' = drained + (IF \E i \in DOMAIN printed' : printed'[i].kind = "symbol"
                               THEN 1 ELSE 0)
      /\ UNCHANGED <<now, wire, lag, wireAge, sinceFall, glitches, pause, missed, keyed>>
  <2>1. Head(ring) = h
      BY DEF Drain
  <2> QED BY <2>1 DEF Drain, wireHistory
<1>2. /\ keyed \in Seq(Pulse) /\ drained \in Nat /\ dec \in Decoder /\ now \in Time
      /\ ring \in Seq(EdgeType)
    BY DEF HandInv, HandTyped, DecInv
<1>3. 1 \in 1 .. Len(ring) /\ h.level \in Level /\ h.t \in Time
  <2>1. 1 \in 1 .. Len(ring)
      BY <1>1, <1>2
  <2> QED BY <1>2, <2>1, EdgeAt
<1>4. drained' = drained + (IF taken THEN 1 ELSE 0)
  <2>1. (\E i \in DOMAIN printed' : printed'[i].kind = "symbol") <=> taken
      BY <1>1, <1>2, <1>3, SymbolLine
  <2> HIDE DEF taken
  <2>2. CASE taken
      BY <1>1, <2>1, <2>2
  <2>3. CASE ~taken
      BY <1>1, <2>1, <2>3
  <2> QED BY <2>2, <2>3
<1>5. HandTyped'
  <2>1. drained' \in Nat
      BY <1>2, <1>4
  <2> QED BY <1>1, <2>1 DEF HandInv, HandTyped
<1> SUFFICES ASSUME ~missed'
             PROVE  (RingInv /\ WireInv /\ LetterInv /\ PauseInv /\ LookInv /\ AgeInv)'
    BY <1>5
<1>6. RingInv /\ WireInv /\ LetterInv /\ PauseInv /\ LookInv /\ AgeInv
    BY <1>1 DEF HandInv
<1>7. h.level = 1 - dec.level
  <2>1. PICK count \in Counts(ring, keyed) : Numbered(dec, ring, keyed, drained, count)
      BY <1>6 DEF RingInv, InBuffer
  <2>2. h.level = 1 - Before(dec, ring, 1)
      BY <1>3, <2>1 DEF Numbered
  <2> QED BY <2>2 DEF Before
<1>8. /\ dec'.level = h.level
      /\ h.level = 1 => dec'.in_pulse /\ dec'.t_rise = h.t
      /\ taken => /\ dec'.t_fall = h.t /\ dec'.measuring
                  /\ dec'.symbol = IF Fits(dec) THEN Append(dec.symbol, Class(Width(dec, ring, 1)))
                                                ELSE dec.symbol
                  /\ dec'.overflowed <=> dec.overflowed \/ ~Fits(dec)
      /\ ~taken => /\ dec'.t_fall = dec.t_fall /\ dec'.measuring = dec.measuring
                   /\ dec'.symbol = dec.symbol /\ dec'.overflowed = dec.overflowed
    BY <1>1, <1>2, <1>3, <1>7, EdgeDoes DEF Width, RoseAt
<1>9. Passed(dec, dec', ring)
    BY <1>7, <1>8 DEF Passed
<1>10. IsPulse(dec, ring, 1) <=> taken
  <2>1. dec.level \in {0, 1}
      BY <1>2, DecoderFields DEF Level
  <2>2. Width(dec, ring, 1) = Elapsed(h.t, dec.t_rise)
      BY DEF Width, RoseAt
  <2>3. h.level = 0 => dec.level = 1
      BY <1>7, <2>1
  <2> QED BY <2>2, <2>3 DEF IsPulse, TakesSymbol
<1>11. InBuffer(dec', Tail(ring), keyed, drained', now, sinceFall)
  <2>1. InBuffer(dec', Tail(ring), keyed, drained + (IF IsPulse(dec, ring, 1) THEN 1 ELSE 0),
                 now, sinceFall)
      BY <1>1, <1>2, <1>6, <1>9, BufferDrained DEF RingInv
  <2>2. drained' = drained + (IF IsPulse(dec, ring, 1) THEN 1 ELSE 0)
      BY <1>4, <1>10
  <2> QED BY <2>1, <2>2
<1>12. taken =>
         /\ drained + 1 \in 1 .. Len(keyed)
         /\ keyed[drained + 1].symbol = Class(Width(dec, ring, 1))
         /\ drained + 1 = Len(keyed) /\ sinceFall < OldAge => Elapsed(now, h.t) = sinceFall
    BY <1>1, <1>2, <1>6, <1>9, <1>10, BufferDrained DEF RingInv
<1> HIDE DEF taken, h
<1>13. RingInv'
    BY <1>1, <1>11 DEF RingInv
<1>14. WireInv'
  <2>1. HighSince(dec', Tail(ring), wire, pause, wireAge, now)
      BY <1>1, <1>2, <1>6, <1>9, WireDrained DEF WireInv
  <2> QED BY <1>1, <2>1 DEF WireInv
<1>15. LetterInv'
  <2>1. CASE ~taken
    <3>1. drained' = drained
        BY <1>2, <1>4, <2>1
    <3>2. /\ dec'.t_fall = dec.t_fall /\ dec'.measuring = dec.measuring
          /\ dec'.symbol = dec.symbol /\ dec'.overflowed = dec.overflowed
        BY <1>8, <2>1
    <3> QED BY <1>1, <1>6, <3>1, <3>2 DEF LetterInv
  <2>2. CASE taken
    <3>1. drained' = drained + 1
        BY <1>2, <1>4, <2>2
    <3>2. /\ dec'.t_fall = h.t /\ dec'.measuring
          /\ dec'.symbol = IF Fits(dec) THEN Append(dec.symbol, Class(Width(dec, ring, 1)))
                                        ELSE dec.symbol
          /\ dec'.overflowed <=> dec.overflowed \/ ~Fits(dec)
        BY <1>8, <2>2
    <3>3. /\ dec.symbol \in Seq(Mark)
          /\ Len(dec.symbol) = (IF drained < MaxSymbol THEN drained ELSE MaxSymbol)
          /\ \A i \in 1 .. Len(dec.symbol) : dec.symbol[i] = keyed[i].symbol
          /\ dec.overflowed <=> drained > MaxSymbol
        BY <1>2, <1>6, DecoderFields DEF LetterInv
    <3>4. MaxSymbol \in Nat /\ MaxSymbol > 0
        BY Thresholds
    <3>5. Fits(dec) <=> drained < MaxSymbol
        BY <1>2, <3>3, <3>4 DEF Fits
    <3>6. dec'.overflowed <=> drained' > MaxSymbol
        BY <1>2, <3>1, <3>2, <3>3, <3>4, <3>5
    <3>7. /\ Len(dec'.symbol) = (IF drained' < MaxSymbol THEN drained' ELSE MaxSymbol)
          /\ \A i \in 1 .. Len(dec'.symbol) : dec'.symbol[i] = keyed[i].symbol
      <4>1. CASE Fits(dec)
        <5> DEFINE mark == Class(Width(dec, ring, 1))
        <5>1. dec'.symbol = Append(dec.symbol, mark) /\ mark \in Mark /\ drained < MaxSymbol
            BY <3>2, <3>5, <4>1, ClassIsMark
        <5>2. mark = keyed[drained + 1].symbol
            BY <1>12, <2>2
        <5>3. Len(dec.symbol) = drained
            BY <3>3, <5>1
        <5> HIDE DEF mark
        <5>4. /\ Len(Append(dec.symbol, mark)) = drained + 1
              /\ \A i \in 1 .. drained : Append(dec.symbol, mark)[i] = dec.symbol[i]
              /\ Append(dec.symbol, mark)[drained + 1] = mark
            BY <3>3, <5>1, <5>3, AppendProperties
        <5>5. Len(dec'.symbol) = (IF drained' < MaxSymbol THEN drained' ELSE MaxSymbol)
            BY <1>2, <3>1, <3>4, <5>1, <5>4
        <5>6. ASSUME NEW i \in 1 .. drained + 1 PROVE dec'.symbol[i] = keyed[i].symbol
          <6>1. CASE i = drained + 1
              BY <5>1, <5>2, <5>4, <6>1
          <6>2. CASE i # drained + 1
            <7>1. i \in 1 .. drained
                BY <1>2, <6>2
            <7> QED BY <3>3, <5>1, <5>3, <5>4, <7>1
          <6> QED BY <6>1, <6>2
        <5>7. Len(dec'.symbol) = drained + 1
            BY <5>1, <5>4
        <5> QED BY <5>5, <5>6, <5>7
      <4>2. CASE ~Fits(dec)
        <5>1. dec'.symbol = dec.symbol /\ ~(drained < MaxSymbol)
            BY <3>2, <3>5, <4>2
        <5>2. ~(drained' < MaxSymbol)
            BY <1>2, <3>1, <3>4, <5>1
        <5> QED BY <3>3, <5>1, <5>2
      <4> QED BY <4>1, <4>2
    <3>8. drained' = Len(keyed) /\ sinceFall < OldAge => Elapsed(now, dec'.t_fall) = sinceFall
        BY <1>12, <2>2, <3>1, <3>2
    <3> QED BY <1>1, <3>2, <3>6, <3>7, <3>8 DEF LetterInv
  <2> QED BY <2>1, <2>2
<1>16. PauseInv'
    BY <1>1, <1>6 DEF PauseInv
<1>17. LookInv'
    BY <1>1 DEF LookInv
<1>18. AgeInv'
    BY <1>1, <1>6 DEF AgeInv
<1> QED BY <1>13, <1>14, <1>15, <1>16, <1>17, <1>18

-----------------------------------------------------------------------------
(* The wire changes.                                                       *)

\* An edge at the end of the buffer leaves the others what they are.
LEMMA AppendEdge ==
    ASSUME NEW d, NEW r \in Seq(EdgeType), NEW x \in EdgeType, NEW j \in 1 .. Len(r)
    PROVE  /\ Append(r, x)[j] = r[j]
           /\ Before(d, Append(r, x), j) = Before(d, r, j)
           /\ Width(d, Append(r, x), j) = Width(d, r, j)
           /\ IsPulse(d, Append(r, x), j) <=> IsPulse(d, r, j)
<1>1. \A i \in 1 .. Len(r) : Append(r, x)[i] = r[i]
    OBVIOUS
<1>2. j # 1 => j - 1 \in 1 .. Len(r)
    OBVIOUS
<1>3. Before(d, Append(r, x), j) = Before(d, r, j) /\ RoseAt(d, Append(r, x), j) = RoseAt(d, r, j)
    BY <1>1, <1>2 DEF Before, RoseAt
<1>4. Width(d, Append(r, x), j) = Width(d, r, j)
    BY <1>1, <1>3 DEF Width
<1> QED BY <1>1, <1>3, <1>4 DEF IsPulse

LEMMA AppendLast ==
    ASSUME NEW d, NEW r \in Seq(EdgeType), NEW x \in EdgeType
    PROVE  LET n == Len(r) + 1
           IN  /\ Len(Append(r, x)) = n /\ Append(r, x)[n] = x
               /\ Before(d, Append(r, x), n) = Before(d, r, n)
               /\ RoseAt(d, Append(r, x), n) = RoseAt(d, r, n)
               /\ Before(d, Append(r, x), n + 1) = x.level
               /\ RoseAt(d, Append(r, x), n + 1) = x.t
<1> DEFINE n == Len(r) + 1
           u == Append(r, x)
<1>1. Len(u) = n /\ u[n] = x /\ \A i \in 1 .. Len(r) : u[i] = r[i]
    OBVIOUS
<1>2. n # 1 => n - 1 \in 1 .. Len(r)
    OBVIOUS
<1>3. n + 1 # 1 /\ (n + 1) - 1 = n
    OBVIOUS
<1> HIDE DEF n, u
<1>4. Before(d, u, n) = Before(d, r, n) /\ RoseAt(d, u, n) = RoseAt(d, r, n)
    BY <1>1, <1>2 DEF Before, RoseAt
<1>5. Before(d, u, n + 1) = x.level /\ RoseAt(d, u, n + 1) = x.t
    BY <1>1, <1>3 DEF Before, RoseAt
<1> QED BY <1>1, <1>4, <1>5 DEF n, u

\* The buffer grows by the edge that is stamped, and the pulses keyed by the one it ends.
LEMMA BufferGrows ==
    ASSUME NEW d \in Decoder, NEW r \in Seq(EdgeType), NEW x \in EdgeType,
           NEW k \in Seq(Pulse), NEW k2 \in Seq(Pulse), NEW n \in Nat, NEW age, NEW age2,
           InBuffer(d, r, k, n, x.t, age), x.level = 1 - Before(d, r, Len(r) + 1),
           NEW ends \in BOOLEAN, ends <=> IsPulse(d, Append(r, x), Len(r) + 1),
           Len(k2) = Len(k) + (IF ends THEN 1 ELSE 0),
           \A i \in 1 .. Len(k) : k2[i] = k[i],
           ends => age2 = 0 /\ k2[Len(k2)].symbol = Class(Width(d, Append(r, x), Len(r) + 1)),
           ~ends => age2 = age
    PROVE  InBuffer(d, Append(r, x), k2, n, x.t, age2)
<1> DEFINE u == Append(r, x)
           m == Len(r) + 1
<1>1. PICK c \in Counts(r, k) : Numbered(d, r, k, n, c) /\ Dated(d, r, k, x.t, age, c)
    BY DEF InBuffer
<1>2. /\ Len(u) = m /\ u[m] = x /\ Before(d, u, m) = Before(d, r, m)
      /\ Len(r) \in Nat /\ Len(k) \in Nat /\ Len(k2) \in Nat /\ Len(k) <= Len(k2)
      /\ m \in Nat /\ m = Len(r) + 1
  <2>1. Len(u) = m /\ u[m] = x /\ Before(d, u, m) = Before(d, r, m)
      BY AppendLast
  <2>2. Len(r) \in Nat /\ Len(k) \in Nat /\ Len(k2) \in Nat
      OBVIOUS
  <2>3. Len(k) <= Len(k2) /\ m \in Nat
      BY <2>2
  <2> QED BY <2>1, <2>2, <2>3
<1>3. \A j \in 1 .. Len(r) : /\ u[j] = r[j] /\ Before(d, u, j) = Before(d, r, j)
                             /\ Width(d, u, j) = Width(d, r, j)
                             /\ IsPulse(d, u, j) <=> IsPulse(d, r, j)
    BY AppendEdge
<1>4. /\ ends <=> IsPulse(d, u, m)
      /\ ends => k2[Len(k2)].symbol = Class(Width(d, u, m))
      /\ x.level = 1 - Before(d, u, m)
    BY <1>2
<1> DEFINE b == [j \in 0 .. m |-> IF j = m THEN Len(k2) ELSE c[j]]
<1>5. \A j \in 0 .. Len(r) : c[j] \in Nat /\ n <= c[j] /\ c[j] <= Len(k)
  <2>1. Numbered(d, r, k, n, c)
      BY <1>1
  <2> QED BY <2>1, CountBounds
<1>5a. \A j \in 1 .. Len(r) : IsPulse(d, r, j) => c[j] >= n + 1
  <2>1. Numbered(d, r, k, n, c)
      BY <1>1
  <2> QED BY <2>1, CountBounds
<1> HIDE DEF u, m
<1>6. b[m] = Len(k2) /\ \A j \in 0 .. Len(r) : b[j] = c[j] /\ j \in 0 .. m /\ j # m
    BY <1>2
<1>7. b \in [0 .. m -> 0 .. Len(k2)]
  <2>1. \A j \in 0 .. m : (IF j = m THEN Len(k2) ELSE c[j]) \in 0 .. Len(k2)
    <3> SUFFICES ASSUME NEW j \in 0 .. m
                 PROVE  (IF j = m THEN Len(k2) ELSE c[j]) \in 0 .. Len(k2)
        OBVIOUS
    <3>1. CASE j = m
        BY <1>2, <3>1
    <3>2. CASE j # m
      <4>1. j \in 0 .. Len(r)
          BY <1>2, <3>2
      <4>2. c[j] \in Nat /\ c[j] <= Len(k)
          BY <1>5, <4>1
      <4> QED BY <1>2, <3>2, <4>2
    <3> QED BY <3>1, <3>2
  <2> QED BY <2>1
<1> HIDE DEF b
<1>8. \A j \in 0 .. m : j = m \/ j \in 0 .. Len(r)
    BY <1>2
<1>9. Numbered(d, u, k2, n, b)
  <2>1. b[0] = n /\ b[Len(u)] = Len(k2)
    <3>1. c[0] = n
        BY <1>1 DEF Numbered
    <3>2. 0 \in 0 .. Len(r)
        BY <1>2
    <3> QED BY <1>2, <1>6, <3>1, <3>2
  <2>2. ASSUME NEW i \in 0 .. m, NEW j \in 0 .. m, i <= j PROVE b[i] <= b[j]
    <3>1. CASE j = m
      <4>1. CASE i = m
          BY <1>2, <1>6, <3>1, <4>1
      <4>2. CASE i # m
        <5>1. i \in 0 .. Len(r)
            BY <1>8, <4>2
        <5>2. b[i] = c[i] /\ c[i] \in Nat /\ c[i] <= Len(k) /\ b[j] = Len(k2)
            BY <1>5, <1>6, <3>1, <5>1
        <5> QED BY <1>2, <5>2
      <4> QED BY <4>1, <4>2
    <3>2. CASE j # m
      <4>1. j \in 0 .. Len(r) /\ i \in 0 .. Len(r)
          BY <1>2, <2>2, <3>2
      <4>2. c[i] <= c[j]
          BY <1>1, <2>2, <4>1 DEF Numbered
      <4> QED BY <1>6, <4>1, <4>2
    <3> QED BY <3>1, <3>2
  <2>3. ASSUME NEW j \in 1 .. m
        PROVE  /\ u[j].level = 1 - Before(d, u, j)
               /\ b[j] = b[j - 1] + (IF IsPulse(d, u, j) THEN 1 ELSE 0)
               /\ IsPulse(d, u, j) => k2[b[j]].symbol = Class(Width(d, u, j))
    <3>1. CASE j = m
      <4>1. u[j].level = 1 - Before(d, u, j)
          BY <1>2, <1>4, <3>1
      <4>2. m - 1 \in 0 .. Len(r) /\ m - 1 = Len(r)
          BY <1>2
      <4>3. b[m - 1] = Len(k)
        <5>1. c[Len(r)] = Len(k)
            BY <1>1 DEF Numbered
        <5> QED BY <1>6, <4>2, <5>1
      <4>4. b[m] = b[m - 1] + (IF IsPulse(d, u, m) THEN 1 ELSE 0)
          BY <1>2, <1>4, <1>6, <4>3
      <4>5. IsPulse(d, u, m) => k2[b[m]].symbol = Class(Width(d, u, m))
          BY <1>4, <1>6
      <4> QED BY <3>1, <4>1, <4>4, <4>5
    <3>2. CASE j # m
      <4>1. j \in 1 .. Len(r) /\ j \in 0 .. Len(r) /\ j - 1 \in 0 .. Len(r)
          BY <1>2, <3>2
      <4>2. /\ r[j].level = 1 - Before(d, r, j)
            /\ c[j] = c[j - 1] + (IF IsPulse(d, r, j) THEN 1 ELSE 0)
            /\ IsPulse(d, r, j) => k[c[j]].symbol = Class(Width(d, r, j))
          BY <1>1, <4>1 DEF Numbered
      <4>3. /\ u[j] = r[j] /\ Before(d, u, j) = Before(d, r, j)
            /\ Width(d, u, j) = Width(d, r, j) /\ (IsPulse(d, u, j) <=> IsPulse(d, r, j))
          BY <1>3, <4>1
      <4>4. b[j] = c[j] /\ b[j - 1] = c[j - 1]
          BY <1>6, <4>1
      <4>5. ASSUME IsPulse(d, r, j) PROVE k2[c[j]] = k[c[j]]
        <5>1. c[j] \in Nat /\ c[j] <= Len(k) /\ c[j] >= n + 1
            BY <1>5, <1>5a, <4>1, <4>5
        <5>2. c[j] \in 1 .. Len(k)
            BY <1>2, <5>1
        <5> QED BY <5>2
      <4> QED BY <4>2, <4>3, <4>4, <4>5
    <3> QED BY <3>1, <3>2
  <2> QED BY <1>2, <2>1, <2>2, <2>3 DEF Numbered
<1>10. Dated(d, u, k2, x.t, age2, b)
  <2> SUFFICES ASSUME NEW j \in 1 .. m, IsPulse(d, u, j), b[j] = Len(k2), age2 < OldAge
               PROVE  Elapsed(x.t, u[j].t) = age2
      BY <1>2 DEF Dated
  <2>1. CASE j = m
    <3>1. x.t \in Time
        BY DEF EdgeType
    <3>2. ends
        BY <1>4, <2>1
    <3> QED BY <1>2, <2>1, <3>1, <3>2, ElapsedNow
  <2>2. CASE j # m
    <3>1. j \in 1 .. Len(r) /\ j \in 0 .. Len(r)
        BY <1>2, <2>2
    <3>2. IsPulse(d, r, j) /\ u[j] = r[j] /\ b[j] = c[j] /\ c[j] \in Nat /\ c[j] <= Len(k)
        BY <1>3, <1>5, <1>6, <3>1
    <3>3. ~ends /\ c[j] = Len(k)
        BY <1>2, <3>2
    <3>4. age2 = age
        BY <3>3
    <3> QED BY <1>1, <3>1, <3>2, <3>3, <3>4 DEF Dated
  <2> QED BY <2>1, <2>2
<1>11. InBuffer(d, u, k2, n, x.t, age2)
    BY <1>2, <1>7, <1>9, <1>10 DEF InBuffer, Counts
<1> QED BY <1>11 DEF u

LEMMA PauseOfIs ==
    ASSUME NEW age \in 0 .. OldAge
    PROVE  /\ PauseOf(age) \in {"short", "either", "long"}
           /\ age < OldAge => PauseOf(age) # "long"
           /\ PauseOf(age) = "short" => age < letter_ms - MaxLag
BY Limits DEF PauseOf

LEMMA WireChangesHand ==
    ASSUME HandInv, WireChanges
    PROVE  HandTyped' /\ (~missed' => (RingInv /\ WireInv /\ LetterInv /\ PauseInv
                                       /\ LookInv /\ AgeInv)')
<1> DEFINE pulse == wire = 1 /\ wireAge >= debounce_ms /\ pause # "none"
           glitch == wire = 1 /\ wireAge < debounce_ms
           x == [level |-> wire', t |-> now]
           p == [symbol |-> Class(wireAge), pause |-> pause]
           n == Len(ring)
           m == n + 1
<1>1. /\ ~missed /\ wire' = 1 - wire /\ wireAge' = 0
      /\ ~missed' => ring' = Append(ring, x)
      /\ glitches' = (IF pulse THEN 0 ELSE IF glitch THEN glitches + 1 ELSE glitches)
      /\ glitches' <= MaxGlitches
      /\ sinceFall' = (IF pulse THEN 0 ELSE sinceFall)
      /\ keyed' = (IF pulse THEN Append(keyed, p) ELSE keyed)
      /\ pause' = (IF wire = 0 THEN PauseOf(sinceFall) ELSE "none")
      /\ missed' \in BOOLEAN
      /\ UNCHANGED <<now, dec, at, lag, drained>>
    BY DEF WireChanges, receiver, HandInv, HandTyped
<1>2. /\ keyed \in Seq(Pulse) /\ drained \in Nat /\ dec \in Decoder /\ now \in Time
      /\ ring \in Seq(EdgeType) /\ glitches \in 0 .. MaxGlitches /\ sinceFall \in 0 .. OldAge
      /\ wireAge \in 0 .. MaxHold /\ lag \in 0 .. MaxLag /\ pause \in Pauses /\ wire \in {0, 1}
      /\ at \in {"drain", "silence"}
    BY DEF HandInv, HandTyped, DecInv, Level
<1>3. RingInv /\ WireInv /\ LetterInv /\ PauseInv /\ LookInv /\ AgeInv
    BY <1>1 DEF HandInv
<1>4. Len(keyed) \in Nat /\ drained <= Len(keyed)
    BY <1>1, SeenWereKeyed
<1>5. p \in Pulse
    BY <1>2, ClassIsMark DEF Pulse
<1>6. /\ Append(keyed, p) \in Seq(Pulse) /\ Len(Append(keyed, p)) = Len(keyed) + 1
      /\ \A i \in 1 .. Len(keyed) : Append(keyed, p)[i] = keyed[i]
      /\ Append(keyed, p)[Len(keyed) + 1] = p
    BY <1>2, <1>5, AppendProperties
<1>7. p.symbol = Class(wireAge) /\ p.pause = pause
    OBVIOUS
<1>8. x \in EdgeType /\ x.level = wire' /\ x.t = now
    BY <1>1, <1>2 DEF EdgeType, Level
<1> HIDE DEF p, x
<1>9. /\ keyed' \in Seq(Pulse) /\ Len(keyed') \in Nat
      /\ Len(keyed') = Len(keyed) + (IF pulse THEN 1 ELSE 0)
      /\ \A i \in 1 .. Len(keyed) : keyed'[i] = keyed[i]
      /\ pulse => keyed'[Len(keyed) + 1] = p
  <2>1. CASE pulse
      BY <1>1, <1>4, <1>6, <2>1
  <2>2. CASE ~pulse
      BY <1>1, <1>2, <1>4, <2>2
  <2> QED BY <2>1, <2>2
<1>10. /\ glitches' \in 0 .. MaxGlitches /\ sinceFall' \in 0 .. OldAge /\ pause' \in Pauses
       /\ wireAge' \in 0 .. MaxHold
  <2>1. glitches' \in 0 .. MaxGlitches /\ sinceFall' \in 0 .. OldAge /\ wireAge' \in 0 .. MaxHold
    <3>1. 0 \in 0 .. OldAge /\ 0 \in 0 .. MaxHold
        BY Limits
    <3>2. glitches' \in Nat
        BY <1>1, <1>2
    <3> QED BY <1>1, <1>2, <3>1, <3>2, Limits
  <2>2. pause' \in Pauses
      BY <1>1, <1>2, PauseOfIs DEF Pauses
  <2> QED BY <2>1, <2>2
<1>11. HandTyped'
    BY <1>1, <1>2, <1>9, <1>10 DEF HandTyped
<1> SUFFICES ASSUME ~missed'
             PROVE  (RingInv /\ WireInv /\ LetterInv /\ PauseInv /\ LookInv /\ AgeInv)'
    BY <1>11
<1>12. ring' = Append(ring, x)
    BY <1>1
<1>13. /\ wire = Before(dec, ring, m)
       /\ wire = 1 => /\ pause # "none" <=> (n = 0 => dec.in_pulse)
                      /\ pause # "none" => Elapsed(now, RoseAt(dec, ring, m)) = wireAge
    BY <1>3 DEF WireInv, HighSince
<1>14. /\ Len(ring') = m /\ ring'[m] = x
       /\ RoseAt(dec, ring', m) = RoseAt(dec, ring, m)
       /\ Before(dec, ring', m + 1) = wire' /\ RoseAt(dec, ring', m + 1) = now
    BY <1>2, <1>8, <1>12, AppendLast
<1>15. n \in Nat /\ (m = 1 <=> n = 0) /\ m # 0
    BY <1>2
<1>16. pulse <=> IsPulse(dec, ring', m)
  <2>1. Width(dec, ring', m) = Elapsed(now, RoseAt(dec, ring, m))
      BY <1>8, <1>14 DEF Width
  <2>2. x.level = 0 <=> wire = 1
      BY <1>1, <1>2, <1>8
  <2> QED BY <1>13, <1>14, <1>15, <2>1, <2>2 DEF IsPulse
<1>17. pulse => wireAge = Width(dec, ring', m)
    BY <1>8, <1>13, <1>14 DEF Width
<1>18. RingInv'
  <2>1. InBuffer(dec, ring, keyed, drained, x.t, sinceFall)
      BY <1>3, <1>8 DEF RingInv
  <2>2. x.level = 1 - Before(dec, ring, m)
      BY <1>1, <1>8, <1>13
  <2>3. /\ pulse => sinceFall' = 0 /\ keyed'[Len(keyed')].symbol = Class(Width(dec, ring', m))
        /\ ~pulse => sinceFall' = sinceFall
    <3>1. CASE pulse
        BY <1>1, <1>7, <1>9, <1>17, <3>1
    <3>2. CASE ~pulse
        BY <1>1, <3>2
    <3> QED BY <3>1, <3>2
  <2> DEFINE k2 == keyed'
             age2 == sinceFall'
             ends == pulse
  <2>4. ends \in BOOLEAN
      OBVIOUS
  <2>5. /\ ends <=> IsPulse(dec, Append(ring, x), Len(ring) + 1)
        /\ Len(k2) = Len(keyed) + (IF ends THEN 1 ELSE 0)
        /\ \A i \in 1 .. Len(keyed) : k2[i] = keyed[i]
        /\ ends => age2 = 0 /\ k2[Len(k2)].symbol = Class(Width(dec, Append(ring, x), Len(ring) + 1))
        /\ ~ends => age2 = sinceFall
        /\ x.level = 1 - Before(dec, ring, Len(ring) + 1) /\ k2 \in Seq(Pulse)
      BY <1>9, <1>12, <1>16, <2>2, <2>3
  <2> HIDE DEF k2, age2, ends
  <2>6. InBuffer(dec, Append(ring, x), k2, drained, x.t, age2)
      BY <1>2, <1>8, <2>1, <2>4, <2>5, BufferGrows
  <2> QED BY <1>1, <1>8, <1>12, <2>6 DEF RingInv, k2, age2
<1> HIDE DEF m
<1>19. WireInv'
  <2>1. wire' = 1 => pause' # "none"
    <3>1. wire' = 1 => wire = 0
        BY <1>1, <1>2
    <3> QED BY <1>1, <1>2, <3>1, PauseOfIs
  <2>2. Elapsed(now, now) = 0
      BY <1>2, ElapsedNow
  <2>3. HighSince(dec, ring', wire', pause', 0, now)
      BY <1>14, <1>15, <2>1, <2>2 DEF HighSince
  <2> QED BY <1>1, <2>3 DEF WireInv
<1>20. LetterInv'
  <2>1. /\ Len(dec.symbol) = (IF drained < MaxSymbol THEN drained ELSE MaxSymbol)
        /\ \A i \in 1 .. Len(dec.symbol) : dec.symbol[i] = keyed[i].symbol
      BY <1>3 DEF LetterInv
  <2>2. Len(dec.symbol) \in Nat /\ Len(dec.symbol) <= Len(keyed)
      BY <1>2, <1>4, <2>1, Thresholds
  <2>3. \A i \in 1 .. Len(dec.symbol) : dec.symbol[i] = keyed'[i].symbol
    <3>1. \A i \in 1 .. Len(dec.symbol) : i \in 1 .. Len(keyed)
        BY <1>4, <2>2
    <3> QED BY <1>9, <2>1, <3>1
  <2>4. drained = Len(keyed') => ~pulse /\ drained = Len(keyed)
      BY <1>2, <1>4, <1>9
  <2>5. drained >= 1 /\ drained = Len(keyed') /\ sinceFall' < OldAge
           => Elapsed(now, dec.t_fall) = sinceFall'
      BY <1>1, <1>3, <2>4 DEF LetterInv
  <2> QED BY <1>1, <1>3, <2>1, <2>3, <2>5 DEF LetterInv
\* What a step that ends no pulse starts from.
<1>21. ASSUME ~pulse PROVE keyed' = keyed /\ sinceFall' = sinceFall
    BY <1>1, <1>21
<1>22. ASSUME wire = 0, keyed # <<>> PROVE sinceFall <= Hidden(glitches) + MaxLag
                                           /\ Hidden(glitches) + MaxLag < OldAge
  <2>1. sinceFall <= (Hidden(glitches) + lag)
                     - (IF at = "silence" /\ dec.level = 1 THEN MaxLag ELSE 0)
      BY <1>3, <1>22 DEF AgeInv
  <2>2. Hidden(glitches) \in Int /\ Hidden(glitches) + MaxLag < OldAge
      BY <1>2, HiddenBounds
  <2> QED BY <1>2, <2>1, <2>2, Limits
<1>23. PauseInv'
  <2>1. ASSUME wire' = 1, keyed' # <<>> PROVE pause' \in {"short", "either"}
    <3>1. wire = 0
        BY <1>1, <1>2, <2>1
    <3>2. keyed # <<>>
        BY <1>21, <2>1, <3>1
    <3>3. sinceFall < OldAge
      <4>1. Hidden(glitches) \in Int
          BY <1>2, HiddenBounds
      <4> QED BY <1>2, <1>22, <3>1, <3>2, <4>1, Limits
    <3> QED BY <1>1, <1>2, <3>1, <3>3, PauseOfIs
  <2>2. ASSUME NEW i \in 2 .. Len(keyed') PROVE keyed'[i].pause # "long"
    <3>1. CASE i \in 2 .. Len(keyed)
      <4>1. i \in 1 .. Len(keyed)
          BY <3>1
      <4> QED BY <1>3, <1>9, <3>1, <4>1 DEF PauseInv
    <3>2. CASE i \notin 2 .. Len(keyed)
      <4>1. pulse /\ i = Len(keyed) + 1 /\ Len(keyed) # 0
          BY <1>4, <1>9, <3>2
      <4>2. keyed # <<>>
          BY <4>1
      <4>3. pause # "long"
          BY <1>3, <4>1, <4>2 DEF PauseInv
      <4> QED BY <1>7, <1>9, <4>1, <4>3
    <3> QED BY <3>1, <3>2
  <2> QED BY <2>1, <2>2 DEF PauseInv
<1>24. LookInv'
  <2> SUFFICES ASSUME at = "silence"
               PROVE  /\ drained < Len(keyed') => sinceFall' <= lag
                      /\ EndedShort' => Elapsed(now, dec.t_fall) < (letter_ms - MaxLag) + lag
      BY <1>1 DEF LookInv
  <2>1. ASSUME drained < Len(keyed') PROVE sinceFall' <= lag
    <3>1. CASE pulse
        BY <1>1, <1>2, <3>1
    <3>2. CASE ~pulse
        BY <1>3, <1>21, <2>1, <3>2 DEF LookInv
    <3> QED BY <3>1, <3>2
  <2>2. ASSUME EndedShort' PROVE Elapsed(now, dec.t_fall) < (letter_ms - MaxLag) + lag
    <3>1. /\ dec.level = 0 /\ drained >= 1
          /\ IF drained < Len(keyed') THEN keyed'[drained + 1].pause = "short"
                                      ELSE wire' = 1 /\ pause' = "short"
        BY <1>1, <2>2 DEF EndedShort
    <3>2. EndedShort => Elapsed(now, dec.t_fall) < (letter_ms - MaxLag) + lag
        BY <1>3 DEF LookInv
    <3>3. CASE drained < Len(keyed)
      <4>1. drained + 1 \in 1 .. Len(keyed) /\ drained < Len(keyed')
          BY <1>2, <1>4, <1>9, <3>3
      <4>2. keyed[drained + 1].pause = "short"
          BY <1>9, <3>1, <4>1
      <4> QED BY <3>1, <3>2, <3>3, <4>2 DEF EndedShort
    <3>4. CASE drained = Len(keyed) /\ pulse
      <4>1. drained < Len(keyed') /\ ~(drained < Len(keyed))
          BY <1>4, <1>9, <3>4
      <4>2. pause = "short" /\ wire = 1
          BY <1>7, <1>9, <3>1, <3>4, <4>1
      <4> QED BY <3>1, <3>2, <4>1, <4>2 DEF EndedShort
    <3>5. CASE drained = Len(keyed) /\ ~pulse
      <4>1. ~(drained < Len(keyed'))
          BY <1>4, <1>9, <3>5
      <4>2. wire = 0 /\ PauseOf(sinceFall) = "short"
          BY <1>1, <1>2, <3>1, <4>1
      <4>3. sinceFall < letter_ms - MaxLag
          BY <1>2, <4>2, PauseOfIs
      <4>4. sinceFall < OldAge
          BY <1>2, <4>3, Limits
      <4>5. Elapsed(now, dec.t_fall) = sinceFall
          BY <1>3, <3>1, <3>5, <4>4 DEF LetterInv
      <4> QED BY <1>2, <4>3, <4>5, Limits
    <3> QED BY <1>2, <1>4, <3>3, <3>4, <3>5
  <2> QED BY <2>1, <2>2
<1>25. AgeInv'
  <2> SUFFICES ASSUME keyed' # <<>>
               PROVE  IF wire' = 1 THEN sinceFall' <= (Hidden(glitches') + MaxLag) + 0
                      ELSE sinceFall' <= (Hidden(glitches') + lag)
                                 - (IF at = "silence" /\ dec.level = 1 THEN MaxLag ELSE 0)
      BY <1>1 DEF AgeInv
  <2>1. CASE wire = 0
    <3>1. ~pulse /\ ~glitch /\ wire' = 1
        BY <1>1, <2>1
    <3>2. keyed # <<>> /\ sinceFall' = sinceFall /\ glitches' = glitches
        BY <1>1, <1>21, <3>1
    <3>3. Hidden(glitches) \in Int
        BY <1>2, HiddenBounds
    <3> QED BY <1>2, <1>22, <2>1, <3>1, <3>2, <3>3, Limits
  <2>2. CASE wire = 1 /\ pulse
    <3>1. wire' = 0 /\ sinceFall' = 0 /\ glitches' = 0
        BY <1>1, <2>2
    <3>2. Hidden(0) \in Int /\ letter_ms - 1 <= Hidden(0)
      <4>1. 0 \in 0 .. MaxGlitches
          BY Limits
      <4> QED BY <4>1, HiddenBounds
    <3>3. 0 <= (Hidden(0) + lag) - MaxLag /\ 0 <= (Hidden(0) + lag) - 0
        BY <1>2, <3>2, Limits
    <3> QED BY <3>1, <3>3
  <2>3. CASE wire = 1 /\ ~pulse
    <3>1. keyed # <<>> /\ sinceFall' = sinceFall
        BY <1>21, <2>3
    <3>2. pause # "none"
        BY <1>3, <2>3, <3>1 DEF PauseInv
    <3>3. wireAge < debounce_ms
        BY <1>2, <2>3, <3>2, Limits
    <3>4. glitches' = glitches + 1 /\ wire' = 0
        BY <1>1, <2>3, <3>3
    <3>5. sinceFall <= (Hidden(glitches) + MaxLag) + wireAge
        BY <1>3, <2>3, <3>1 DEF AgeInv
    <3>6. Hidden(glitches) \in Int /\ Hidden(glitches + 1) = (Hidden(glitches) + (debounce_ms - 1)) + 2 * MaxLag
        BY <1>2, HiddenBounds
    <3>7. /\ sinceFall <= (Hidden(glitches + 1) + lag) - MaxLag
          /\ sinceFall <= (Hidden(glitches + 1) + lag) - 0
        BY SMTT(30), <1>2, <3>3, <3>5, <3>6, Limits
    <3> QED BY <3>1, <3>4, <3>7
  <2> QED BY <1>2, <2>1, <2>2, <2>3
<1> QED BY <1>18, <1>19, <1>20, <1>23, <1>24, <1>25

-----------------------------------------------------------------------------
(* The letters that are printed.                                           *)

LEMMA NextHand == HandInv /\ [BoardNext]_boardVars => HandInv'
<1> SUFFICES ASSUME HandInv, [BoardNext]_boardVars PROVE HandInv'
    OBVIOUS
<1>1. DecInv'
    BY NextDecInv DEF HandInv
<1> SUFFICES HandTyped' /\ (~missed' => (RingInv /\ WireInv /\ LetterInv /\ PauseInv
                                         /\ LookInv /\ AgeInv)')
    BY <1>1 DEF HandInv
<1>2. CASE WireChanges
    BY <1>2, WireChangesHand
<1>3. CASE Drain
    BY <1>3, DrainHand
<1>4. CASE Drained
    BY <1>4, DrainedHand
<1>5. CASE LookAtSilence
    BY <1>5, LookHand
<1>6. CASE Tick
    BY <1>6, TickHand
<1>7. CASE UNCHANGED boardVars
  <2>1. /\ UNCHANGED <<now, wire, ring, dec, at, lag>>
        /\ UNCHANGED <<wireAge, sinceFall, glitches, pause, missed, keyed, drained>>
      BY <1>7 DEF boardVars, wiring, receiver, history, wireHistory
  <2>2. HandTyped'
      BY <2>1 DEF HandInv, HandTyped
  <2>3. EndedShort' <=> EndedShort
      BY <2>1 DEF EndedShort
  <2>4. ~missed' => (RingInv /\ WireInv /\ LetterInv /\ PauseInv /\ AgeInv)'
      BY <2>1 DEF HandInv, RingInv, WireInv, LetterInv, PauseInv, AgeInv
  <2>5. ~missed' => LookInv'
      BY <2>1, <2>3 DEF HandInv, LookInv
  <2> QED BY <2>2, <2>4, <2>5
<1> QED BY <1>2, <1>3, <1>4, <1>5, <1>6, <1>7 DEF BoardNext

ClosesLetter(l) == l.kind \in {"letter", "unknown"}

\* An edge closes no letter.
LEMMA EdgeClosesNone ==
    ASSUME NEW d \in Decoder, NEW lvl \in Level, NEW t \in Time,
           NEW i \in DOMAIN EdgeLines(d, lvl, t)
    PROVE  ~ClosesLetter(EdgeLines(d, lvl, t)[i])
<1> DEFINE ms == Elapsed(t, d.t_rise)
           P(s) == \E j \in DOMAIN s : ClosesLetter(s[j])
<1>1. d.level \in {0, 1} /\ d.in_pulse \in BOOLEAN /\ lvl \in {0, 1}
    BY DecoderFields DEF Level
<1>2. ~P(<<>>)
    OBVIOUS
<1>3. ASSUME NEW l, ~ClosesLetter(l) PROVE ~P(<<l>>) /\ ~P(IfVerbose(l))
  <2>1. ~P(<<l>>)
      BY <1>3
  <2> QED BY <1>2, <2>1 DEF IfVerbose
<1>4. ASSUME NEW l, NEW m, ~ClosesLetter(l), ~ClosesLetter(m) PROVE ~P(<<l, m>>)
    BY <1>4
<1>5. ASSUME NEW kind \in {"gap", "symbol", "pulse", "filtered"}, NEW v, NEW y
      PROVE  ~ClosesLetter(Line(kind, v, y))
    BY DEF ClosesLetter, Line
<1> SUFFICES ~P(EdgeLines(d, lvl, t))
    OBVIOUS
<1> HIDE DEF P
<1>6. CASE lvl = d.level \/ (lvl = 0 /\ d.level = 1 /\ ~d.in_pulse)
  <2>1. EdgeLines(d, lvl, t) = <<>>
      BY <1>6 DEF EdgeLines
  <2> QED BY <1>2, <2>1
<1>7. CASE lvl = 1 /\ d.level = 0
  <2> DEFINE gap == Line("gap", "none", Elapsed(t, d.t_fall))
  <2>1. EdgeLines(d, lvl, t) = IF d.have_fall THEN IfVerbose(gap) ELSE <<>>
      BY <1>7 DEF EdgeLines
  <2>2. ~ClosesLetter(gap)
      BY <1>5
  <2> HIDE DEF gap
  <2> QED BY <1>2, <1>3, <2>1, <2>2
<1>8. CASE lvl = 0 /\ d.level = 1 /\ d.in_pulse
  <2> DEFINE symbol == Line("symbol", Class(ms), ms)
             kind == IF ms < debounce_ms THEN "filtered" ELSE "pulse"
             last == Line(kind, "none", ms)
  <2>1. EdgeLines(d, lvl, t) = (IF ms >= debounce_ms THEN <<symbol>> ELSE <<>>) \o IfVerbose(last)
      BY <1>8 DEF EdgeLines
  <2>2. kind \in {"gap", "symbol", "pulse", "filtered"}
      OBVIOUS
  <2>3. ~ClosesLetter(symbol) /\ ~ClosesLetter(last)
      BY <1>5, <2>2
  <2> HIDE DEF symbol, last, kind
  <2>4. CASE ms >= debounce_ms /\ verbose
    <3>1. EdgeLines(d, lvl, t) = <<symbol, last>>
        BY <2>1, <2>4, TwoLines DEF IfVerbose
    <3> QED BY <1>4, <2>3, <3>1
  <2>5. CASE ms >= debounce_ms /\ ~verbose
    <3>1. EdgeLines(d, lvl, t) = <<symbol>>
        BY <2>1, <2>5 DEF IfVerbose
    <3> QED BY <1>3, <2>3, <3>1
  <2>6. CASE ~(ms >= debounce_ms)
    <3>1. EdgeLines(d, lvl, t) = IfVerbose(last)
        BY <2>1, <2>6, NoLineBefore DEF IfVerbose
    <3> QED BY <1>3, <2>3, <3>1
  <2> QED BY <2>4, <2>5, <2>6
<1> QED BY <1>1, <1>6, <1>7, <1>8

\* A look at the silence closes at most the letter under way.
LEMMA SilenceCloses ==
    ASSUME NEW d, NEW t, NEW i \in DOMAIN SilenceLines(d, t),
           ClosesLetter(SilenceLines(d, t)[i])
    PROVE  /\ Measures(d) /\ LetterDue(d, t)
           /\ SilenceLines(d, t)[i].value = d.symbol
           /\ SilenceLines(d, t)[i].kind = "letter" <=> IsLetter(d)
<1> DEFINE ms == Elapsed(t, d.t_fall)
           kind == IF IsLetter(d) THEN "letter" ELSE "unknown"
           closer == Line(kind, d.symbol, ms)
           spacer == Line("word", "none", ms)
           closing == Measures(d) /\ LetterDue(d, t)
           wording == Measures(d) /\ WordDue(d, t)
           s == SilenceLines(d, t)
<1>1. s = (IF closing THEN <<closer>> ELSE <<>>) \o (IF wording THEN <<spacer>> ELSE <<>>)
    BY DEF SilenceLines
<1>2. ~ClosesLetter(spacer)
    BY DEF ClosesLetter, Line
<1>3. closer.value = d.symbol /\ (closer.kind = "letter" <=> IsLetter(d))
    BY DEF Line
<1> HIDE DEF closer, spacer, s
<1>4. CASE closing
  <2>1. s = <<closer, spacer>> \/ s = <<closer>>
    <3>1. CASE wording
        BY <1>1, <1>4, <3>1, TwoLines
    <3>2. CASE ~wording
        BY <1>1, <1>4, <3>2
    <3> QED BY <3>1, <3>2
  <2>2. s[i] = closer \/ s[i] = spacer
    <3>1. i \in DOMAIN s
        BY DEF s
    <3> QED BY <2>1, <3>1
  <2>3. ClosesLetter(s[i])
      BY DEF s
  <2>4. s[i] = closer
      BY <1>2, <2>2, <2>3
  <2> QED BY <1>3, <1>4, <2>4 DEF s
<1>5. CASE ~closing
  <2>1. s = <<spacer>> \/ s = <<>>
    <3>1. CASE wording
        BY <1>1, <1>5, <3>1, NoLineBefore
    <3>2. CASE ~wording
        BY <1>1, <1>5, <3>2, NoLineBefore
    <3> QED BY <3>1, <3>2
  <2>2. i \in DOMAIN s /\ ClosesLetter(s[i])
      BY DEF s
  <2>3. s[i] = spacer
      BY <2>1, <2>2
  <2> QED BY <1>2, <2>2, <2>3
<1> QED BY <1>4, <1>5

\* The closer under way, when it is closed, is what the hand keyed.
LEMMA LetterIsAsKeyed ==
    ASSUME HandInv, ~missed, at = "silence", Measures(dec), LetterDue(dec, now)
    PROVE  LET code == [k \in 1 .. drained |-> keyed[k].symbol]
           IN  /\ IsLetterOfTheHand(drained)
               /\ dec.symbol = SubSeq(code, 1, IF drained < MaxSymbol THEN drained ELSE MaxSymbol)
               /\ IsLetter(dec) <=> code \in Table
<1> DEFINE code == [k \in 1 .. drained |-> keyed[k].symbol]
           most == IF drained < MaxSymbol THEN drained ELSE MaxSymbol
<1>1. LetterInv /\ PauseInv /\ LookInv
    BY DEF HandInv
<1>2. /\ keyed \in Seq(Pulse) /\ drained \in Nat /\ dec \in Decoder /\ now \in Time
      /\ sinceFall \in 0 .. OldAge /\ lag \in 0 .. MaxLag
    BY DEF HandInv, HandTyped, DecInv
<1>3. Len(keyed) \in Nat /\ drained <= Len(keyed)
    BY SeenWereKeyed
<1>4. /\ dec.symbol \in Seq(Mark) /\ Len(dec.symbol) = most
      /\ \A i \in 1 .. most : dec.symbol[i] = keyed[i].symbol
      /\ dec.overflowed <=> drained > MaxSymbol
    BY <1>1, <1>2, DecoderFields DEF LetterInv
<1>5. MaxSymbol \in Nat /\ MaxSymbol > 0 /\ most \in Nat /\ most <= drained /\ most <= MaxSymbol
    BY <1>2, Thresholds
<1>6. drained >= 1 /\ dec.level = 0 /\ Elapsed(now, dec.t_fall) >= letter_ms
  <2>1. dec.symbol # <<>> /\ dec.level = 0 /\ Elapsed(now, dec.t_fall) >= letter_ms
      BY DEF Measures, LetterDue
  <2>2. Len(dec.symbol) # 0
      BY <1>4, <2>1
  <2> QED BY <1>2, <1>4, <1>5, <2>1, <2>2
<1>7. Elapsed(now, dec.t_fall) \in Nat
  <2>1. dec.t_fall \in Time
      BY <1>2, DecoderFields
  <2>2. Elapsed(now, dec.t_fall) \in Time
      BY <1>2, <2>1, ElapsedInTime
  <2> QED BY <2>2 DEF Time
<1>8. IsLetterOfTheHand(drained)
  <2>1. \A i \in 2 .. drained : keyed[i].pause # "long"
    <3>1. \A i \in 2 .. drained : i \in 2 .. Len(keyed)
        BY <1>2, <1>3
    <3> QED BY <1>1, <3>1 DEF PauseInv
  <2>2. ASSUME drained < Len(keyed) PROVE keyed[drained + 1].pause # "short"
    <3>1. ~(Elapsed(now, dec.t_fall) < (letter_ms - MaxLag) + lag)
        BY <1>2, <1>6, <1>7, Limits
    <3> QED BY <1>1, <1>6, <2>2, <3>1 DEF LookInv, EndedShort
  <2>3. ASSUME ~(drained < Len(keyed)) PROVE sinceFall >= letter_ms
    <3>1. drained = Len(keyed)
        BY <1>2, <1>3, <2>3
    <3>2. sinceFall < OldAge => Elapsed(now, dec.t_fall) = sinceFall
        BY <1>1, <1>6, <3>1 DEF LetterInv
    <3> QED BY <1>2, <1>6, <1>7, <3>2, Limits
  <2> QED BY <2>1, <2>2, <2>3 DEF IsLetterOfTheHand
<1>9. code \in Seq(Mark) /\ Len(code) = drained /\ \A i \in 1 .. drained : code[i] = keyed[i].symbol
  <2>1. \A i \in 1 .. drained : keyed[i].symbol \in Mark
    <3> SUFFICES ASSUME NEW i \in 1 .. drained PROVE keyed[i].symbol \in Mark
        OBVIOUS
    <3>1. i \in 1 .. Len(keyed)
        BY <1>2, <1>3
    <3>2. keyed[i] \in Pulse
        BY <1>2, <3>1
    <3> QED BY <3>2 DEF Pulse
  <2>2. code \in [1 .. drained -> Mark]
      BY <2>1
  <2> QED BY <1>2, <2>2
<1> HIDE DEF code, most
<1>10. dec.symbol = SubSeq(code, 1, most)
  <2>1. \A i \in 1 .. most : i \in 1 .. drained /\ code[i] \in Mark
      BY <1>2, <1>5, <1>9
  <2>2. 1 \in Int /\ most \in Int /\ \A i \in 1 .. most : code[i] \in Mark
      BY <1>5, <2>1
  <2> DEFINE u == SubSeq(code, 1, most)
  <2>3. /\ u \in Seq(Mark) /\ Len(u) = (IF 1 <= most THEN (most - 1) + 1 ELSE 0)
        /\ \A i \in 1 .. (most - 1) + 1 : u[i] = code[(1 + i) - 1]
      BY <2>2, SubSeqProperties
  <2> HIDE DEF u
  <2>4. Len(u) = most
      BY <1>5, <2>3
  <2>5. ASSUME NEW i \in 1 .. most PROVE dec.symbol[i] = u[i]
    <3>1. i \in 1 .. (most - 1) + 1 /\ (1 + i) - 1 = i /\ i \in 1 .. drained
        BY <1>5, <2>1
    <3> QED BY <1>4, <1>9, <2>3, <3>1
  <2>6. dec.symbol = u
      BY <1>4, <2>3, <2>4, <2>5, SeqEqual
  <2> QED BY <2>6 DEF u
<1>11. IsLetter(dec) <=> code \in Table
  <2>1. CASE drained > MaxSymbol
    <3>1. code \notin Table
        BY <1>2, <1>5, <1>9, <2>1, MorseAssumption
    <3> QED BY <1>4, <2>1, <3>1 DEF IsLetter
  <2>2. CASE ~(drained > MaxSymbol)
    <3>1. most = drained
        BY <1>2, <1>5, <2>2 DEF most
    <3>2. dec.symbol = code
        BY <1>4, <1>9, <3>1, SeqEqual
    <3> QED BY <1>4, <2>2, <3>2 DEF IsLetter
  <2> QED BY <2>1, <2>2
<1> QED BY <1>8, <1>10, <1>11 DEF code, most

AsKeyed ==
    \A i \in DOMAIN printed' :
        printed'[i].dir = "RX" /\ printed'[i].kind \in {"letter", "unknown"} /\ ~missed =>
           LET code == [k \in 1 .. drained |-> keyed[k].symbol]
           IN  /\ IsLetterOfTheHand(drained)
               /\ printed'[i].value =
                      SubSeq(code, 1, IF drained < MaxSymbol THEN drained ELSE MaxSymbol)
               /\ (printed'[i].kind = "letter") = (code \in Table)

LEMMA NextAsKeyed == HandInv /\ BoardNext => AsKeyed
<1> SUFFICES ASSUME HandInv, BoardNext PROVE AsKeyed
    OBVIOUS
<1>1. ASSUME printed' = <<>> PROVE AsKeyed
    BY <1>1 DEF AsKeyed
<1>2. CASE WireChanges
    BY <1>1, <1>2 DEF WireChanges
<1>3. CASE Drain
  <2>1. Head(ring) \in EdgeType /\ dec \in Decoder
      BY <1>3, HeadTail DEF Drain, HandInv, DecInv
  <2>2. Head(ring).level \in Level /\ Head(ring).t \in Time
      BY <2>1 DEF EdgeType
  <2>3. printed' = EdgeLines(dec, Head(ring).level, Head(ring).t)
      BY <1>3 DEF Drain
  <2>4. \A i \in DOMAIN printed' : ~ClosesLetter(printed'[i])
      BY <2>1, <2>2, <2>3, EdgeClosesNone
  <2> QED BY <2>4 DEF AsKeyed, ClosesLetter
<1>4. CASE Drained
    BY <1>1, <1>4 DEF Drained
<1>5. CASE LookAtSilence
  <2>1. at = "silence" /\ printed' = SilenceLines(dec, now)
      BY <1>5 DEF LookAtSilence
  <2> SUFFICES ASSUME NEW i \in DOMAIN printed', ClosesLetter(printed'[i]), ~missed
               PROVE  LET code == [k \in 1 .. drained |-> keyed[k].symbol]
                      IN  /\ IsLetterOfTheHand(drained)
                          /\ printed'[i].value =
                                SubSeq(code, 1, IF drained < MaxSymbol THEN drained ELSE MaxSymbol)
                          /\ (printed'[i].kind = "letter") = (code \in Table)
      BY DEF AsKeyed, ClosesLetter
  <2>2. /\ Measures(dec) /\ LetterDue(dec, now) /\ printed'[i].value = dec.symbol
        /\ printed'[i].kind = "letter" <=> IsLetter(dec)
      BY <2>1, SilenceCloses
  <2>3. LET code == [k \in 1 .. drained |-> keyed[k].symbol]
        IN  /\ IsLetterOfTheHand(drained)
            /\ dec.symbol = SubSeq(code, 1, IF drained < MaxSymbol THEN drained ELSE MaxSymbol)
            /\ IsLetter(dec) <=> code \in Table
      BY <2>1, <2>2, LetterIsAsKeyed
  <2> QED BY <2>2, <2>3
<1>6. CASE Tick
    BY <1>1, <1>6 DEF Tick
<1> QED BY <1>2, <1>3, <1>4, <1>5, <1>6 DEF BoardNext

\* While the buffer of the interrupt loses no edge, a letter that is printed is exactly the
\* pulses the hand keyed since the last one, no noise among them and none missing, cut where
\* the board cuts it; and it is closed neither inside a short pause nor after a long one
\* (procesarFlanco and revisarSilencio of morse_duplex.ino, however late the loop is).
THEOREM LettersFollowTheHand == BoardSpec => LettersAreAsKeyed
<1>1. BoardSpec => []HandInv
    BY InitHand, NextHand, PTL DEF BoardSpec
<1>2. HandInv /\ [BoardNext]_boardVars => [AsKeyed]_boardVars
    BY NextAsKeyed
<1>3. BoardSpec => [][AsKeyed]_boardVars
    BY <1>1, <1>2, PTL DEF BoardSpec
<1> QED BY <1>3 DEF LettersAreAsKeyed, AsKeyed

-----------------------------------------------------------------------------
(* Types.                                                                  *)

RingFits == Len(ring) <= RingSize

LEMMA NextRingFits == DecInv /\ RingFits /\ [BoardNext]_boardVars => RingFits'
<1> SUFFICES ASSUME DecInv, RingFits, [BoardNext]_boardVars PROVE RingFits'
    OBVIOUS
<1>1. ring \in Seq(EdgeType) /\ RingSize \in Nat /\ now \in Time /\ wire \in Level
    BY MorseAssumption DEF DecInv
<1>2. CASE WireChanges
  <2>1. CASE Len(ring) < RingSize
    <3>1. ring' = Append(ring, [level |-> wire', t |-> now])
        BY <1>2, <2>1 DEF WireChanges
    <3>2. wire' \in Level
        BY <1>1, <1>2 DEF WireChanges, Level
    <3>3. [level |-> wire', t |-> now] \in EdgeType
        BY <1>1, <3>2 DEF EdgeType
    <3>4. Len(ring') = Len(ring) + 1
        BY <1>1, <3>1, <3>3, AppendProperties
    <3> QED BY <1>1, <2>1, <3>4 DEF RingFits
  <2>2. CASE ~(Len(ring) < RingSize)
      BY <1>2, <2>2 DEF WireChanges, RingFits
  <2> QED BY <2>1, <2>2
<1>3. CASE Drain
  <2>1. ring # <<>> /\ ring' = Tail(ring)
      BY <1>3 DEF Drain
  <2>2. Len(ring') = Len(ring) - 1
      BY <1>1, <2>1, HeadTailProperties
  <2> QED BY <1>1, <2>2 DEF RingFits
<1>4. CASE ring' = ring
    BY <1>4 DEF RingFits
<1> QED BY <1>2, <1>3, <1>4
        DEF BoardNext, Drained, LookAtSilence, Tick, boardVars, wiring

LEMMA HandTypeOK == HandInv /\ RingFits => BoardTypeOK
<1> SUFFICES ASSUME HandInv, RingFits PROVE BoardTypeOK
    OBVIOUS
<1>1. /\ now \in Time /\ wire \in Level /\ dec \in Decoder /\ at \in {"drain", "silence"}
      /\ lag \in 0 .. MaxLag /\ missed \in BOOLEAN
    BY DEF HandInv, DecInv, HandTyped
<1>2. dec.symbol \in BoardCodes
    BY <1>1, DecoderFields, CodesAreSequences
<1>3. drained <= Len(keyed) \/ missed
    BY SeenWereKeyed
<1> QED BY <1>1, <1>2, <1>3, DecoderFields DEF BoardTypeOK, RingFits, Time, Level

\* Every variable of a board keeps its type, and while the buffer loses no edge the decoder
\* has never decided more symbols than the hand keyed pulses.
THEOREM TypeCorrect == BoardSpec => []BoardTypeOK
<1>1. BoardInit => RingFits
  <2>1. RingSize \in Nat /\ Len(<<>>) = 0
      BY MorseAssumption
  <2> QED BY <2>1 DEF BoardInit, RingFits
<1> QED BY <1>1, InitDecInv, NextDecInv, InitHand, NextHand, NextRingFits, HandTypeOK, PTL
        DEF BoardSpec

-----------------------------------------------------------------------------
(* MorseSketch: the adapter of the gateway, over the lines of any board    *)
(* that keeps to MorseLines.  Its board is not the one above: the two      *)
(* specifications share what is printed, and no state besides.             *)

\* What may come of a line, for each state the adapter may be in.
After(S, line) == UNION {Took(a, line) : a \in S}

LEMMA OutcomesAre ==
    ASSUME NEW lines, NEW idle, Len(lines) \in 0 .. 4
    PROVE  /\ Len(lines) = 0 => Outcomes(lines, idle) = {idle}
           /\ Len(lines) = 1 => Outcomes(lines, idle) = After({idle}, lines[1])
           /\ Len(lines) = 2 =>
                Outcomes(lines, idle) = After(After({idle}, lines[1]), lines[2])
           /\ Len(lines) = 3 =>
                Outcomes(lines, idle) =
                    After(After(After({idle}, lines[1]), lines[2]), lines[3])
           /\ Len(lines) = 4 =>
                Outcomes(lines, idle) =
                    After(After(After(After({idle}, lines[1]), lines[2]), lines[3]), lines[4])
<1> DEFINE n == Len(lines)
           Is(g) == g = [i \in 0 .. n |-> IF i = 0 THEN {idle} ELSE After(g[i - 1], lines[i])]
           T1 == After({idle}, lines[1])
           T2 == After(T1, lines[2])
           T3 == After(T2, lines[3])
           T4 == After(T3, lines[4])
           T == [i \in 0 .. 4 |-> IF i = 0 THEN {idle} ELSE IF i = 1 THEN T1 ELSE IF i = 2 THEN T2
                                    ELSE IF i = 3 THEN T3 ELSE T4]
           g == [i \in 0 .. n |-> T[i]]
<1>1. n \in 0 .. 4
    OBVIOUS
<1>2. T[0] = {idle} /\ T[1] = T1 /\ T[2] = T2 /\ T[3] = T3 /\ T[4] = T4
  <2> HIDE DEF T1, T2, T3, T4, g, Is, n
  <2> QED OBVIOUS
<1>3. \A i \in 1 .. 4 : T[i] = After(T[i - 1], lines[i])
  <2>1. /\ T1 = After({idle}, lines[1]) /\ T2 = After(T1, lines[2])
        /\ T3 = After(T2, lines[3]) /\ T4 = After(T3, lines[4])
      OBVIOUS
  <2> HIDE DEF T1, T2, T3, T4, T, g, Is, n
  <2>2. \A i \in 1 .. 4 : i = 1 \/ i = 2 \/ i = 3 \/ i = 4
      OBVIOUS
  <2>3. T[1] = After(T[0], lines[1]) /\ T[2] = After(T[1], lines[2])
        /\ T[3] = After(T[2], lines[3]) /\ T[4] = After(T[3], lines[4])
      BY <1>2, <2>1
  <2>4. 2 - 1 = 1 /\ 3 - 1 = 2 /\ 4 - 1 = 3 /\ 1 - 1 = 0
      OBVIOUS
  <2> QED BY <2>2, <2>3, <2>4
<1>4. Is(g)
  <2> HIDE DEF T, n
  <2>1. ASSUME NEW i \in 0 .. n PROVE g[i] = IF i = 0 THEN {idle} ELSE After(g[i - 1], lines[i])
    <3>1. CASE i = 0
        BY <1>2, <3>1
    <3>2. CASE i # 0
      <4>1. i \in 1 .. 4 /\ i - 1 \in 0 .. n
          BY <1>1, <3>2
      <4> QED BY <1>3, <4>1, <3>2
    <3> QED BY <3>1, <3>2
  <2> QED BY <2>1
<1> DEFINE out == CHOOSE f : Is(f)
<1>5. Is(out)
  <2> HIDE DEF g, Is, n, T
  <2> QED BY <1>4
<1>6. Outcomes(lines, idle) = out[n]
    BY DEF Outcomes, After
<1>7. /\ out[0] = {idle}
      /\ \A i \in 1 .. n : out[i] = After(out[i - 1], lines[i])
  <2> HIDE DEF out, n, T, T1, T2, T3, T4, g
  <2>1. \A i \in 0 .. n : out[i] = IF i = 0 THEN {idle} ELSE After(out[i - 1], lines[i])
    BY <1>5
  <2>2. 0 \in 0 .. n /\ \A i \in 1 .. n : i \in 0 .. n /\ i # 0
    BY <1>1
  <2> HIDE DEF Is
  <2> QED BY <2>1, <2>2, Zenon
<1> HIDE DEF out, n, T, g, Is
<1>8. (n >= 1 => out[1] = T1) /\ (n >= 2 => out[2] = T2) /\ (n >= 3 => out[3] = T3)
       /\ (n >= 4 => out[4] = T4)
  <2>1. /\ T1 = After({idle}, lines[1]) /\ T2 = After(T1, lines[2])
        /\ T3 = After(T2, lines[3]) /\ T4 = After(T3, lines[4])
      OBVIOUS
  <2> HIDE DEF T1, T2, T3, T4
  <2>2. (n >= 1 => 1 \in 1 .. n) /\ (n >= 2 => 2 \in 1 .. n) /\ (n >= 3 => 3 \in 1 .. n)
         /\ (n >= 4 => 4 \in 1 .. n)
      BY <1>1
  <2>3. 2 - 1 = 1 /\ 3 - 1 = 2 /\ 4 - 1 = 3 /\ 1 - 1 = 0
      OBVIOUS
  <2>4. n >= 1 => out[1] = T1
      BY <1>7, <2>1, <2>2, <2>3
  <2>5. n >= 2 => out[2] = T2
      BY <1>1, <1>7, <2>1, <2>2, <2>3, <2>4
  <2>6. n >= 3 => out[3] = T3
      BY <1>1, <1>7, <2>1, <2>2, <2>3, <2>5
  <2>7. n >= 4 => out[4] = T4
      BY <1>1, <1>7, <2>1, <2>2, <2>3, <2>6
  <2> QED BY <2>4, <2>5, <2>6, <2>7
<1> QED BY SMTT(30), <1>1, <1>6, <1>7, <1>8 DEF n

Length == Durations \cup {0, NoMs}
Held == Mark \cup {NoSymbol}
Report == [symbol : Mark, ms : Length, own : Length]
Event(symbol, ms, of) == [symbol |-> symbol, ms |-> ms, own |-> of]

Reader ==
    [pending : [Hand -> Held], own : [Hand -> Length],
     spoiled : [Hand -> 0 .. MaxSpoiled], events : Seq(Report),
     read : Nat, dropped : Int]

IsLine(line) ==
    /\ line.dir \in Hand /\ line.ms \in Length
    /\ line.kind = "symbol" => line.value \in Mark

\* b differs from a in what it holds of hand d at most.
SameButFor(d, a, b) ==
    \A h \in Hand \ {d} : b.pending[h] = a.pending[h] /\ b.own[h] = a.own[h]

Released(a, d, ms, b) ==
    /\ b.read = a.read /\ b.dropped = a.dropped /\ b.spoiled = a.spoiled
    /\ SameButFor(d, a, b)
    /\ b.pending[d] = NoSymbol
    /\ \/ a.pending[d] = NoSymbol /\ b.events = a.events
       \/ /\ a.pending[d] # NoSymbol
          /\ b.events = Append(a.events, Event(a.pending[d], ms, a.own[d]))

LEMMA ReleaseIs ==
    ASSUME NEW a \in Reader, NEW d \in Hand, NEW ms \in Length,
           NEW b, b = Release(a, d, ms)
    PROVE  b \in Reader /\ Released(a, d, ms, b)
<1> DEFINE e == Event(a.pending[d], ms, a.own[d])
<1>1. NoMs \in Length /\ NoSymbol \in Held
    BY DEF Length, Held
<1>2. CASE a.pending[d] = NoSymbol
  <2>1. b = a
      BY <1>2 DEF Release
  <2> QED BY <1>2, <2>1 DEF Released, SameButFor
<1>3. CASE a.pending[d] # NoSymbol
  <2>1. b = [a EXCEPT !.pending[d] = NoSymbol, !.own[d] = NoMs,
                      !.events = Append(@, e)]
      BY <1>3 DEF Release, Event
  <2>2. e \in Report
      BY <1>3 DEF Report, Reader, Event, Held
  <2> HIDE DEF e
  <2>3. b = [pending |-> [a.pending EXCEPT ![d] = NoSymbol],
             own |-> [a.own EXCEPT ![d] = NoMs], spoiled |-> a.spoiled,
             events |-> Append(a.events, e), read |-> a.read, dropped |-> a.dropped]
      BY <2>1 DEF Reader
  <2>4. Append(a.events, e) \in Seq(Report)
      BY <2>2 DEF Reader
  <2>5. b \in Reader
      BY <1>1, <2>3, <2>4 DEF Reader
  <2>6. b.events = Append(a.events, Event(a.pending[d], ms, a.own[d]))
      BY <2>3 DEF e
  <2>7. SameButFor(d, a, b) /\ b.pending[d] = NoSymbol
      BY <2>3 DEF SameButFor, Reader
  <2>8. b.read = a.read /\ b.dropped = a.dropped /\ b.spoiled = a.spoiled
      BY <2>3
  <2> QED BY <1>3, <2>5, <2>6, <2>7, <2>8 DEF Released
<1> QED BY <1>2, <1>3

\* What a line leaves of the symbol its hand held: c, and then the symbol it brings.
Decided(c, line, b) ==
    /\ SameButFor(line.dir, c, b)
    /\ \/ /\ line.kind = "symbol" /\ b.read = c.read + 1
          /\ b.pending[line.dir] = line.value /\ b.own[line.dir] = line.ms
          /\ line.value # NoSymbol
       \/ /\ line.kind # "symbol" /\ b.read = c.read
          /\ b.pending[line.dir] = c.pending[line.dir] /\ b.own[line.dir] = c.own[line.dir]

SameSpoiledButFor(d, a, b) == \A h \in Hand \ {d} : b.spoiled[h] = a.spoiled[h]

\* The state b a line leaves the adapter in, by what comes of it; c has let go of
\* what the hand held.
Garbled(a, line, b) ==
    /\ SameButFor(line.dir, a, b)
    /\ b.pending[line.dir] = a.pending[line.dir] /\ b.own[line.dir] = a.own[line.dir]
    /\ b.events = a.events /\ b.read = a.read /\ b.dropped = a.dropped
    /\ b.spoiled[line.dir] = a.spoiled[line.dir] + 1

Whole(a, line, c, b) ==
    Decided(c, line, b) /\ b.events = c.events /\ b.dropped = c.dropped

Unusable(a, line, c, b) ==
    /\ Decided(c, line, b) /\ b.events = a.events
    /\ b.dropped = c.dropped + Len(c.events) - Len(a.events)
    /\ b.spoiled[line.dir] = a.spoiled[line.dir] + 1 /\ Sampled(line)

LEMMA DecideIs ==
    ASSUME NEW a \in Reader, NEW line, IsLine(line),
           NEW c, c = LetGo(a, line), c \in Reader,
           NEW v, v = Decide(a, line)
    PROVE  /\ v \in Reader /\ Decided(c, line, v)
           /\ v.events = c.events /\ v.dropped = c.dropped /\ v.spoiled = c.spoiled
<1>1. /\ line.dir \in Hand /\ line.ms \in Length
      /\ line.kind = "symbol" => line.value \in Held /\ line.value # NoSymbol
    BY DEF IsLine, Held, Mark, NoSymbol
<1>2. CASE line.kind = "symbol"
  <2>1. v = [c EXCEPT !.pending[line.dir] = line.value, !.own[line.dir] = line.ms,
                      !.read = @ + 1]
      BY <1>2 DEF Decide
  <2>2. v = [pending |-> [c.pending EXCEPT ![line.dir] = line.value],
             own |-> [c.own EXCEPT ![line.dir] = line.ms], spoiled |-> c.spoiled,
             events |-> c.events, read |-> c.read + 1, dropped |-> c.dropped]
      BY <2>1 DEF Reader
  <2>3. v \in Reader
      BY <1>1, <1>2, <2>2 DEF Reader
  <2>4. /\ v.read = c.read + 1 /\ v.events = c.events /\ v.dropped = c.dropped
        /\ v.spoiled = c.spoiled
      BY <2>2
  <2>5. /\ SameButFor(line.dir, c, v)
        /\ v.pending[line.dir] = line.value /\ v.own[line.dir] = line.ms
      BY <1>1, <2>2 DEF SameButFor, Reader
  <2> QED BY <1>1, <1>2, <2>3, <2>4, <2>5 DEF Decided
<1>3. CASE line.kind # "symbol"
  <2>1. v = c
      BY <1>3 DEF Decide
  <2> QED BY <1>3, <2>1 DEF Decided, SameButFor
<1> QED BY <1>2, <1>3

Measured(line) == IF line.kind = "pulse" THEN line.ms ELSE NoMs

\* What may come of a line, field by field.
LEMMA TookIs ==
    ASSUME NEW a \in Reader, NEW line, IsLine(line), MaxSpoiled \in Nat,
           NEW b \in Took(a, line)
    PROVE  /\ b \in Reader /\ SameSpoiledButFor(line.dir, a, b)
           /\ \E c \in Reader :
                /\ Released(a, line.dir, Measured(line), c)
                /\ Whole(a, line, c, b) \/ Garbled(a, line, b) \/ Unusable(a, line, c, b)
<1> DEFINE d == line.dir
           c == LetGo(a, line)
           v == Decide(a, line)
<1>1. d \in Hand /\ Measured(line) \in Length
    BY DEF IsLine, Length, Measured
<1>2. c = Release(a, line.dir, Measured(line))
    BY DEF LetGo, Measured
<1>3. c \in Reader /\ Released(a, line.dir, Measured(line), c)
  <2> HIDE DEF c
  <2> QED BY <1>1, <1>2, ReleaseIs
<1>4. c.spoiled = a.spoiled
    BY <1>3 DEF Released
<1>5. /\ v \in Reader /\ Decided(c, line, v)
      /\ v.events = c.events /\ v.dropped = c.dropped /\ v.spoiled = c.spoiled
    BY <1>3, DecideIs
<1>6. PICK fate \in Fates(a, line) : b = Take(a, line, fate)
    BY DEF Took
<1>7. /\ fate \in {"whole", "garbled", "unusable"}
      /\ fate # "whole" => a.spoiled[d] # MaxSpoiled
      /\ fate = "unusable" => Sampled(line)
  <2> HIDE DEF c, v
  <2> QED BY <1>6 DEF Fates
<1>8. /\ fate = "whole" => b = [v EXCEPT !.spoiled[d] = 0]
      /\ fate = "garbled" => b = [a EXCEPT !.spoiled[d] = @ + 1]
      /\ fate = "unusable" =>
           b = [v EXCEPT !.events = a.events, !.spoiled[d] = @ + 1,
                         !.dropped = @ + Len(v.events) - Len(a.events)]
  <2> HIDE DEF c
  <2> QED BY <1>6, <1>7 DEF Take
<1> HIDE DEF c, v
<1>9. a.spoiled[d] # MaxSpoiled => a.spoiled[d] + 1 \in 0 .. MaxSpoiled
    BY <1>1 DEF Reader
<1>10. CASE fate = "whole"
  <2>1. b = [pending |-> v.pending, own |-> v.own, spoiled |-> [v.spoiled EXCEPT ![d] = 0],
             events |-> v.events, read |-> v.read, dropped |-> v.dropped]
      BY <1>5, <1>8, <1>10 DEF Reader
  <2>2. [v.spoiled EXCEPT ![d] = 0] \in [Hand -> 0 .. MaxSpoiled]
      BY <1>1, <1>5 DEF Reader
  <2>3. b \in Reader
      BY <1>5, <2>1, <2>2 DEF Reader
  <2>4. SameSpoiledButFor(d, a, b)
      BY <1>4, <1>5, <2>1 DEF SameSpoiledButFor, Reader
  <2>5. Decided(c, line, b)
      BY <1>5, <2>1 DEF Decided, SameButFor
  <2>6. b.events = c.events /\ b.dropped = c.dropped
      BY <1>5, <2>1
  <2> QED BY <1>3, <2>3, <2>4, <2>5, <2>6 DEF Whole
<1>11. CASE fate = "garbled"
  <2>1. b = [pending |-> a.pending, own |-> a.own,
             spoiled |-> [a.spoiled EXCEPT ![d] = @ + 1],
             events |-> a.events, read |-> a.read, dropped |-> a.dropped]
      BY <1>8, <1>11 DEF Reader
  <2>2. b \in Reader
      BY <1>7, <1>9, <1>11, <2>1 DEF Reader
  <2>3. SameSpoiledButFor(d, a, b) /\ b.spoiled[d] = a.spoiled[d] + 1
      BY <1>1, <2>1 DEF SameSpoiledButFor, Reader
  <2>4. /\ SameButFor(d, a, b)
        /\ b.pending[d] = a.pending[d] /\ b.own[d] = a.own[d]
        /\ b.events = a.events /\ b.read = a.read /\ b.dropped = a.dropped
      BY <2>1 DEF SameButFor
  <2> QED BY <1>3, <2>2, <2>3, <2>4 DEF Garbled
<1>12. CASE fate = "unusable"
  <2>1. b = [pending |-> v.pending, own |-> v.own,
             spoiled |-> [v.spoiled EXCEPT ![d] = @ + 1],
             events |-> a.events, read |-> v.read,
             dropped |-> v.dropped + Len(v.events) - Len(a.events)]
      BY ZenonT(30), <1>5, <1>8, <1>12 DEF Reader
  <2>2. Len(v.events) \in Nat /\ Len(a.events) \in Nat
      BY <1>5 DEF Reader
  <2>3. [v.spoiled EXCEPT ![d] = @ + 1] \in [Hand -> 0 .. MaxSpoiled]
      BY <1>1, <1>4, <1>5, <1>7, <1>9, <1>12 DEF Reader
  <2>4. v.dropped + Len(v.events) - Len(a.events) \in Int
      BY <1>5, <2>2 DEF Reader
  <2>5. v \in Reader /\ a.events \in Seq(Report)
      BY <1>5 DEF Reader
  <2>6. b \in Reader
      BY <2>1, <2>3, <2>4, <2>5 DEF Reader
  <2>7. SameSpoiledButFor(d, a, b) /\ b.spoiled[d] = a.spoiled[d] + 1
      BY <1>1, <1>4, <1>5, <2>1 DEF SameSpoiledButFor, Reader
  <2>8. Decided(c, line, b)
      BY <1>5, <2>1 DEF Decided, SameButFor
  <2>9. /\ b.events = a.events
        /\ b.dropped = c.dropped + Len(c.events) - Len(a.events)
      BY <1>5, <2>1
  <2> QED BY <1>3, <1>7, <1>12, <2>6, <2>7, <2>8, <2>9 DEF Unusable
<1> QED BY <1>7, <1>10, <1>11, <1>12

-----------------------------------------------------------------------------
(* Nothing read is lost from count.                                        *)

Count(p) ==
    (IF p["RX"] = NoSymbol THEN 0 ELSE 1) + (IF p["TX"] = NoSymbol THEN 0 ELSE 1)

\* What the adapter has read and neither reported, dropped nor kept.
Tally(a) == a.read - (Len(a.events) + a.dropped + Count(a.pending))

LEMMA CountIs ==
    ASSUME NEW a \in Reader
    PROVE  /\ Count(a.pending) \in Nat /\ Len(a.events) \in Nat
           /\ a.read \in Nat /\ a.dropped \in Int /\ a.pending \in [Hand -> Held]
BY DEF Count, Reader

\* Of two hands, the count goes down with the one that lets go, and up with the one
\* that takes hold.
LEMMA CountChanges ==
    ASSUME NEW p \in [Hand -> Held], NEW q \in [Hand -> Held],
           NEW d \in Hand, \A h \in Hand \ {d} : q[h] = p[h]
    PROVE  /\ p[d] = NoSymbol /\ q[d] # NoSymbol => Count(q) = Count(p) + 1
           /\ p[d] # NoSymbol /\ q[d] = NoSymbol => Count(p) = Count(q) + 1
           /\ (p[d] = NoSymbol <=> q[d] = NoSymbol) => Count(q) = Count(p)
<1>1. Hand = {"RX", "TX"} /\ "RX" # "TX"
    BY DEF Hand
<1>2. CASE d = "RX"
  <2>1. q["TX"] = p["TX"]
      BY <1>1, <1>2
  <2> QED BY <1>2, <2>1 DEF Count
<1>3. CASE d = "TX"
  <2>1. q["RX"] = p["RX"]
      BY <1>1, <1>3
  <2> QED BY <1>3, <2>1 DEF Count
<1> QED BY <1>1, <1>2, <1>3

LEMMA ReleaseKeepsTally ==
    ASSUME NEW a \in Reader, NEW d \in Hand, NEW ms, NEW c \in Reader,
           Released(a, d, ms, c)
    PROVE  Len(c.events) + Count(c.pending) = Len(a.events) + Count(a.pending)
<1>1. /\ Count(a.pending) \in Nat /\ Count(c.pending) \in Nat
      /\ Len(a.events) \in Nat /\ Len(c.events) \in Nat
      /\ a.pending \in [Hand -> Held] /\ c.pending \in [Hand -> Held]
      /\ a.events \in Seq(Report)
    BY CountIs DEF Reader
<1>2. \A h \in Hand \ {d} : c.pending[h] = a.pending[h]
    BY DEF Released, SameButFor
<1>3. c.pending[d] = NoSymbol
    BY DEF Released
<1>4. CASE a.pending[d] = NoSymbol /\ c.events = a.events
  <2>1. Count(c.pending) = Count(a.pending)
      BY <1>1, <1>2, <1>3, <1>4, CountChanges
  <2> QED BY <1>4, <2>1
<1>5. CASE a.pending[d] # NoSymbol /\ \E e : c.events = Append(a.events, e)
  <2>1. Count(a.pending) = Count(c.pending) + 1
      BY <1>1, <1>2, <1>3, <1>5, CountChanges
  <2>2. Len(c.events) = Len(a.events) + 1
      BY <1>1, <1>5
  <2> DEFINE m == Len(a.events)
             n == Len(c.events)
             j == Count(a.pending)
             k == Count(c.pending)
  <2>3. m \in Nat /\ n \in Nat /\ j \in Nat /\ k \in Nat /\ j = k + 1 /\ n = m + 1
      BY <1>1, <2>1, <2>2
  <2> HIDE DEF m, n, j, k
  <2>4. n + k = m + j
      BY <2>3
  <2> QED BY <2>4 DEF m, n, j, k
<1> QED BY <1>4, <1>5 DEF Released

LEMMA DecidedKeepsTally ==
    ASSUME NEW c \in Reader, NEW b \in Reader, NEW line, IsLine(line),
           c.pending[line.dir] = NoSymbol, Decided(c, line, b)
    PROVE  b.read - Count(b.pending) = c.read - Count(c.pending)
<1>1. /\ Count(b.pending) \in Nat /\ Count(c.pending) \in Nat
      /\ b.read \in Nat /\ c.read \in Nat /\ line.dir \in Hand
      /\ b.pending \in [Hand -> Held] /\ c.pending \in [Hand -> Held]
    BY CountIs DEF IsLine
<1>2. \A h \in Hand \ {line.dir} : b.pending[h] = c.pending[h]
    BY DEF Decided, SameButFor
<1>3. CASE b.read = c.read + 1 /\ b.pending[line.dir] # NoSymbol
  <2>1. Count(b.pending) = Count(c.pending) + 1
      BY <1>1, <1>2, <1>3, CountChanges
  <2> QED BY <1>1, <1>3, <2>1
<1>4. CASE b.read = c.read /\ b.pending[line.dir] = NoSymbol
  <2>1. Count(b.pending) = Count(c.pending)
      BY <1>1, <1>2, <1>4, CountChanges
  <2> QED BY <1>1, <1>4, <2>1
<1> QED BY <1>3, <1>4 DEF Decided

LEMMA TookKeepsTally ==
    ASSUME NEW a \in Reader, NEW line, IsLine(line), MaxSpoiled \in Nat,
           NEW b \in Took(a, line)
    PROVE  b \in Reader /\ Tally(b) = Tally(a)
<1>1. PICK c \in Reader :
        /\ Released(a, line.dir, Measured(line), c)
        /\ Whole(a, line, c, b) \/ Garbled(a, line, b) \/ Unusable(a, line, c, b)
    BY TookIs
<1>2. b \in Reader /\ line.dir \in Hand
    BY TookIs DEF IsLine
<1>3. /\ Len(c.events) + Count(c.pending) = Len(a.events) + Count(a.pending)
      /\ c.read = a.read /\ c.dropped = a.dropped /\ c.pending[line.dir] = NoSymbol
    BY <1>1, <1>2, ReleaseKeepsTally DEF Released
<1>4. /\ Count(a.pending) \in Nat /\ Count(b.pending) \in Nat /\ Count(c.pending) \in Nat
      /\ Len(a.events) \in Nat /\ Len(b.events) \in Nat /\ Len(c.events) \in Nat
      /\ a.read \in Nat /\ b.read \in Nat /\ c.read \in Nat
      /\ a.dropped \in Int /\ b.dropped \in Int /\ c.dropped \in Int
    BY <1>1, <1>2, CountIs
<1>5. CASE Whole(a, line, c, b)
  <2>1. b.read - Count(b.pending) = c.read - Count(c.pending)
      BY <1>1, <1>2, <1>3, <1>5, DecidedKeepsTally DEF Whole
  <2>2. b.events = c.events /\ b.dropped = c.dropped
      BY <1>5 DEF Whole
  <2> DEFINE r == a.read
             l == Len(a.events)
             d == a.dropped
             k == Count(a.pending)
             r1 == b.read
             l1 == Len(b.events)
             d1 == b.dropped
             k1 == Count(b.pending)
             l2 == Len(c.events)
             k2 == Count(c.pending)
  <2>3. /\ r \in Nat /\ l \in Nat /\ d \in Int /\ k \in Nat
        /\ r1 \in Nat /\ l1 \in Nat /\ d1 \in Int /\ k1 \in Nat /\ l2 \in Nat /\ k2 \in Nat
        /\ l2 + k2 = l + k /\ r1 - k1 = r - k2
        /\ l1 = l2 /\ d1 = d
      BY <1>3, <1>4, <2>1, <2>2
  <2>4. Tally(a) = r - (l + d + k) /\ Tally(b) = r1 - (l1 + d1 + k1)
      BY DEF Tally
  <2> HIDE DEF r, l, d, k, r1, l1, d1, k1, l2, k2
  <2>5. Tally(b) = Tally(a)
      BY <2>3, <2>4
  <2> QED BY <1>2, <2>5
<1>6. CASE Garbled(a, line, b)
  <2>1. \A h \in Hand : b.pending[h] = a.pending[h]
      BY <1>6 DEF Garbled, SameButFor
  <2>2. Count(b.pending) = Count(a.pending)
      BY <2>1 DEF Count, Hand
  <2>3. Tally(b) = Tally(a)
      BY <1>6, <2>2 DEF Garbled, Tally
  <2> QED BY <1>2, <2>3
<1>7. CASE Unusable(a, line, c, b)
  <2>1. b.read - Count(b.pending) = c.read - Count(c.pending)
      BY <1>1, <1>2, <1>3, <1>7, DecidedKeepsTally DEF Unusable
  <2>2. /\ b.events = a.events
        /\ b.dropped = c.dropped + Len(c.events) - Len(a.events)
      BY <1>7 DEF Unusable
  <2> DEFINE r == a.read
             l == Len(a.events)
             d == a.dropped
             k == Count(a.pending)
             r1 == b.read
             l1 == Len(b.events)
             d1 == b.dropped
             k1 == Count(b.pending)
             l2 == Len(c.events)
             k2 == Count(c.pending)
  <2>3. /\ r \in Nat /\ l \in Nat /\ d \in Int /\ k \in Nat
        /\ r1 \in Nat /\ l1 \in Nat /\ d1 \in Int /\ k1 \in Nat /\ l2 \in Nat /\ k2 \in Nat
        /\ l2 + k2 = l + k /\ r1 - k1 = r - k2
        /\ l1 = l /\ d1 = d + (l2 - l)
      BY <1>3, <1>4, <2>1, <2>2
  <2>4. Tally(a) = r - (l + d + k) /\ Tally(b) = r1 - (l1 + d1 + k1)
      BY DEF Tally
  <2> HIDE DEF r, l, d, k, r1, l1, d1, k1, l2, k2
  <2>5. Tally(b) = Tally(a)
      BY <2>3, <2>4
  <2> QED BY <1>2, <2>5
<1> QED BY <1>1, <1>5, <1>6, <1>7

Tallied(S, t) == \A a \in S : a \in Reader /\ Tally(a) = t
AreLines(lines) == Len(lines) \in 0 .. 4 /\ \A i \in 1 .. Len(lines) : IsLine(lines[i])

LEMMA OutcomesKeepTally ==
    ASSUME NEW lines, AreLines(lines), MaxSpoiled \in Nat, NEW idle \in Reader
    PROVE  Tallied(Outcomes(lines, idle), Tally(idle))
<1> DEFINE t == Tally(idle)
<1>1. ASSUME NEW S, Tallied(S, t), NEW line, IsLine(line) PROVE Tallied(After(S, line), t)
    BY <1>1, TookKeepsTally DEF Tallied, After
<1>2. Tallied({idle}, t)
    BY DEF Tallied
<1> HIDE DEF t
<1>3. /\ Len(lines) \in 0 .. 4
      /\ Len(lines) >= 1 => IsLine(lines[1])
      /\ Len(lines) >= 2 => IsLine(lines[2])
      /\ Len(lines) >= 3 => IsLine(lines[3])
      /\ Len(lines) >= 4 => IsLine(lines[4])
    BY DEF AreLines
<1> DEFINE T1 == After({idle}, lines[1])
           T2 == After(T1, lines[2])
           T3 == After(T2, lines[3])
           T4 == After(T3, lines[4])
<1>4. Len(lines) >= 1 => Tallied(T1, t)
    BY <1>1, <1>2, <1>3
<1>5. Len(lines) >= 2 => Tallied(T2, t)
  <2> HIDE DEF T1
  <2> QED BY <1>1, <1>3, <1>4
<1>6. Len(lines) >= 3 => Tallied(T3, t)
  <2> HIDE DEF T2
  <2> QED BY <1>1, <1>3, <1>5
<1>7. Len(lines) >= 4 => Tallied(T4, t)
  <2> HIDE DEF T3
  <2> QED BY <1>1, <1>3, <1>6
<1> DEFINE n == Len(lines)
           O == Outcomes(lines, idle)
<1>8. (n = 0 => O = {idle}) /\ (n = 1 => O = T1) /\ (n = 2 => O = T2)
       /\ (n = 3 => O = T3) /\ (n = 4 => O = T4)
    BY <1>3, OutcomesAre
<1>9. n \in 0 .. 4 /\ (n >= 1 => Tallied(T1, t)) /\ (n >= 2 => Tallied(T2, t))
       /\ (n >= 3 => Tallied(T3, t)) /\ (n >= 4 => Tallied(T4, t))
    BY <1>3, <1>4, <1>5, <1>6, <1>7
<1> HIDE DEF T1, T2, T3, T4, n, O
<1>10. n = 0 \/ n = 1 \/ n = 2 \/ n = 3 \/ n = 4
    BY <1>9
<1>11. Tallied(O, t)
    BY <1>2, <1>8, <1>9, <1>10
<1> QED BY <1>11 DEF O, t

-----------------------------------------------------------------------------
(* What the board prints.                                                  *)

LEMMA Joined ==
    ASSUME NEW x, NEW y, NEW z
    PROVE  /\ <<>> \o <<>> = <<>> /\ <<x>> \o <<>> = <<x>> /\ <<>> \o <<x>> = <<x>>
           /\ <<x, y>> \o <<>> = <<x, y>>
           /\ <<x>> \o <<y>> = <<x, y>> /\ <<x, y>> \o <<z>> = <<x, y, z>>
<1>1. <<>> \o <<>> = <<>>
    OBVIOUS
<1>2. <<x>> \o <<>> = <<x>>
    OBVIOUS
<1>3. <<>> \o <<x>> = <<x>>
    OBVIOUS
<1>4. <<x, y>> \o <<>> = <<x, y>>
    OBVIOUS
<1> DEFINE X == {x, y, z}
<1>5. <<x>> \o <<y>> = <<x, y>>
  <2> DEFINE s == <<x>> \o <<y>>
             t == <<x, y>>
  <2>1. s \in Seq(X) /\ Len(s) = 2 /\ s[1] = x /\ s[2] = y
      OBVIOUS
  <2>2. t \in Seq(X) /\ Len(t) = 2 /\ t[1] = x /\ t[2] = y
      OBVIOUS
  <2> HIDE DEF s, t
  <2>3. \A i \in 1 .. 2 : s[i] = t[i]
    <3>1. \A i \in 1 .. 2 : i = 1 \/ i = 2
        OBVIOUS
    <3> QED BY <2>1, <2>2, <3>1
  <2>4. s = t
      BY <2>1, <2>2, <2>3, SeqEqual
  <2> QED BY <2>4 DEF s, t
<1>6. <<x, y>> \o <<z>> = <<x, y, z>>
  <2> DEFINE s == <<x, y>> \o <<z>>
             t == <<x, y, z>>
  <2>1. s \in Seq(X) /\ Len(s) = 3 /\ s[1] = x /\ s[2] = y /\ s[3] = z
      OBVIOUS
  <2>2. t \in Seq(X) /\ Len(t) = 3 /\ t[1] = x /\ t[2] = y /\ t[3] = z
      OBVIOUS
  <2> HIDE DEF s, t
  <2>3. \A i \in 1 .. 3 : s[i] = t[i]
    <3>1. \A i \in 1 .. 3 : i = 1 \/ i = 2 \/ i = 3
        OBVIOUS
    <3> QED BY <2>1, <2>2, <3>1
  <2>4. s = t
      BY <2>1, <2>2, <2>3, SeqEqual
  <2> QED BY <2>4 DEF s, t
<1> QED BY <1>1, <1>2, <1>3, <1>4, <1>5, <1>6

-----------------------------------------------------------------------------
(* Durations.                                                              *)

OwnOrNone(events) ==
    \A i \in 1 .. Len(events) : events[i].ms \in {NoMs, events[i].own}

\* Hand d holds nothing, or k lines about it were spoiled since.
Spoilt(a, d, k) == a.pending[d] = NoSymbol \/ a.spoiled[d] >= k

\* What hand d holds is a pulse of that duration.
Lasts(a, d, ms) == a.pending[d] = NoSymbol \/ a.own[d] = ms

Short(line, d) == IsLine(line) /\ line.dir = d /\ line.kind \notin {"symbol", "pulse"}
Symbol(line, d) == IsLine(line) /\ line.dir = d /\ line.kind = "symbol"
Lasting(line, d) == IsLine(line) /\ line.dir = d /\ line.kind = "pulse"

LEMMA SpoiltLess ==
    ASSUME NEW a \in Reader, NEW d \in Hand, NEW k \in Nat, Spoilt(a, d, k + 1)
    PROVE  Spoilt(a, d, k)
<1>1. a.spoiled[d] \in 0 .. MaxSpoiled
    BY DEF Reader
<1> QED BY <1>1 DEF Spoilt

LEMMA ReleaseIsOwn ==
    ASSUME NEW a \in Reader, NEW d \in Hand, NEW ms, NEW c \in Reader,
           Released(a, d, ms, c), OwnOrNone(a.events),
           ms = NoMs \/ Lasts(a, d, ms)
    PROVE  OwnOrNone(c.events)
<1>1. CASE c.events = a.events
    BY <1>1
<1>2. CASE /\ a.pending[d] # NoSymbol
           /\ c.events = Append(a.events, Event(a.pending[d], ms, a.own[d]))
  <2> DEFINE e == Event(a.pending[d], ms, a.own[d])
  <2>1. e.ms \in {NoMs, e.own}
      BY <1>2 DEF Lasts, Event
  <2> HIDE DEF e
  <2>2. a.events \in Seq(Report)
      BY DEF Reader
  <2>3. c.events = Append(a.events, e)
      BY <1>2 DEF e
  <2>4. /\ Len(c.events) = Len(a.events) + 1 /\ Len(a.events) \in Nat
        /\ \A i \in 1 .. Len(a.events) : c.events[i] = a.events[i]
        /\ c.events[Len(a.events) + 1] = e
      BY <2>2, <2>3
  <2>5. ASSUME NEW i \in 1 .. Len(c.events)
        PROVE  c.events[i].ms \in {NoMs, c.events[i].own}
    <3>1. i \in 1 .. Len(a.events) \/ i = Len(a.events) + 1
        BY <2>4
    <3> QED BY <2>1, <2>4, <3>1 DEF OwnOrNone
  <2> QED BY <2>5 DEF OwnOrNone
<1> QED BY <1>1, <1>2 DEF Released

\* A line says nothing of the other hand.
LEMMA OtherHand ==
    ASSUME NEW a \in Reader, NEW line, IsLine(line), MaxSpoiled \in Nat,
           NEW b \in Took(a, line), NEW h \in Hand, h # line.dir
    PROVE  b.pending[h] = a.pending[h] /\ b.own[h] = a.own[h] /\ b.spoiled[h] = a.spoiled[h]
<1>1. PICK c \in Reader :
        /\ Released(a, line.dir, Measured(line), c)
        /\ Whole(a, line, c, b) \/ Garbled(a, line, b) \/ Unusable(a, line, c, b)
    BY TookIs
<1>2. SameSpoiledButFor(line.dir, a, b)
    BY TookIs
<1>3. SameButFor(line.dir, a, b)
    BY <1>1 DEF Released, Whole, Garbled, Unusable, Decided, SameButFor
<1> QED BY <1>2, <1>3 DEF SameButFor, SameSpoiledButFor

\* Of its own hand, a line that is no duration lets go, without one, or is spoiled.
LEMMA ShortRead ==
    ASSUME NEW a \in Reader, NEW d \in Hand, NEW line, Short(line, d), MaxSpoiled \in Nat,
           NEW b \in Took(a, line), NEW k \in Nat, Spoilt(a, d, k), OwnOrNone(a.events)
    PROVE  Spoilt(b, d, k + 1) /\ OwnOrNone(b.events)
<1>1. IsLine(line) /\ line.dir = d /\ line.kind # "symbol" /\ Measured(line) = NoMs
    BY DEF Short, Measured
<1>2. PICK c \in Reader :
        /\ Released(a, d, NoMs, c)
        /\ Whole(a, line, c, b) \/ Garbled(a, line, b) \/ Unusable(a, line, c, b)
    BY <1>1, TookIs
<1>3. OwnOrNone(c.events) /\ c.pending[d] = NoSymbol
    BY <1>2, ReleaseIsOwn DEF Released
<1>4. OwnOrNone(b.events)
    BY <1>2, <1>3 DEF Whole, Garbled, Unusable
<1>5. CASE Garbled(a, line, b)
  <2>1. a.spoiled[d] \in 0 .. MaxSpoiled
      BY DEF Reader
  <2> QED BY <1>1, <1>4, <1>5, <2>1 DEF Garbled, Spoilt
<1>6. CASE ~Garbled(a, line, b)
  <2>1. b.pending[d] = NoSymbol
      BY <1>1, <1>2, <1>3, <1>6 DEF Whole, Unusable, Decided
  <2> QED BY <1>4, <2>1 DEF Spoilt
<1> QED BY <1>5, <1>6

\* A symbol that comes when nothing older can be held any more.
LEMMA SymbolRead ==
    ASSUME NEW a \in Reader, NEW d \in Hand, NEW line, Symbol(line, d), MaxSpoiled \in Nat,
           NEW b \in Took(a, line), OwnOrNone(a.events)
    PROVE  OwnOrNone(b.events) /\ (Spoilt(a, d, MaxSpoiled) => Lasts(b, d, line.ms))
<1>1. /\ IsLine(line) /\ line.dir = d /\ line.kind = "symbol"
      /\ Measured(line) = NoMs /\ ~Sampled(line)
    BY DEF Symbol, Measured, Sampled
<1>2. PICK c \in Reader :
        /\ Released(a, d, NoMs, c)
        /\ Whole(a, line, c, b) \/ Garbled(a, line, b) \/ Unusable(a, line, c, b)
    BY <1>1, TookIs
<1>3. b \in Reader
    BY <1>1, TookIs
<1>4. OwnOrNone(c.events)
    BY <1>2, ReleaseIsOwn
<1>5. CASE Whole(a, line, c, b)
    BY <1>1, <1>4, <1>5 DEF Whole, Decided, Lasts
<1>6. CASE Garbled(a, line, b)
  <2>1. OwnOrNone(b.events)
      BY <1>6 DEF Garbled
  <2>2. a.spoiled[d] < MaxSpoiled
    <3>1. a.spoiled[d] \in 0 .. MaxSpoiled /\ b.spoiled[d] \in 0 .. MaxSpoiled
        BY <1>3 DEF Reader
    <3>2. b.spoiled[d] = a.spoiled[d] + 1
        BY <1>1, <1>6 DEF Garbled
    <3> QED BY <3>1, <3>2
  <2>3. Spoilt(a, d, MaxSpoiled) => a.pending[d] = NoSymbol
    <3>1. a.spoiled[d] \in 0 .. MaxSpoiled
        BY DEF Reader
    <3> QED BY <2>2, <3>1 DEF Spoilt
  <2>4. b.pending[d] = a.pending[d]
      BY <1>1, <1>6 DEF Garbled
  <2> QED BY <2>1, <2>3, <2>4 DEF Lasts
<1> QED BY <1>1, <1>2, <1>5, <1>6 DEF Unusable

\* A duration that can only be that of the symbol held.
LEMMA LastingRead ==
    ASSUME NEW a \in Reader, NEW d \in Hand, NEW line, Lasting(line, d), MaxSpoiled \in Nat,
           NEW b \in Took(a, line), Lasts(a, d, line.ms), OwnOrNone(a.events)
    PROVE  Spoilt(b, d, 1) /\ OwnOrNone(b.events)
<1>1. /\ IsLine(line) /\ line.dir = d /\ line.kind # "symbol" /\ Measured(line) = line.ms
    BY DEF Lasting, Measured
<1>2. PICK c \in Reader :
        /\ Released(a, d, line.ms, c)
        /\ Whole(a, line, c, b) \/ Garbled(a, line, b) \/ Unusable(a, line, c, b)
    BY <1>1, TookIs
<1>3. OwnOrNone(c.events) /\ c.pending[d] = NoSymbol
    BY <1>2, ReleaseIsOwn DEF Released
<1>4. OwnOrNone(b.events)
    BY <1>2, <1>3 DEF Whole, Garbled, Unusable
<1>5. CASE Garbled(a, line, b)
  <2>1. a.spoiled[d] \in 0 .. MaxSpoiled
      BY DEF Reader
  <2> QED BY <1>1, <1>4, <1>5, <2>1 DEF Garbled, Spoilt
<1>6. CASE ~Garbled(a, line, b)
  <2>1. b.pending[d] = NoSymbol
      BY <1>1, <1>2, <1>3, <1>6 DEF Whole, Unusable, Decided
  <2> QED BY <1>4, <2>1 DEF Spoilt
<1> QED BY <1>5, <1>6

Other(d) == IF d = "RX" THEN "TX" ELSE "RX"

\* In each of these states, j lines about hand d and k about the other were spoiled
\* since it took hold of what it holds.
Ready(S, d, j, k) ==
    \A a \in S : /\ a \in Reader /\ OwnOrNone(a.events)
                 /\ Spoilt(a, d, j) /\ Spoilt(a, Other(d), k)

LEMMA Hands ==
    ASSUME NEW d \in Hand
    PROVE  /\ Other(d) \in Hand /\ Other(d) # d /\ Other(Other(d)) = d
BY DEF Other, Hand

LEMMA TwoHands ==
    /\ Hand = {"RX", "TX"} /\ "RX" # "TX"
    /\ Other("RX") = "TX" /\ Other("TX") = "RX"
BY DEF Other, Hand

LEMMA OtherSpoilt ==
    ASSUME NEW a \in Reader, NEW d \in Hand, NEW line, IsLine(line), line.dir = d,
           MaxSpoiled \in Nat, NEW b \in Took(a, line), NEW k,
           Spoilt(a, Other(d), k)
    PROVE  Spoilt(b, Other(d), k) /\ b \in Reader
<1>1. b \in Reader
    BY TookIs
<1> QED BY <1>1, Hands, OtherHand DEF Spoilt

LEMMA ReadyShort ==
    ASSUME NEW S, NEW d \in Hand, NEW j \in Nat, NEW k \in Nat, MaxSpoiled \in Nat,
           Ready(S, d, j, k), NEW line, Short(line, d)
    PROVE  Ready(After(S, line), d, j + 1, k)
<1> SUFFICES ASSUME NEW b \in After(S, line)
             PROVE  /\ b \in Reader /\ OwnOrNone(b.events)
                    /\ Spoilt(b, d, j + 1) /\ Spoilt(b, Other(d), k)
    BY DEF Ready
<1>1. PICK a \in S : b \in Took(a, line)
    BY DEF After
<1>2. a \in Reader /\ OwnOrNone(a.events) /\ Spoilt(a, d, j) /\ Spoilt(a, Other(d), k)
    BY <1>1 DEF Ready
<1>3. IsLine(line) /\ line.dir = d
    BY DEF Short
<1>4. b \in Reader /\ Spoilt(b, Other(d), k)
    BY <1>1, <1>2, <1>3, OtherSpoilt
<1>5. Spoilt(b, d, j + 1) /\ OwnOrNone(b.events)
    BY <1>1, <1>2, ShortRead
<1> QED BY <1>4, <1>5

LEMMA ReadySymbol ==
    ASSUME NEW S, NEW d \in Hand, NEW j \in Nat, NEW k \in Nat, MaxSpoiled \in Nat,
           Ready(S, d, j, k), NEW line, Symbol(line, d)
    PROVE  /\ Ready(After(S, line), d, 0, k)
           /\ j >= MaxSpoiled => \A b \in After(S, line) : Lasts(b, d, line.ms)
<1> SUFFICES ASSUME NEW b \in After(S, line)
             PROVE  /\ b \in Reader /\ OwnOrNone(b.events)
                    /\ Spoilt(b, d, 0) /\ Spoilt(b, Other(d), k)
                    /\ j >= MaxSpoiled => Lasts(b, d, line.ms)
    BY DEF Ready
<1>1. PICK a \in S : b \in Took(a, line)
    BY DEF After
<1>2. a \in Reader /\ OwnOrNone(a.events) /\ Spoilt(a, d, j) /\ Spoilt(a, Other(d), k)
    BY <1>1 DEF Ready
<1>3. IsLine(line) /\ line.dir = d
    BY DEF Symbol
<1>4. b \in Reader /\ Spoilt(b, Other(d), k)
    BY <1>1, <1>2, <1>3, OtherSpoilt
<1>5. OwnOrNone(b.events) /\ (Spoilt(a, d, MaxSpoiled) => Lasts(b, d, line.ms))
    BY <1>1, <1>2, SymbolRead
<1>6. j >= MaxSpoiled => Spoilt(a, d, MaxSpoiled)
  <2>1. a.spoiled[d] \in 0 .. MaxSpoiled
      BY <1>2 DEF Reader
  <2> QED BY <1>2, <2>1 DEF Spoilt
<1>7. Spoilt(b, d, 0)
  <2>1. b.spoiled[d] \in 0 .. MaxSpoiled
      BY <1>4 DEF Reader
  <2> QED BY <2>1 DEF Spoilt
<1> QED BY <1>4, <1>5, <1>6, <1>7

LEMMA ReadyPulse ==
    ASSUME NEW S, NEW d \in Hand, NEW j \in Nat, NEW k \in Nat, MaxSpoiled \in Nat,
           Ready(S, d, j, k), NEW line, Lasting(line, d), \A a \in S : Lasts(a, d, line.ms)
    PROVE  Ready(After(S, line), d, 1, k)
<1> SUFFICES ASSUME NEW b \in After(S, line)
             PROVE  /\ b \in Reader /\ OwnOrNone(b.events)
                    /\ Spoilt(b, d, 1) /\ Spoilt(b, Other(d), k)
    BY DEF Ready
<1>1. PICK a \in S : b \in Took(a, line)
    BY DEF After
<1>2. /\ a \in Reader /\ OwnOrNone(a.events) /\ Spoilt(a, Other(d), k)
      /\ Lasts(a, d, line.ms)
    BY <1>1 DEF Ready
<1>3. IsLine(line) /\ line.dir = d
    BY DEF Lasting
<1>4. b \in Reader /\ Spoilt(b, Other(d), k)
    BY <1>1, <1>2, <1>3, OtherSpoilt
<1>5. Spoilt(b, d, 1) /\ OwnOrNone(b.events)
    BY <1>1, <1>2, LastingRead
<1> QED BY <1>4, <1>5

LEMMA ReadyLess ==
    ASSUME NEW S, NEW d \in Hand, NEW j \in Nat, NEW k \in Nat,
           NEW j1 \in 0 .. j, NEW k1 \in 0 .. k, Ready(S, d, j, k)
    PROVE  Ready(S, d, j1, k1)
<1> SUFFICES ASSUME NEW a \in S PROVE Spoilt(a, d, j1) /\ Spoilt(a, Other(d), k1)
    BY DEF Ready
<1>1. a \in Reader /\ Spoilt(a, d, j) /\ Spoilt(a, Other(d), k)
    BY DEF Ready
<1>2. a.spoiled[d] \in 0 .. MaxSpoiled /\ a.spoiled[Other(d)] \in 0 .. MaxSpoiled
    BY <1>1, Hands DEF Reader
<1> QED BY <1>1, <1>2 DEF Spoilt

LEMMA ReadySwap ==
    ASSUME NEW S, NEW d \in Hand, NEW j, NEW k
    PROVE  Ready(S, d, j, k) <=> Ready(S, Other(d), k, j)
BY Hands DEF Ready

LEMMA OfNothing ==
    ASSUME NEW idle
    PROVE  Outcomes(<<>>, idle) = {idle}
<1> DEFINE ls == <<>>
<1>1. Len(ls) = 0 /\ Len(ls) \in 0 .. 4
    OBVIOUS
<1> HIDE DEF ls
<1>2. Outcomes(ls, idle) = {idle}
    BY <1>1, OutcomesAre, Zenon
<1> QED BY <1>2 DEF ls

LEMMA OfOne ==
    ASSUME NEW idle, NEW x
    PROVE  Outcomes(<<x>>, idle) = After({idle}, x)
<1> DEFINE ls == <<x>>
<1>1. Len(ls) = 1 /\ Len(ls) \in 0 .. 4 /\ ls[1] = x
    OBVIOUS
<1> HIDE DEF ls
<1>2. Outcomes(ls, idle) = After({idle}, x)
  <2>1. Outcomes(ls, idle) =
            After({idle}, ls[1])
      BY <1>1, OutcomesAre, Zenon
  <2> QED BY <1>1, <2>1, Zenon
<1> QED BY <1>2 DEF ls

LEMMA OfTwo ==
    ASSUME NEW idle, NEW x, NEW y
    PROVE  Outcomes(<<x, y>>, idle) = After(After({idle}, x), y)
<1> DEFINE ls == <<x, y>>
<1>1. Len(ls) = 2 /\ Len(ls) \in 0 .. 4 /\ ls[1] = x /\ ls[2] = y
    OBVIOUS
<1> HIDE DEF ls
<1>2. Outcomes(ls, idle) = After(After({idle}, x), y)
  <2>1. Outcomes(ls, idle) =
            After(After({idle}, ls[1]), ls[2])
      BY <1>1, OutcomesAre, Zenon
  <2> QED BY <1>1, <2>1, Zenon
<1> QED BY <1>2 DEF ls

LEMMA OfThree ==
    ASSUME NEW idle, NEW x, NEW y, NEW z
    PROVE  Outcomes(<<x, y, z>>, idle) = After(After(After({idle}, x), y), z)
<1> DEFINE ls == <<x, y, z>>
<1>1. Len(ls) = 3 /\ Len(ls) \in 0 .. 4 /\ ls[1] = x /\ ls[2] = y /\ ls[3] = z
    OBVIOUS
<1> HIDE DEF ls
<1>2. Outcomes(ls, idle) = After(After(After({idle}, x), y), z)
  <2>1. Outcomes(ls, idle) =
            After(After(After({idle}, ls[1]), ls[2]), ls[3])
      BY <1>1, OutcomesAre, Zenon
  <2> QED BY <1>1, <2>1, Zenon
<1> QED BY <1>2 DEF ls

LEMMA OfFour ==
    ASSUME NEW idle, NEW x, NEW y, NEW z, NEW w
    PROVE  Outcomes(<<x, y, z, w>>, idle) = After(After(After(After({idle}, x), y), z), w)
<1> DEFINE ls == <<x, y, z, w>>
<1>1. Len(ls) = 4 /\ Len(ls) \in 0 .. 4 /\ ls[1] = x /\ ls[2] = y /\ ls[3] = z /\ ls[4] = w
    OBVIOUS
<1> HIDE DEF ls
<1>2. Outcomes(ls, idle) = After(After(After(After({idle}, x), y), z), w)
  <2>1. Outcomes(ls, idle) =
            After(After(After(After({idle}, ls[1]), ls[2]), ls[3]), ls[4])
      BY <1>1, OutcomesAre, Zenon
  <2> QED BY <1>1, <2>1, Zenon
<1> QED BY <1>2 DEF ls

LEMMA ReadyAfterShorts ==
    ASSUME NEW idle, NEW d \in Hand, NEW j \in Nat, NEW k \in Nat, MaxSpoiled \in Nat,
           Ready({idle}, d, j, k), NEW x, NEW y, Short(x, d), Short(y, d)
    PROVE  /\ Ready(Outcomes(<<x>>, idle), d, j + 1, k)
           /\ Ready(Outcomes(<<x, y>>, idle), d, j + 2, k)
<1>1. Ready(After({idle}, x), d, j + 1, k)
    BY ReadyShort
<1>2. Ready(After(After({idle}, x), y), d, (j + 1) + 1, k)
    BY <1>1, ReadyShort
<1>3. j + 1 \in Nat /\ (j + 1) + 1 = j + 2
    OBVIOUS
<1> QED BY <1>1, <1>2, <1>3, OfOne, OfTwo

LEMMA ReadyAfterSymbol ==
    ASSUME NEW idle, NEW d \in Hand, NEW j \in Nat, NEW k \in Nat, MaxSpoiled \in Nat,
           Ready({idle}, d, j, k), NEW s, Symbol(s, d)
    PROVE  Ready(Outcomes(<<s>>, idle), d, 0, k)
BY ReadySymbol, OfOne

LEMMA ReadyAfterPulse ==
    ASSUME NEW idle, NEW d \in Hand, NEW j \in Nat, NEW k \in Nat, MaxSpoiled \in Nat,
           Ready({idle}, d, j, k), NEW s, NEW p, Symbol(s, d), Lasting(p, d), p.ms = s.ms
    PROVE  /\ j >= MaxSpoiled => Ready(Outcomes(<<s, p>>, idle), d, 1, k)
           /\ j + 1 >= MaxSpoiled =>
                \A e : Short(e, d) => Ready(Outcomes(<<e, s, p>>, idle), d, 1, k)
<1>1. ASSUME NEW S, NEW i \in Nat, Ready(S, d, i, k), i >= MaxSpoiled
      PROVE  Ready(After(After(S, s), p), d, 1, k)
  <2>1. Ready(After(S, s), d, 0, k) /\ \A b \in After(S, s) : Lasts(b, d, p.ms)
      BY <1>1, ReadySymbol
  <2> QED BY <2>1, ReadyPulse
<1>2. \A e : Short(e, d) => Ready(After({idle}, e), d, j + 1, k)
    BY ReadyShort
<1>3. j + 1 \in Nat
    OBVIOUS
<1> QED BY <1>1, <1>2, <1>3, OfTwo, OfThree

LEMMA ReadyAfterStatus ==
    ASSUME NEW idle, NEW j \in Nat, NEW k \in Nat, MaxSpoiled \in Nat,
           Ready({idle}, "RX", j, k)
    PROVE  Ready(Outcomes(Status, idle), "RX", j + 2, k + 2)
<1> DEFINE x == Line("thresholds", "none", 0)
           y == KeyLine("thresholds", "none", 0)
           z == Line("counters", "none", 0)
           w == KeyLine("counters", "none", 0)
<1>1. Short(x, "RX") /\ Short(y, "TX") /\ Short(z, "RX") /\ Short(w, "TX")
    BY DEF Short, IsLine, Length, Line, KeyLine, Hand
<1>2. Outcomes(Status, idle) = After(After(After(After({idle}, x), y), z), w)
    BY OfFour DEF Status
<1> HIDE DEF x, y, z, w
<1> DEFINE S1 == After({idle}, x)
           S2 == After(S1, y)
           S3 == After(S2, z)
           S4 == After(S3, w)
<1>3. Ready(S1, "RX", j + 1, k) /\ j + 1 \in Nat
  <2>1. "RX" \in Hand
      BY TwoHands
  <2>2. Ready(S1, "RX", j + 1, k)
      BY <1>1, <2>1, ReadyShort
  <2>3. j + 1 \in Nat
      OBVIOUS
  <2> HIDE DEF S1
  <2> QED BY <2>2, <2>3
<1>4. Ready(S2, "RX", j + 1, k + 1) /\ k + 1 \in Nat
  <2> HIDE DEF S1
  <2>1. Ready(S1, "TX", k, j + 1)
      BY <1>3, TwoHands, ReadySwap
  <2>2. Ready(S2, "TX", k + 1, j + 1)
      BY <1>1, <1>3, <2>1, TwoHands, ReadyShort
  <2> HIDE DEF S2
  <2> QED BY <2>2, TwoHands, ReadySwap
<1>5. Ready(S3, "RX", (j + 1) + 1, k + 1) /\ (j + 1) + 1 \in Nat
  <2> HIDE DEF S1, S2
  <2>1. "RX" \in Hand
      BY TwoHands
  <2> QED BY <1>1, <1>3, <1>4, <2>1, ReadyShort
<1>6. Ready(S4, "RX", (j + 1) + 1, (k + 1) + 1)
  <2> HIDE DEF S3
  <2>1. Ready(S3, "TX", k + 1, (j + 1) + 1)
      BY <1>5, TwoHands, ReadySwap
  <2>2. Ready(S4, "TX", (k + 1) + 1, (j + 1) + 1)
      BY <1>1, <1>4, <1>5, <2>1, TwoHands, ReadyShort
  <2> HIDE DEF S4
  <2> QED BY <2>2, TwoHands, ReadySwap
<1>7. (j + 1) + 1 = j + 2 /\ (k + 1) + 1 = k + 2
    OBVIOUS
<1> QED BY <1>2, <1>6, <1>7

-----------------------------------------------------------------------------
(* The two theorems about the adapter.                                     *)

HeldInv ==
    /\ pending \in [Hand -> Held] /\ own \in [Hand -> Length]
    /\ spoiled \in [Hand -> 0 .. MaxSpoiled]

TallyInv == HeldInv /\ owing = Count(pending)

\* The lines of one step: what the board decodes of one hand, or its status.
Shorts(lines, d) ==
    \/ \E x : lines = <<x>> /\ Short(x, d)
    \/ \E x, y : lines = <<x, y>> /\ Short(x, d) /\ Short(y, d)
Symbols(lines, d) == \E s : lines = <<s>> /\ Symbol(s, d)
Pulses(lines, d) ==
    \E s, p : lines = <<s, p>> /\ Symbol(s, d) /\ Lasting(p, d) /\ p.ms = s.ms
EdgePulses(lines, d) ==
    \E e, s, p : /\ lines = <<e, s, p>>
                 /\ Short(e, d) /\ Symbol(s, d) /\ Lasting(p, d) /\ p.ms = s.ms

LEMMA LinesOfAHand ==
    ASSUME NEW lines, NEW d,
           \/ lines = <<>> \/ Shorts(lines, d) \/ Symbols(lines, d)
           \/ Pulses(lines, d) \/ EdgePulses(lines, d)
    PROVE  AreLines(lines)
<1>1. CASE lines = <<>>
    BY <1>1 DEF AreLines
<1>2. ASSUME NEW x, lines = <<x>>, IsLine(x) PROVE AreLines(lines)
  <2>1. Len(<<x>>) = 1 /\ <<x>>[1] = x
      OBVIOUS
  <2> QED BY <1>2, <2>1 DEF AreLines
<1>3. ASSUME NEW x, NEW y, lines = <<x, y>>, IsLine(x), IsLine(y) PROVE AreLines(lines)
  <2>1. Len(<<x, y>>) = 2 /\ <<x, y>>[1] = x /\ <<x, y>>[2] = y
      OBVIOUS
  <2>2. \A i \in 1 .. 2 : i = 1 \/ i = 2
      OBVIOUS
  <2> QED BY <1>3, <2>1, <2>2 DEF AreLines
<1>4. ASSUME NEW x, NEW y, NEW z, lines = <<x, y, z>>, IsLine(x), IsLine(y), IsLine(z)
      PROVE  AreLines(lines)
  <2>1. Len(<<x, y, z>>) = 3 /\ <<x, y, z>>[1] = x /\ <<x, y, z>>[2] = y /\ <<x, y, z>>[3] = z
      OBVIOUS
  <2>2. \A i \in 1 .. 3 : i = 1 \/ i = 2 \/ i = 3
      OBVIOUS
  <2> QED BY <1>4, <2>1, <2>2 DEF AreLines
<1> QED BY <1>1, <1>2, <1>3, <1>4
        DEF Shorts, Symbols, Pulses, EdgePulses, Short, Symbol, Lasting

LEMMA StatusIsLines == AreLines(Status)
<1> DEFINE x == Line("thresholds", "none", 0)
           y == KeyLine("thresholds", "none", 0)
           z == Line("counters", "none", 0)
           w == KeyLine("counters", "none", 0)
           ls == <<x, y, z, w>>
<1>1. IsLine(x) /\ IsLine(y) /\ IsLine(z) /\ IsLine(w)
    BY DEF IsLine, Length, Line, KeyLine, Hand
<1>2. Status = ls
    BY DEF Status
<1> HIDE DEF x, y, z, w
<1>3. Len(ls) = 4 /\ ls[1] = x /\ ls[2] = y /\ ls[3] = z /\ ls[4] = w
    OBVIOUS
<1>4. \A i \in 1 .. 4 : i = 1 \/ i = 2 \/ i = 3 \/ i = 4
    OBVIOUS
<1> HIDE DEF ls
<1> QED BY <1>1, <1>2, <1>3, <1>4 DEF AreLines

LEMMA BoardLines ==
    /\ Rise => \/ (~verbose \/ ~fell) /\ printed' = <<>>
               \/ verbose /\ fell /\ Shorts(printed', "RX")
    /\ Fall => \/ in_pulse /\ fell' /\ verbose /\ Pulses(printed', "RX")
               \/ in_pulse /\ fell' /\ ~verbose /\ Symbols(printed', "RX")
               \/ /\ in_pulse /\ UNCHANGED fell
                  /\ (~verbose /\ printed' = <<>>) \/ Shorts(printed', "RX")
               \/ ~in_pulse /\ printed' = <<>> /\ UNCHANGED fell
    /\ CloseLetter => Shorts(printed', "RX")
    /\ CloseWord => Shorts(printed', "RX")
    /\ NothingPrinted => printed' = <<>>
<1>1. ASSUME NEW kind \in {"gap", "filtered", "letter", "unknown", "word"}, NEW value, NEW ms \in Durations
      PROVE  Short(Line(kind, value, ms), "RX")
    BY DEF Short, IsLine, Length, Line, Hand
<1>2. ASSUME NEW s \in {".", "-"}, NEW ms \in Durations
      PROVE  Symbol(Line("symbol", s, ms), "RX")
    BY DEF Symbol, IsLine, Length, Mark, Line, Hand
<1>3. ASSUME NEW s, NEW ms \in Durations
      PROVE  /\ Lasting(Line("pulse", "none", ms), "RX")
             /\ Line("pulse", "none", ms).ms = Line("symbol", s, ms).ms
    BY DEF Lasting, IsLine, Length, Line, Hand
<1>4. \A line : /\ verbose => IfVerbose(line) = <<line>>
                /\ ~verbose => IfVerbose(line) = <<>>
    BY DEF IfVerbose
<1>5. ASSUME Rise
      PROVE  \/ (~verbose \/ ~fell) /\ printed' = <<>>
             \/ verbose /\ fell /\ Shorts(printed', "RX")
    BY <1>1, <1>4, <1>5 DEF Rise, Shorts
<1>6. ASSUME Fall
      PROVE  \/ in_pulse /\ fell' /\ verbose /\ Pulses(printed', "RX")
             \/ in_pulse /\ fell' /\ ~verbose /\ Symbols(printed', "RX")
             \/ /\ in_pulse /\ UNCHANGED fell
                /\ (~verbose /\ printed' = <<>>) \/ Shorts(printed', "RX")
             \/ ~in_pulse /\ printed' = <<>> /\ UNCHANGED fell
  <2>1. ASSUME NEW s \in {".", "-"}, NEW ms \in Durations,
               printed' = <<Line("symbol", s, ms)>>
                            \o IfVerbose(Line("pulse", "none", ms))
        PROVE  /\ verbose => Pulses(printed', "RX")
               /\ ~verbose => Symbols(printed', "RX")
    <3> DEFINE x == Line("symbol", s, ms)
               y == Line("pulse", "none", ms)
    <3>1. Symbol(x, "RX") /\ Lasting(y, "RX") /\ y.ms = x.ms
        BY <1>2, <1>3
    <3> HIDE DEF x, y
    <3>2. /\ verbose => printed' = <<x, y>>
          /\ ~verbose => printed' = <<x>>
        BY <1>4, <2>1, Joined DEF x, y
    <3> QED BY <3>1, <3>2 DEF Pulses, Symbols
  <2>2. ASSUME NEW ms \in Durations,
               printed' = IfVerbose(Line("filtered", "none", ms))
        PROVE  (~verbose /\ printed' = <<>>) \/ Shorts(printed', "RX")
      BY <1>1, <1>4, <2>2 DEF Shorts
  <2> QED BY <1>6, <2>1, <2>2 DEF Fall
<1>7. ASSUME CloseLetter PROVE Shorts(printed', "RX")
  <2>1. PICK kind \in {"letter", "unknown"}, code \in Codes, ms \in Durations :
          \/ printed' = <<Line(kind, code, ms)>>
          \/ printed' = <<Line(kind, code, ms), WordLine(ms)>>
      BY <1>7 DEF CloseLetter
  <2>2. Short(Line(kind, code, ms), "RX") /\ Short(WordLine(ms), "RX")
      BY <1>1 DEF WordLine
  <2> QED BY <2>1, <2>2 DEF Shorts
<1>8. ASSUME CloseWord PROVE Shorts(printed', "RX")
  <2>1. PICK ms \in Durations : printed' = <<WordLine(ms)>>
      BY <1>8 DEF CloseWord
  <2>2. Short(WordLine(ms), "RX")
      BY <1>1 DEF WordLine
  <2> QED BY <2>1, <2>2 DEF Shorts
<1> QED BY <1>5, <1>6, <1>7, <1>8 DEF NothingPrinted

LEMMA KeyLines ==
    ASSUME Echo
    PROVE  \/ Shorts(printed', "TX")
           \/ verbose /\ EdgePulses(printed', "TX")
           \/ ~verbose /\ (printed' = <<>> \/ Symbols(printed', "TX"))
<1> DEFINE e == KeyLine("edge", "none", 0)
<1>1. ASSUME NEW kind \in {"edge", "gap", "filtered", "letter", "unknown", "word"},
             NEW value, NEW ms \in Length
      PROVE  Short(KeyLine(kind, value, ms), "TX")
    BY DEF Short, IsLine, Line, KeyLine, Hand
<1>2. ASSUME NEW s \in {".", "-"}, NEW ms \in Durations
      PROVE  Symbol(KeyLine("symbol", s, ms), "TX")
    BY DEF Symbol, IsLine, Length, Mark, Line, KeyLine, Hand
<1>3. ASSUME NEW s, NEW ms \in Durations
      PROVE  /\ Lasting(KeyLine("pulse", "none", ms), "TX")
             /\ KeyLine("pulse", "none", ms).ms = KeyLine("symbol", s, ms).ms
    BY DEF Lasting, IsLine, Length, Line, KeyLine, Hand
<1>4. \A line : /\ verbose => IfVerbose(line) = <<line>>
                /\ ~verbose => IfVerbose(line) = <<>>
    BY DEF IfVerbose
<1>5. Short(e, "TX")
    BY <1>1 DEF Length
<1>6. Durations \subseteq Length
    BY DEF Length
<1>7. /\ verbose => KeyEdge = <<e>>
      /\ ~verbose => KeyEdge = <<>>
    BY <1>4 DEF KeyEdge
<1> HIDE DEF e
<1>8. CASE printed' = KeyEdge
    BY <1>5, <1>7, <1>8 DEF Shorts
<1>9. ASSUME NEW measured \in {"gap", "filtered"}, NEW ms \in Durations,
             printed' = KeyEdge
                                \o IfVerbose(KeyLine(measured, "none", ms))
      PROVE  Shorts(printed', "TX") \/ (~verbose /\ printed' = <<>>)
  <2> DEFINE x == KeyLine(measured, "none", ms)
  <2>1. Short(x, "TX")
      BY <1>1, <1>6
  <2> HIDE DEF x
  <2>2. /\ verbose => printed' = <<e, x>>
        /\ ~verbose => printed' = <<>>
      BY <1>4, <1>7, <1>9, Joined DEF x
  <2> QED BY <1>5, <2>1, <2>2 DEF Shorts
<1>10. ASSUME NEW s \in {".", "-"}, NEW ms \in Durations,
              printed' = KeyEdge \o <<KeyLine("symbol", s, ms)>>
                                 \o IfVerbose(KeyLine("pulse", "none", ms))
       PROVE  /\ verbose => EdgePulses(printed', "TX")
              /\ ~verbose => Symbols(printed', "TX")
  <2> DEFINE x == KeyLine("symbol", s, ms)
             y == KeyLine("pulse", "none", ms)
  <2>1. Symbol(x, "TX") /\ Lasting(y, "TX") /\ y.ms = x.ms
      BY <1>2, <1>3
  <2>2. printed' = KeyEdge \o <<x>> \o IfVerbose(y)
      BY <1>10
  <2> HIDE DEF x, y
  <2>3. /\ <<e>> \o <<x>> = <<e, x>> /\ <<e, x>> \o <<y>> = <<e, x, y>>
        /\ <<>> \o <<x>> = <<x>> /\ <<x>> \o <<>> = <<x>>
      BY Joined
  <2>4. /\ verbose => printed' = <<e, x, y>>
        /\ ~verbose => printed' = <<x>>
      BY <1>4, <1>7, <2>2, <2>3
  <2> QED BY <1>5, <2>1, <2>4 DEF EdgePulses, Symbols
<1>11. ASSUME NEW kind \in {"letter", "unknown"}, NEW code, NEW ms \in Durations,
              \/ printed' = <<KeyLine(kind, code, ms)>>
              \/ printed' = <<KeyLine(kind, code, ms), KeyLine("word", "none", ms)>>
       PROVE  Shorts(printed', "TX")
  <2>1. /\ Short(KeyLine(kind, code, ms), "TX")
        /\ Short(KeyLine("word", "none", ms), "TX")
      BY <1>1, <1>6
  <2> QED BY <1>11, <2>1 DEF Shorts
<1>12. ASSUME NEW ms \in Durations, printed' = <<KeyLine("word", "none", ms)>>
       PROVE  Shorts(printed', "TX")
  <2>1. Short(KeyLine("word", "none", ms), "TX")
      BY <1>1, <1>6
  <2> QED BY <1>12, <2>1 DEF Shorts
<1> QED BY <1>8, <1>9, <1>10, <1>11, <1>12 DEF Echo

LEMMA IdleIs ==
    ASSUME HeldInv, MaxSpoiled \in Nat
    PROVE  /\ Idle \in Reader
           /\ Tally(Idle) = 0 - Count(pending)
<1>1. <<>> \in Seq(Report) /\ Len(<<>>) = 0
    OBVIOUS
<1>2. Idle \in Reader
    BY <1>1 DEF HeldInv, Idle, Reader
<1>3. Count(pending) \in Nat
    BY <1>2, CountIs DEF Count
<1>4. Tally(Idle) = 0 - (0 + 0 + Count(pending))
    BY <1>1 DEF Idle, Tally
<1> QED BY <1>2, <1>3, <1>4

LEMMA FedTally ==
    ASSUME NEW lines, AreLines(lines), MaxSpoiled \in Nat, TallyInv, Feed(lines)
    PROVE  TallyInv'
<1>1. PICK a \in Outcomes(lines, Idle) :
        /\ pending' = a.pending /\ own' = a.own /\ spoiled' = a.spoiled
        /\ owing' = owing + a.read - Len(a.events) - a.dropped
    BY DEF Feed
<1>2. Idle \in Reader /\ Tally(Idle) = 0 - Count(pending)
    BY IdleIs DEF TallyInv
<1>3. a \in Reader /\ Tally(a) = 0 - Count(pending)
    BY <1>1, <1>2, OutcomesKeepTally DEF Tallied
<1>4. HeldInv'
    BY <1>1, <1>3 DEF HeldInv, Reader
<1> DEFINE r == a.read
           l == Len(a.events)
           d == a.dropped
           k == Count(a.pending)
           k0 == Count(pending)
<1>5. r \in Nat /\ l \in Nat /\ d \in Int /\ k \in Nat
    BY <1>3, CountIs
<1>6. k0 \in Nat
    BY DEF Count
<1>7. r - (l + d + k) = 0 - k0
    BY <1>3 DEF Tally
<1>8. owing = k0 /\ owing' = owing + r - l - d
    BY <1>1 DEF TallyInv
<1>9. Count(pending') = k
    BY <1>1
<1> HIDE DEF r, l, d, k, k0
<1>10. owing' = k
    BY <1>5, <1>6, <1>7, <1>8
<1>11. owing' = Count(pending')
    BY <1>9, <1>10
<1> QED BY <1>4, <1>11 DEF TallyInv

LEMMA LinesKeepTally ==
    ASSUME MaxSpoiled \in Nat, TallyInv, Seen(LinesNext) \/ Echo \/ Answer
    PROVE  TallyInv'
<1>1. CASE Seen(LinesNext)
  <2>1. LinesNext /\ Feed(printed')
      BY <1>1 DEF Seen
  <2>2. \/ printed' = <<>> \/ Shorts(printed', "RX") \/ Symbols(printed', "RX")
        \/ Pulses(printed', "RX")
      BY <2>1, BoardLines DEF LinesNext
  <2>3. AreLines(printed')
      BY <2>2, LinesOfAHand
  <2> QED BY <2>1, <2>3, FedTally
<1>2. CASE Echo
  <2>1. \/ printed' = <<>> \/ Shorts(printed', "TX") \/ Symbols(printed', "TX")
        \/ EdgePulses(printed', "TX")
      BY <1>2, KeyLines
  <2>2. AreLines(printed')
      BY <2>1, LinesOfAHand
  <2> QED BY <1>2, <2>2, FedTally DEF Echo
<1>3. CASE Answer
  <2>1. AreLines(printed')
      BY <1>3, StatusIsLines DEF Answer
  <2> QED BY <1>3, <2>1, FedTally DEF Answer
<1> QED BY <1>1, <1>2, <1>3

\* What flush lets go of goes without a duration.
LEMMA Flushed ==
    ASSUME HeldInv, MaxSpoiled \in Nat, Flush
    PROVE  /\ HeldInv'
           /\ \A d \in Hand : pending'[d] = NoSymbol
           /\ OwnOrNone(reported')
           /\ owing = Count(pending) => owing' = 0
<1> DEFINE c == Release(Idle, "RX", NoMs)
           a == Release(c, "TX", NoMs)
<1>1. Idle \in Reader /\ Tally(Idle) = 0 - Count(pending)
    BY IdleIs
<1>2. "RX" \in Hand /\ "TX" \in Hand /\ NoMs \in Length
    BY TwoHands DEF Length
<1>3. /\ pending' = a.pending /\ own' = a.own /\ reported' = a.events
      /\ owing' = owing - Len(a.events) /\ UNCHANGED spoiled
    BY DEF Flush
<1>4. c \in Reader /\ Released(Idle, "RX", NoMs, c)
  <2> HIDE DEF a
  <2> QED BY <1>1, <1>2, ReleaseIs
<1> HIDE DEF c
<1>5. a \in Reader /\ Released(c, "TX", NoMs, a)
    BY <1>2, <1>4, ReleaseIs
<1> HIDE DEF a
<1>6. HeldInv'
    BY <1>3, <1>5 DEF HeldInv, Reader
<1>7. a.pending["TX"] = NoSymbol /\ a.pending["RX"] = NoSymbol
    BY <1>4, <1>5, TwoHands DEF Released, SameButFor
<1>8. \A d \in Hand : pending'[d] = NoSymbol
    BY <1>3, <1>7, TwoHands
<1>9. OwnOrNone(Idle.events)
  <2>1. Idle.events = <<>>
      BY DEF Idle
  <2> QED BY <2>1 DEF OwnOrNone
<1>10. OwnOrNone(c.events)
    BY <1>1, <1>2, <1>4, <1>9, ReleaseIsOwn
<1>11. OwnOrNone(a.events)
    BY <1>2, <1>4, <1>5, <1>10, ReleaseIsOwn
<1>12. ASSUME owing = Count(pending) PROVE owing' = 0
  <2>1. Len(c.events) + Count(c.pending) = Len(Idle.events) + Count(Idle.pending)
      BY <1>1, <1>2, <1>4, ReleaseKeepsTally
  <2>2. Len(a.events) + Count(a.pending) = Len(c.events) + Count(c.pending)
      BY <1>2, <1>4, <1>5, ReleaseKeepsTally
  <2>3. Idle.events = <<>> /\ Idle.pending = pending
      BY DEF Idle
  <2>4. Count(a.pending) = 0
      BY <1>7 DEF Count
  <2>5. Len(a.events) \in Nat /\ Len(c.events) \in Nat /\ Count(c.pending) \in Nat
      BY <1>4, <1>5, CountIs
  <2>6. Count(pending) \in Nat /\ Len(<<>>) = 0
      BY DEF Count
  <2> DEFINE l == Len(a.events)
             k == Count(pending)
             m == Len(c.events) + Count(c.pending)
  <2>7. l + 0 = m /\ m = 0 + k /\ l \in Nat /\ k \in Nat /\ m \in Nat
      BY <2>1, <2>2, <2>3, <2>4, <2>5, <2>6
  <2>8. owing = k /\ owing' = owing - l
      BY <1>3, <1>12
  <2> HIDE DEF l, k, m
  <2> QED BY <2>7, <2>8
<1> QED BY <1>3, <1>6, <1>8, <1>11, <1>12

LEMMA CountIsCardinality ==
    ASSUME NEW p
    PROVE  Cardinality({d \in Hand : p[d] # NoSymbol}) = Count(p)
<1> DEFINE D == {d \in Hand : p[d] # NoSymbol}
<1>1. \A x : Cardinality({x}) = 1
    BY FS_Singleton
<1>2. Cardinality({}) = 0
    BY FS_EmptySet
<1>3. Cardinality({"RX", "TX"}) = 2
  <2>1. {"RX", "TX"} = {"RX"} \cup {"TX"} /\ IsFiniteSet({"RX"}) /\ ~("TX" \in {"RX"})
      BY FS_Singleton
  <2>2. Cardinality({"RX"} \cup {"TX"}) = Cardinality({"RX"}) + 1
      BY <2>1, FS_AddElement
  <2> QED BY <1>1, <2>1, <2>2
<1>4. CASE p["RX"] = NoSymbol /\ p["TX"] = NoSymbol
  <2>1. D = {}
      BY <1>4, TwoHands
  <2> QED BY <1>2, <1>4, <2>1 DEF Count
<1>5. CASE p["RX"] = NoSymbol /\ p["TX"] # NoSymbol
  <2>1. D = {"TX"}
      BY <1>5, TwoHands
  <2> QED BY <1>1, <1>5, <2>1 DEF Count
<1>6. CASE p["RX"] # NoSymbol /\ p["TX"] = NoSymbol
  <2>1. D = {"RX"}
      BY <1>6, TwoHands
  <2> QED BY <1>1, <1>6, <2>1 DEF Count
<1>7. CASE p["RX"] # NoSymbol /\ p["TX"] # NoSymbol
  <2>1. D = {"RX", "TX"}
      BY <1>7, TwoHands
  <2> QED BY <1>3, <1>7, <2>1 DEF Count
<1> QED BY <1>4, <1>5, <1>6, <1>7

\* SymbolsAreReportedOrHeld: whatever lines are lost or garbled, every symbol the
\* adapter read is reported or still held, unless it went with an unusable line.
THEOREM SymbolsAreNotLost == Spec => []SymbolsAreReportedOrHeld
<1>1. Init => TallyInv
  <2> SUFFICES ASSUME Init PROVE TallyInv
      OBVIOUS
  <2>1. /\ pending = [d \in Hand |-> NoSymbol]
        /\ own = [d \in Hand |-> NoMs]
        /\ spoiled = [d \in Hand |-> 0] /\ owing = 0
      BY DEF Init
  <2>2. HeldInv
      BY <2>1, SketchAssumption DEF HeldInv, Held, Length
  <2>3. Count(pending) = 0
      BY <2>1, TwoHands DEF Count
  <2> QED BY <2>1, <2>2, <2>3 DEF TallyInv
<1>2. TallyInv /\ [Next]_vars => TallyInv'
  <2> SUFFICES ASSUME TallyInv, [Next]_vars PROVE TallyInv'
      OBVIOUS
  <2>1. CASE Seen(LinesNext) \/ Echo \/ Answer
      BY <2>1, LinesKeepTally, SketchAssumption
  <2>2. CASE Flush
    <3>1. HeldInv' /\ owing' = 0 /\ \A d \in Hand : pending'[d] = NoSymbol
        BY <2>2, Flushed, SketchAssumption DEF TallyInv
    <3>2. Count(pending') = 0
        BY <3>1, TwoHands DEF Count
    <3> QED BY <3>1, <3>2 DEF TallyInv
  <2>3. CASE UNCHANGED vars
    <3>1. UNCHANGED <<pending, own, spoiled, owing>>
        BY <2>3 DEF vars, lineVars, adapter, adapterHistory
    <3> QED BY <3>1 DEF TallyInv, HeldInv, Count
  <2> QED BY <2>1, <2>2, <2>3 DEF Next
<1>3. TallyInv => SymbolsAreReportedOrHeld
  <2>1. Cardinality({d \in Hand : pending[d] # NoSymbol}) = Count(pending)
      BY CountIsCardinality
  <2>2. TallyInv => owing = Count(pending)
      BY DEF TallyInv
  <2>3. SymbolsAreReportedOrHeld <=>
            owing = Cardinality({d \in Hand : pending[d] # NoSymbol})
      BY Zenon DEF SymbolsAreReportedOrHeld
  <2> DEFINE m == Cardinality({d \in Hand : pending[d] # NoSymbol})
             n == Count(pending)
  <2>4. m = n /\ (TallyInv => owing = n) /\ (SymbolsAreReportedOrHeld <=> owing = m)
      BY <2>1, <2>2, <2>3, Zenon
  <2> HIDE DEF m, n
  <2> QED BY <2>4
<1> QED BY <1>1, <1>2, <1>3, PTL DEF Spec

\* How many lines about the other hand were spoiled since it took hold of what it
\* holds: if the wire rose since, one more; and before its first symbol it holds none.
Needed(spoke, loud, high) ==
    IF ~spoke THEN 3 ELSE IF ~loud THEN 0 ELSE IF high THEN 2 ELSE 1
NeededOfKey(loud) == IF loud THEN 1 ELSE 0

\* What hand d holds, k lines spoiled since.
Old(p, sp, d, k) == p[d] = NoSymbol \/ sp[d] >= k

BoardInv ==
    /\ level \in {0, 1} /\ in_pulse \in BOOLEAN /\ fell \in BOOLEAN /\ verbose \in BOOLEAN
    /\ in_pulse => level = 1

OwnInv ==
    /\ HeldInv /\ BoardInv
    /\ OwnOrNone(reported)
    /\ Old(pending, spoiled, "RX", Needed(fell, verbose, in_pulse))
    /\ Old(pending, spoiled, "TX", NeededOfKey(verbose))

LEMMA NeededIs ==
    ASSUME NEW spoke \in BOOLEAN, NEW loud \in BOOLEAN, NEW high \in BOOLEAN
    PROVE  Needed(spoke, loud, high) \in Nat /\ NeededOfKey(loud) \in Nat
BY DEF Needed, NeededOfKey

LEMMA ReadyIdle ==
    ASSUME HeldInv, MaxSpoiled \in Nat, NEW j \in Nat, NEW k \in Nat,
           Old(pending, spoiled, "RX", j), Old(pending, spoiled, "TX", k)
    PROVE  Ready({Idle}, "RX", j, k) /\ Ready({Idle}, "TX", k, j)
<1>1. Idle \in Reader
    BY IdleIs
<1>2. /\ Idle.events = <<>> /\ Idle.pending = pending
      /\ Idle.spoiled = spoiled
    BY DEF Idle
<1>3. OwnOrNone(Idle.events)
    BY <1>2 DEF OwnOrNone
<1>4. Spoilt(Idle, "RX", j) /\ Spoilt(Idle, "TX", k)
    BY <1>2 DEF Old, Spoilt
<1> QED BY <1>1, <1>3, <1>4, TwoHands DEF Ready

\* What Feed leaves, if every outcome of the lines is ready.
LEMMA FedReady ==
    ASSUME NEW lines, NEW j, NEW k, Feed(lines),
           Ready(Outcomes(lines, Idle), "RX", j, k)
    PROVE  /\ HeldInv' /\ OwnOrNone(reported')
           /\ Old(pending', spoiled', "RX", j) /\ Old(pending', spoiled', "TX", k)
<1>1. PICK a \in Outcomes(lines, Idle) :
        /\ pending' = a.pending /\ own' = a.own /\ spoiled' = a.spoiled
        /\ reported' = a.events
    BY DEF Feed
<1>2. a \in Reader /\ OwnOrNone(a.events) /\ Spoilt(a, "RX", j) /\ Spoilt(a, "TX", k)
    BY <1>1, TwoHands DEF Ready
<1>3. HeldInv'
    BY <1>1, <1>2 DEF HeldInv, Reader
<1>4. OwnOrNone(reported')
    BY <1>1, <1>2
<1>5. Old(pending', spoiled', "RX", j) /\ Old(pending', spoiled', "TX", k)
    BY <1>1, <1>2 DEF Old, Spoilt
<1> QED BY <1>3, <1>4, <1>5

\* A line or two about a hand add to what it needs; a symbol and its duration reset it.
LEMMA ReadyAfterLines ==
    ASSUME NEW idle, NEW d \in Hand, NEW j \in Nat, NEW k \in Nat, MaxSpoiled \in Nat,
           Ready({idle}, d, j, k), NEW lines
    PROVE  /\ lines = <<>> => Ready(Outcomes(lines, idle), d, j, k)
           /\ Shorts(lines, d) => Ready(Outcomes(lines, idle), d, j + 1, k)
           /\ Symbols(lines, d) => Ready(Outcomes(lines, idle), d, 0, k)
           /\ Pulses(lines, d) /\ j >= MaxSpoiled =>
                Ready(Outcomes(lines, idle), d, 1, k)
           /\ EdgePulses(lines, d) /\ j + 1 >= MaxSpoiled =>
                Ready(Outcomes(lines, idle), d, 1, k)
<1>1. lines = <<>> => Ready(Outcomes(lines, idle), d, j, k)
    BY OfNothing
<1>2. ASSUME Shorts(lines, d) PROVE Ready(Outcomes(lines, idle), d, j + 1, k)
  <2>1. CASE \E x : lines = <<x>> /\ Short(x, d)
      BY <2>1, ReadyAfterShorts
  <2>2. CASE \E x, y : lines = <<x, y>> /\ Short(x, d) /\ Short(y, d)
    <3>1. Ready(Outcomes(lines, idle), d, j + 2, k)
        BY <2>2, ReadyAfterShorts
    <3>2. j + 2 \in Nat /\ j + 1 \in 0 .. j + 2 /\ k \in 0 .. k
        OBVIOUS
    <3> QED BY <3>1, <3>2, ReadyLess
  <2> QED BY <1>2, <2>1, <2>2 DEF Shorts
<1>3. Symbols(lines, d) => Ready(Outcomes(lines, idle), d, 0, k)
    BY ReadyAfterSymbol DEF Symbols
<1>4. ASSUME NEW s, NEW p, Symbol(s, d), Lasting(p, d), p.ms = s.ms, j >= MaxSpoiled
      PROVE  Ready(Outcomes(<<s, p>>, idle), d, 1, k)
    BY <1>4, ReadyAfterPulse
<1>5. ASSUME NEW e, NEW s, NEW p, Short(e, d), Symbol(s, d), Lasting(p, d), p.ms = s.ms,
             j + 1 >= MaxSpoiled
      PROVE  Ready(Outcomes(<<e, s, p>>, idle), d, 1, k)
    BY <1>5, ReadyAfterPulse
<1> QED BY <1>1, <1>2, <1>3, <1>4, <1>5 DEF Pulses, EdgePulses

LEMMA AirKeepsOwn ==
    ASSUME OwnInv, MaxSpoiled \in 0 .. 2, Seen(LinesNext)
    PROVE  OwnInv'
<1> DEFINE j0 == Needed(fell, verbose, in_pulse)
           k0 == NeededOfKey(verbose)
           all == Outcomes(printed', Idle)
<1>1. LinesNext /\ Feed(printed') /\ MaxSpoiled \in Nat
    BY DEF Seen
<1>2. HeldInv /\ BoardInv /\ Old(pending, spoiled, "RX", j0) /\ Old(pending, spoiled, "TX", k0)
    BY DEF OwnInv
<1>3. j0 \in Nat /\ k0 \in Nat
    BY <1>2, NeededIs DEF BoardInv
<1>4. Ready({Idle}, "RX", j0, k0)
  <2> HIDE DEF j0, k0
  <2> QED BY <1>1, <1>2, <1>3, ReadyIdle
<1>5. ASSUME NEW j1 \in Nat, Ready(all, "RX", j1, k0), BoardInv', UNCHANGED verbose,
             NEW n \in 0 .. j1, Needed(fell', verbose, in_pulse') = n
      PROVE  OwnInv'
  <2>1. Ready(all, "RX", n, k0)
    <3>1. k0 \in 0 .. k0 /\ "RX" \in Hand
        BY <1>3, TwoHands
    <3> HIDE DEF all, k0
    <3> QED BY <1>3, <1>5, <3>1, ReadyLess
  <2>2. /\ HeldInv' /\ OwnOrNone(reported')
        /\ Old(pending', spoiled', "RX", n) /\ Old(pending', spoiled', "TX", k0)
    <3> HIDE DEF k0
    <3> QED BY <1>1, <2>1, FedReady
  <2> QED BY <1>5, <2>2 DEF OwnInv
<1>6. /\ printed' = <<>> => Ready(all, "RX", j0, k0)
      /\ Shorts(printed', "RX") => Ready(all, "RX", j0 + 1, k0)
      /\ Symbols(printed', "RX") => Ready(all, "RX", 0, k0)
      /\ Pulses(printed', "RX") /\ j0 >= MaxSpoiled => Ready(all, "RX", 1, k0)
  <2>1. "RX" \in Hand
      BY TwoHands
  <2> HIDE DEF j0, k0
  <2> QED BY <1>1, <1>3, <1>4, <2>1, ReadyAfterLines
<1>7. /\ level \in {0, 1} /\ in_pulse \in BOOLEAN /\ fell \in BOOLEAN /\ verbose \in BOOLEAN
      /\ in_pulse => level = 1
    BY <1>2 DEF BoardInv
<1>8. /\ ~fell => j0 = 3
      /\ fell /\ ~verbose => j0 = 0
      /\ fell /\ verbose /\ in_pulse => j0 = 2
      /\ fell /\ verbose /\ ~in_pulse => j0 = 1
    BY DEF Needed
<1>9. \A spoke, high \in BOOLEAN :
        /\ ~spoke => Needed(spoke, verbose, high) = 3
        /\ spoke /\ ~verbose => Needed(spoke, verbose, high) = 0
        /\ spoke /\ verbose /\ high => Needed(spoke, verbose, high) = 2
        /\ spoke /\ verbose /\ ~high => Needed(spoke, verbose, high) = 1
    BY DEF Needed
<1>10. CASE Rise
  <2>1. /\ level = 0 /\ level' = 1 /\ in_pulse' = TRUE /\ UNCHANGED <<fell, verbose>>
        /\ ~in_pulse
      BY <1>7, <1>10 DEF Rise
  <2>2. BoardInv'
      BY <1>7, <2>1 DEF BoardInv
  <2>3. CASE (~verbose \/ ~fell) /\ printed' = <<>>
    <3>1. Needed(fell', verbose, in_pulse') = j0
        BY <1>7, <1>8, <1>9, <2>1, <2>3
    <3> HIDE DEF j0, k0, all
    <3> QED BY <1>3, <1>5, <1>6, <2>1, <2>2, <2>3, <3>1
  <2>4. CASE verbose /\ fell /\ Shorts(printed', "RX")
    <3>1. Needed(fell', verbose, in_pulse') = 2 /\ j0 = 1
        BY <1>7, <1>8, <1>9, <2>1, <2>4
    <3> HIDE DEF j0, k0, all
    <3>2. Ready(all, "RX", 2, k0) /\ 2 \in Nat /\ 2 \in 0 .. 2
        BY <1>6, <2>4, <3>1
    <3> QED BY <1>5, <2>1, <2>2, <3>1, <3>2
  <2> QED BY <1>10, <2>3, <2>4, BoardLines
<1>11. CASE Fall
  <2>1. /\ level' = 0 /\ in_pulse' = FALSE /\ UNCHANGED verbose
      BY <1>11 DEF Fall
  <2>2. fell' \in BOOLEAN
      BY <1>7, <1>11 DEF Fall
  <2>3. BoardInv'
      BY <1>7, <2>1, <2>2 DEF BoardInv
  <2>4. CASE in_pulse /\ fell' /\ verbose /\ Pulses(printed', "RX")
    <3>1. Needed(fell', verbose, in_pulse') = 1
        BY <2>1, <2>4 DEF Needed
    <3>2. j0 = 2 \/ j0 = 3
        BY <1>7, <1>8, <2>4
    <3> HIDE DEF j0, k0, all
    <3>3. j0 >= MaxSpoiled
        BY <3>2
    <3>4. Ready(all, "RX", 1, k0) /\ 1 \in Nat /\ 1 \in 0 .. 1
        BY <1>6, <2>4, <3>3
    <3> QED BY <1>5, <2>1, <2>3, <3>1, <3>4
  <2>5. CASE in_pulse /\ fell' /\ ~verbose /\ Symbols(printed', "RX")
    <3>1. Needed(fell', verbose, in_pulse') = 0
        BY <1>7, <1>9, <2>1, <2>2, <2>5
    <3> HIDE DEF j0, k0, all
    <3>2. Ready(all, "RX", 0, k0) /\ 0 \in Nat /\ 0 \in 0 .. 0
        BY <1>6, <2>5
    <3> QED BY <1>5, <2>1, <2>3, <3>1, <3>2
  <2>6. ASSUME UNCHANGED fell PROVE Needed(fell', verbose, in_pulse') \in 0 .. j0
    <3>1. /\ ~fell => Needed(fell', verbose, in_pulse') = 3
          /\ fell /\ ~verbose => Needed(fell', verbose, in_pulse') = 0
          /\ fell /\ verbose => Needed(fell', verbose, in_pulse') = 1
        BY <2>1, <2>6 DEF Needed
    <3> HIDE DEF j0
    <3> QED BY <1>7, <1>8, <3>1
  <2>7. CASE UNCHANGED fell /\ printed' = <<>>
    <3>1. Needed(fell', verbose, in_pulse') \in 0 .. j0
        BY <2>6, <2>7
    <3> HIDE DEF j0, k0, all
    <3> QED BY <1>3, <1>5, <1>6, <2>1, <2>3, <2>7, <3>1
  <2>8. CASE UNCHANGED fell /\ Shorts(printed', "RX")
    <3>1. Needed(fell', verbose, in_pulse') \in 0 .. j0
        BY <2>6, <2>8
    <3> HIDE DEF j0, k0, all
    <3>2. Needed(fell', verbose, in_pulse') \in 0 .. j0 + 1 /\ j0 + 1 \in Nat
        BY <1>3, <3>1
    <3> QED BY <1>5, <1>6, <2>1, <2>3, <2>8, <3>2
  <2> QED BY <1>11, <2>4, <2>5, <2>7, <2>8, BoardLines
<1>12. CASE CloseLetter \/ CloseWord
  <2>1. UNCHANGED <<level, in_pulse, fell, verbose>>
      BY <1>12 DEF CloseLetter, CloseWord
  <2>2. BoardInv' /\ Needed(fell', verbose, in_pulse') = j0
      BY <1>2, <2>1 DEF BoardInv
  <2>3. Shorts(printed', "RX")
      BY <1>12, BoardLines
  <2> HIDE DEF j0, k0, all
  <2>4. j0 \in 0 .. j0 + 1 /\ j0 + 1 \in Nat
      BY <1>3
  <2> QED BY <1>5, <1>6, <2>1, <2>2, <2>3, <2>4
<1>13. CASE NothingPrinted
  <2>1. UNCHANGED <<level, in_pulse, fell, verbose>> /\ printed' = <<>>
      BY <1>13 DEF NothingPrinted
  <2>2. BoardInv' /\ Needed(fell', verbose, in_pulse') = j0
      BY <1>2, <2>1 DEF BoardInv
  <2> HIDE DEF j0, k0, all
  <2>4. j0 \in 0 .. j0
      BY <1>3
  <2> QED BY <1>3, <1>5, <1>6, <2>1, <2>2, <2>4
<1> QED BY <1>1, <1>10, <1>11, <1>12, <1>13 DEF LinesNext

LEMMA KeyKeepsOwn ==
    ASSUME OwnInv, MaxSpoiled \in 0 .. 2, Echo
    PROVE  OwnInv'
<1> DEFINE j0 == Needed(fell, verbose, in_pulse)
           k0 == NeededOfKey(verbose)
           all == Outcomes(printed', Idle)
<1>1. /\ Feed(printed') /\ MaxSpoiled \in Nat
      /\ UNCHANGED <<level, in_pulse, fell, verbose>>
    BY DEF Echo, board
<1>2. HeldInv /\ BoardInv /\ Old(pending, spoiled, "RX", j0) /\ Old(pending, spoiled, "TX", k0)
    BY DEF OwnInv
<1>3. j0 \in Nat /\ k0 \in Nat
    BY <1>2, NeededIs DEF BoardInv
<1>4. Ready({Idle}, "TX", k0, j0)
  <2> HIDE DEF j0, k0
  <2> QED BY <1>1, <1>2, <1>3, ReadyIdle
<1>5. ASSUME NEW k1 \in Nat, Ready(all, "TX", k1, j0), k0 \in 0 .. k1
      PROVE  OwnInv'
  <2>1. Ready(all, "RX", j0, k0)
    <3>1. j0 \in 0 .. j0 /\ "TX" \in Hand
        BY <1>3, TwoHands
    <3> HIDE DEF all, k0, j0
    <3>2. Ready(all, "TX", k0, j0)
        BY <1>3, <1>5, <3>1, ReadyLess
    <3> QED BY <3>1, <3>2, TwoHands, ReadySwap
  <2>2. /\ HeldInv' /\ OwnOrNone(reported')
        /\ Old(pending', spoiled', "RX", j0) /\ Old(pending', spoiled', "TX", k0)
    <3> HIDE DEF k0, j0
    <3> QED BY <1>1, <2>1, FedReady
  <2>3. BoardInv' /\ Needed(fell', verbose', in_pulse') = j0 /\ NeededOfKey(verbose') = k0
      BY <1>1, <1>2 DEF BoardInv
  <2> HIDE DEF k0, j0
  <2> QED BY <2>2, <2>3 DEF OwnInv
<1>6. /\ printed' = <<>> => Ready(all, "TX", k0, j0)
      /\ Shorts(printed', "TX") => Ready(all, "TX", k0 + 1, j0)
      /\ Symbols(printed', "TX") => Ready(all, "TX", 0, j0)
      /\ EdgePulses(printed', "TX") /\ k0 + 1 >= MaxSpoiled => Ready(all, "TX", 1, j0)
  <2>1. "TX" \in Hand
      BY TwoHands
  <2> HIDE DEF j0, k0
  <2> QED BY <1>1, <1>3, <1>4, <2>1, ReadyAfterLines
<1>7. (verbose => k0 = 1) /\ (~verbose => k0 = 0)
    BY DEF NeededOfKey
<1> HIDE DEF j0, k0, all
<1>8. CASE Shorts(printed', "TX")
  <2>1. k0 \in 0 .. k0 + 1 /\ k0 + 1 \in Nat
      BY <1>3
  <2> QED BY <1>5, <1>6, <1>8, <2>1
<1>9. CASE verbose /\ EdgePulses(printed', "TX")
  <2>1. k0 \in 0 .. 1 /\ k0 + 1 >= MaxSpoiled
      BY <1>7, <1>9
  <2> QED BY <1>5, <1>6, <1>9, <2>1
<1>10. CASE ~verbose /\ (printed' = <<>> \/ Symbols(printed', "TX"))
  <2>1. k0 \in 0 .. 0 /\ k0 = 0
      BY <1>7, <1>10
  <2> QED BY <1>5, <1>6, <1>10, <2>1
<1> QED BY <1>8, <1>9, <1>10, KeyLines

LEMMA AnswerKeepsOwn ==
    ASSUME OwnInv, MaxSpoiled \in 0 .. 2, Answer
    PROVE  OwnInv'
<1> DEFINE j0 == Needed(fell, verbose, in_pulse)
           k0 == NeededOfKey(verbose)
           j1 == Needed(fell, verbose', in_pulse)
           k1 == NeededOfKey(verbose')
           all == Outcomes(Status, Idle)
<1>1. /\ Feed(Status) /\ MaxSpoiled \in Nat
      /\ verbose' \in BOOLEAN /\ UNCHANGED <<level, in_pulse, fell>>
    BY DEF Answer, board
<1>2. HeldInv /\ BoardInv /\ Old(pending, spoiled, "RX", j0) /\ Old(pending, spoiled, "TX", k0)
    BY DEF OwnInv
<1>3. j0 \in Nat /\ k0 \in Nat /\ j1 \in 0 .. j0 + 2 /\ k1 \in 0 .. k0 + 2
  <2>1. j0 \in Nat /\ k0 \in Nat
      BY <1>2, NeededIs DEF BoardInv
  <2>2. (~fell => j0 = 3 /\ j1 = 3) /\ (fell => j1 \in 0 .. 2) /\ k1 \in 0 .. 1
      BY DEF Needed, NeededOfKey
  <2> HIDE DEF j0, k0, j1, k1
  <2> QED BY <2>1, <2>2
<1>4. Ready({Idle}, "RX", j0, k0)
  <2> HIDE DEF j0, k0
  <2> QED BY <1>1, <1>2, <1>3, ReadyIdle
<1>5. Ready(all, "RX", j1, k1)
  <2>1. "RX" \in Hand
      BY TwoHands
  <2> HIDE DEF j0, k0, j1, k1
  <2>2. Ready(all, "RX", j0 + 2, k0 + 2) /\ j0 + 2 \in Nat /\ k0 + 2 \in Nat
      BY <1>1, <1>3, <1>4, ReadyAfterStatus
  <2> HIDE DEF all
  <2> QED BY <1>3, <2>1, <2>2, ReadyLess
<1>6. /\ HeldInv' /\ OwnOrNone(reported')
      /\ Old(pending', spoiled', "RX", j1) /\ Old(pending', spoiled', "TX", k1)
  <2> HIDE DEF j1, k1
  <2> QED BY <1>1, <1>5, FedReady
<1>7. BoardInv' /\ Needed(fell', verbose', in_pulse') = j1 /\ NeededOfKey(verbose') = k1
    BY <1>1, <1>2 DEF BoardInv
<1> HIDE DEF j1, k1
<1> QED BY <1>6, <1>7 DEF OwnInv

\* DurationIsItsOwn: while no more than two lines of a hand in a row are spoiled, no
\* symbol is reported with the duration of another, glitch or pulse, of either hand.
THEOREM DurationsAreOwn ==
    ASSUME MaxSpoiled \in 0 .. 2
    PROVE  Spec => []DurationIsItsOwn
<1>1. Init => OwnInv
  <2> SUFFICES ASSUME Init PROVE OwnInv
      OBVIOUS
  <2>1. /\ pending = [d \in Hand |-> NoSymbol]
        /\ own = [d \in Hand |-> NoMs]
        /\ spoiled = [d \in Hand |-> 0] /\ reported = <<>>
      BY DEF Init
  <2>2. HeldInv
      BY <2>1 DEF HeldInv, Held, Length
  <2>3. BoardInv
      BY DEF Init, LinesInit, BoardInv
  <2>4. OwnOrNone(reported)
      BY <2>1 DEF OwnOrNone
  <2>5. pending["RX"] = NoSymbol /\ pending["TX"] = NoSymbol
      BY <2>1, TwoHands
  <2> QED BY <2>2, <2>3, <2>4, <2>5 DEF OwnInv, Old
<1>2. OwnInv /\ [Next]_vars => OwnInv'
  <2> SUFFICES ASSUME OwnInv, [Next]_vars PROVE OwnInv'
      OBVIOUS
  <2>1. CASE Seen(LinesNext)
      BY <2>1, AirKeepsOwn
  <2>2. CASE Echo
      BY <2>2, KeyKeepsOwn
  <2>3. CASE Answer
      BY <2>3, AnswerKeepsOwn
  <2>4. CASE Flush
    <3>1. /\ HeldInv' /\ OwnOrNone(reported')
          /\ \A d \in Hand : pending'[d] = NoSymbol
        BY <2>4, Flushed DEF OwnInv
    <3>2. UNCHANGED <<level, in_pulse, fell, verbose>>
        BY <2>4 DEF Flush, board
    <3>3. BoardInv'
        BY <3>2 DEF OwnInv, BoardInv
    <3>4. pending'["RX"] = NoSymbol /\ pending'["TX"] = NoSymbol
        BY <3>1, TwoHands
    <3> QED BY <3>1, <3>3, <3>4 DEF OwnInv, Old
  <2>5. CASE UNCHANGED vars
    <3>1. UNCHANGED <<pending, own, spoiled, reported, level, in_pulse, fell, verbose>>
        BY <2>5 DEF vars, lineVars, adapter, adapterHistory
    <3> QED BY <3>1 DEF OwnInv, HeldInv, BoardInv, Old, Needed, NeededOfKey, OwnOrNone
  <2> QED BY <2>1, <2>2, <2>3, <2>4, <2>5 DEF Next
<1>3. OwnInv => DurationIsItsOwn
  <2> SUFFICES ASSUME OwnInv, NEW i \in DOMAIN reported
               PROVE  reported[i].ms \in {NoMs, reported[i].own}
      BY DEF DurationIsItsOwn
  <2> QED BY DEF OwnInv, OwnOrNone
<1> QED BY <1>1, <1>2, <1>3, PTL DEF Spec
==============================================================================
