----------------------------- MODULE MorseSketch -----------------------------
(***************************************************************************)
(* The adapter that turns the lines of the transceiver sketch into frames, *)
(* composed with what the board promises to print (MorseLines).  A line    *)
(* reaches the adapter whole, or so garbled that nothing is recognised in  *)
(* it, or with a number no sample can hold.                                *)
(*                                                                         *)
(* A symbol and its duration are two lines, so the adapter holds a symbol, *)
(* for each of the two hands, until its duration comes.  The lines of the  *)
(* board's own key are those of its local echo.  What may come of a list   *)
(* of lines is a function over its positions, which can be reasoned about. *)
(***************************************************************************)
EXTENDS MorseLines, FiniteSets

CONSTANTS
    MaxSpoiled  \* bound: lines of a hand in a row that do not arrive whole

VARIABLES
    pending,    \* _pending_symbol, for each hand
    reported,   \* the symbol events of the present step
    spoiled,    \* lines of each hand spoiled since one arrived whole
    own,        \* history: the duration of the pulse of the symbol held
    owing,      \* history: symbols read and neither reported nor dropped
    dropped     \* history: a symbol was dropped with an unusable line

adapter == <<pending, reported>>
adapterHistory == <<own, owing, dropped>>
board == <<level, in_pulse, fell, letter, word>>
vars == <<lineVars, adapter, spoiled, adapterHistory>>

Hand == {"RX", "TX"}
NoSymbol == "none"
NoMs == -1

ASSUME SketchAssumption == MaxSpoiled \in Nat
-----------------------------------------------------------------------------
(* The adapter.                                                            *)

\* _release_symbol, of hand d, with duration ms or without one.
Release(a, d, ms) ==
    IF a.pending[d] = NoSymbol THEN a
    ELSE [a EXCEPT !.pending[d] = NoSymbol, !.own[d] = NoMs,
                   !.events = Append(@, [symbol |-> a.pending[d], ms |-> ms, own |-> a.own[d]])]

\* Mistake: what is held is let go of by its duration only.
LetGoByPulseOnly(a, line) == IF line.kind = "pulse" THEN Release(a, line.dir, line.ms) ELSE a

\* Mistake: one symbol is held, whichever hand it came from.
LetGoOfEitherHand(a, line) ==
    Release(Release(a, "RX", IF line.kind = "pulse" THEN line.ms ELSE NoMs),
            "TX", IF line.kind = "pulse" THEN line.ms ELSE NoMs)

\* A duration is that of the symbol held; after any other line there will be none.
LetGo(a, line) == Release(a, line.dir, IF line.kind = "pulse" THEN line.ms ELSE NoMs)

\* _decide, of the frames it makes the symbol events.
Decide(a, line) ==
    LET b == LetGo(a, line)
    IN  IF line.kind = "symbol"
        THEN [b EXCEPT !.pending[line.dir] = line.value, !.own[line.dir] = line.ms,
                       !.read = @ + 1]
        ELSE b

\* The lines whose number becomes a sample.
Sampled(line) == line.dir = "RX" /\ line.kind \in {"pulse", "gap", "counters"}

\* _line: an unusable number loses whatever the line was about to report.
Take(a, line, fate) ==
    LET b == Decide(a, line)
    IN  CASE fate = "whole" -> [b EXCEPT !.spoiled[line.dir] = 0]
          [] fate = "garbled" -> [a EXCEPT !.spoiled[line.dir] = @ + 1]
          [] fate = "unusable" ->
                [b EXCEPT !.events = a.events, !.spoiled[line.dir] = @ + 1,
                          !.dropped = @ + Len(b.events) - Len(a.events)]

Fates(a, line) ==
    {"whole"} \cup IF a.spoiled[line.dir] = MaxSpoiled THEN {}
                   ELSE {"garbled"} \cup IF Sampled(line) THEN {"unusable"} ELSE {}

Took(a, line) == {Take(a, line, fate) : fate \in Fates(a, line)}

\* The adapter between two chunks.
Idle ==
    [pending |-> pending, own |-> own, spoiled |-> spoiled, events |-> <<>>,
     read |-> 0, dropped |-> 0]

\* What may come of the lines of one step, in their order.
Outcomes(lines, idle) ==
    LET out[n \in 0 .. Len(lines)] ==
            IF n = 0 THEN {idle} ELSE UNION {Took(a, lines[n]) : a \in out[n - 1]}
    IN  out[Len(lines)]

\* feed.
Feed(lines) ==
    \E a \in Outcomes(lines, Idle) :
        /\ pending' = a.pending /\ own' = a.own /\ spoiled' = a.spoiled
        /\ reported' = a.events
        /\ owing' = owing + a.read - Len(a.events) - a.dropped
        /\ dropped' = (dropped \/ a.dropped > 0)
-----------------------------------------------------------------------------
Init ==
    /\ LinesInit
    /\ pending = [d \in Hand |-> NoSymbol] /\ own = [d \in Hand |-> NoMs] /\ reported = <<>>
    /\ spoiled = [d \in Hand |-> 0] /\ owing = 0 /\ dropped = FALSE

\* A step of the board; the adapter reads what it prints.
Seen(A) == A /\ Feed(printed')

\* A line about the board's own key.
KeyLine(kind, value, ms) == [Line(kind, value, ms) EXCEPT !.dir = "TX"]
KeyEdge == IfVerbose(KeyLine("edge", "none", 0))

\* An edge of the key, and what the local echo, if it is on, decodes from it with the
\* code that decodes the other hand; or a silence of the key.
Echo ==
    /\ \/ printed' = KeyEdge
       \/ \E measured \in {"gap", "filtered"}, ms \in Durations :
             printed' = KeyEdge \o IfVerbose(KeyLine(measured, "none", ms))
       \/ \E s \in {".", "-"}, ms \in Durations :
             printed' = KeyEdge \o <<KeyLine("symbol", s, ms)>>
                                \o IfVerbose(KeyLine("pulse", "none", ms))
       \/ \E kind \in {"letter", "unknown"}, code \in Codes, ms \in Durations :
             \/ printed' = <<KeyLine(kind, code, ms)>>
             \/ printed' = <<KeyLine(kind, code, ms), KeyLine("word", "none", ms)>>
       \/ \E ms \in Durations : printed' = <<KeyLine("word", "none", ms)>>
    /\ UNCHANGED <<board, verbose>>
    /\ Feed(printed')

\* imprimirEstado, the lines that name a hand.
Status ==
    <<Line("thresholds", "none", 0), KeyLine("thresholds", "none", 0),
      Line("counters", "none", 0), KeyLine("counters", "none", 0)>>

\* The answer to a command of the station: r, or v, which also changes verbose.
Answer ==
    /\ verbose' \in BOOLEAN
    /\ printed' = Status
    /\ UNCHANGED board
    /\ Feed(printed')

\* flush: the stream is over, and nothing more will come for what is held.
Flush ==
    /\ LET a == Release(Release(Idle, "RX", NoMs), "TX", NoMs)
       IN  /\ pending' = a.pending /\ own' = a.own /\ reported' = a.events
           /\ owing' = owing - Len(a.events)
    /\ printed' = <<>>
    /\ UNCHANGED <<board, verbose, spoiled, dropped>>

Next == Seen(LinesNext) \/ Echo \/ Answer \/ Flush

\* The board closes letters and words, as MorseLines promises.
Spec == Init /\ [][Next]_vars /\ WF_vars(Seen(CloseLetter)) /\ WF_vars(Seen(CloseWord))
-----------------------------------------------------------------------------
(* Properties.                                                             *)

TypeOK ==
    /\ {level} \subseteq {0, 1} /\ {in_pulse, fell, letter, word, verbose} \subseteq BOOLEAN
    /\ pending \in [Hand -> {NoSymbol, ".", "-"}]
    /\ spoiled \in [Hand -> 0 .. MaxSpoiled]
    /\ \A d \in Hand : own[d] = NoMs <=> pending[d] = NoSymbol

\* Every symbol read is reported, or still held: the next line of its hand lets go
\* of it at the latest.  (One that goes with an unusable line is counted apart.)
SymbolsAreReportedOrHeld == owing = Cardinality({d \in Hand : pending[d] # NoSymbol})

\* A symbol is reported with the duration of its own pulse, or with none: the other
\* hand, a glitch or two lost lines cannot lend it another's.
DurationIsItsOwn ==
    \A i \in DOMAIN reported : reported[i].ms \in {NoMs, reported[i].own}

\* What the adapter holds is reported once the wire stays low: one lost line cannot
\* keep it for ever.
HeldIsReported ==
    pending["RX"] # NoSymbol ~>
        pending["RX"] = NoSymbol \/ level = 1 \/ spoiled["RX"] > 1

\* What morse_sketch.py says of the symbols it holds ("so a symbol is never lost").
SymbolNeverLost == ~dropped
==============================================================================
