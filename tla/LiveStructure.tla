--------------------------- MODULE LiveStructure ---------------------------
(***************************************************************************)
(* What engine/structure.py promises (lines 4-6): market structure as      *)
(* someone watching the market sees it.  Bars arrive one at a time and     *)
(* only the last 2 * Lookback + 1 are at hand.  A swing is learned when    *)
(* Lookback bars have closed after it, and from then on a close beyond it  *)
(* breaks it, once.  Nothing can look ahead because the rest of the market *)
(* does not exist yet.                                                     *)
(***************************************************************************)
EXTENDS Integers, Sequences

CONSTANTS Lookback, BarShapes

VARIABLES
    recent,     \* the last bars, at most 2 * Lookback
    count,      \* bars seen so far
    high, low,  \* the levels that have not been broken; NoLevel if none
    trend,      \* "none", "bullish" or "bearish"
    events      \* the breaks so far

vars == <<recent, count, high, low, trend, events>>

NoLevel == [index |-> 0, price |-> 0]

Init ==
    /\ recent = <<>>
    /\ count = 0
    /\ high = NoLevel /\ low = NoLevel
    /\ trend = "none"
    /\ events = <<>>

\* The bars around the middle of the window, without the middle itself.
Others == (1 .. 2 * Lookback + 1) \ {Lookback + 1}

LearnHigh(window) ==
    IF /\ Len(window) = 2 * Lookback + 1
       /\ \A k \in Others : window[k].high < window[Lookback + 1].high
      THEN [index |-> count + 1 - Lookback, price |-> window[Lookback + 1].high]
      ELSE high

LearnLow(window) ==
    IF /\ Len(window) = 2 * Lookback + 1
       /\ \A k \in Others : window[k].low > window[Lookback + 1].low
      THEN [index |-> count + 1 - Lookback, price |-> window[Lookback + 1].low]
      ELSE low

Break(direction, bar, level) ==
    /\ trend' = direction
    /\ events' = Append(events,
                   [kind      |-> IF trend \in {"none", direction} THEN "BOS" ELSE "CHoCH",
                    index     |-> count + 1,
                    price     |-> bar.close,
                    direction |-> direction,
                    swing     |-> level])

\* A close never lies beyond both levels, so that the order of the first two
\* cases does not matter.
Arrive(bar) ==
    LET window    == Append(recent, bar)
        knownHigh == LearnHigh(window)
        knownLow  == LearnLow(window)
        above     == knownHigh # NoLevel /\ bar.close > knownHigh.price
        below     == knownLow # NoLevel /\ bar.close < knownLow.price
    IN  /\ count' = count + 1
        /\ recent' = IF Len(window) > 2 * Lookback THEN Tail(window) ELSE window
        /\ ~(above /\ below)
        /\ \/ above /\ Break("bullish", bar, knownHigh)
                    /\ high' = NoLevel /\ low' = knownLow
           \/ below /\ Break("bearish", bar, knownLow)
                    /\ high' = knownHigh /\ low' = NoLevel
           \/ ~above /\ ~below
                    /\ high' = knownHigh /\ low' = knownLow
                    /\ UNCHANGED <<trend, events>>

Next == \E bar \in BarShapes : Arrive(bar)

Spec == Init /\ [][Next]_vars
=============================================================================
