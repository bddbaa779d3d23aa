----------------------------- MODULE Detectors -----------------------------
(***************************************************************************)
(* The detectors of engine/ on one timeframe: swings, market structure,    *)
(* displacement, fair value gaps, order blocks and liquidity sweeps.       *)
(*                                                                         *)
(* They are functions of a whole sequence of bars, computed again for      *)
(* every analysis.  The specification lets the market grow by a bar at a   *)
(* time and analyses it each time, so that what an analysis says of the    *)
(* past can be compared with what earlier analyses said.  (The pipeline    *)
(* skips a timeframe of fewer than 2 * Lookback + 3 bars; the detectors    *)
(* answer for any number.)                                                 *)
(*                                                                         *)
(* Prices are whole ticks, and bars are numbered from 1.  The evidence is  *)
(* kept as sets: a swing is known by its kind and bar, a gap by its middle *)
(* bar, a block by the bar that broke the structure.  0 is no bar.         *)
(***************************************************************************)
EXTENDS Integers, Sequences, FiniteSetsExt

CONSTANTS
    Lookback,       \* lookback: bars on each side of a swing
    SearchWindow,   \* search_window of detect_order_blocks
    RangeWindow,    \* window of average_range
    Tolerance,      \* tolerance_pct as a distance in ticks
    BarShapes,      \* the bars the market can print
    MaxBars         \* bound on the length of the series

ASSUME ConstantsAssumption ==
    /\ Lookback \in Nat \ {0}
    /\ SearchWindow \in Nat /\ RangeWindow \in Nat \ {0} /\ Tolerance \in Nat
    /\ MaxBars \in Nat
    /\ \A bar \in BarShapes :
         /\ {bar.open, bar.high, bar.low, bar.close} \subseteq Nat \ {0}
         /\ bar.low <= bar.open /\ bar.open <= bar.high
         /\ bar.low <= bar.close /\ bar.close <= bar.high

VARIABLES
    bars,       \* the series, oldest bar first
    analysis    \* the evidence of the latest analysis

vars == <<bars, analysis>>

Directions == {"bullish", "bearish"}

Opposite(d) == IF d = "bullish" THEN "bearish" ELSE "bullish"

Abs(x) == IF x < 0 THEN -x ELSE x

\* The first bar of S, 0 if there is none.
First(S) == IF S = {} THEN 0 ELSE Min(S)

-----------------------------------------------------------------------------
(* Swings.                                                                 *)

\* The bars with Lookback neighbours on both sides.
Inner(b) == (Lookback + 1) .. (Len(b) - Lookback)

IsHigh(b, i) == \A k \in 1 .. Lookback :
    b[i].high > b[i - k].high /\ b[i].high > b[i + k].high

IsLow(b, i) == \A k \in 1 .. Lookback :
    b[i].low < b[i - k].low /\ b[i].low < b[i + k].low

Highs(b) == {[index |-> i, price |-> b[i].high] : i \in {j \in Inner(b) : IsHigh(b, j)}}

Lows(b) == {[index |-> i, price |-> b[i].low] : i \in {j \in Inner(b) : IsLow(b, j)}}

\* Variant: a swing is known as soon as its own bar has closed.
ConfirmedAtOnce(s) == s.index

ConfirmedAt(s) == s.index + Lookback

-----------------------------------------------------------------------------
(* Market structure.                                                       *)

NoSwing == [index |-> 0, price |-> 0]

\* The swings that bar i confirms: one, or none.
Learned(swings, i) == {s \in swings : ConfirmedAt(s) = i}

\* The protected swing once bar i has closed, before it breaks anything.
Protected(swings, i, before) ==
    IF Learned(swings, i) = {} THEN before ELSE CHOOSE s \in Learned(swings, i) : TRUE

\* Variant: a broken swing stays protected.
SettleOnce(w, direction, high, low, event) ==
    [high   |-> high,
     low    |-> low,
     trend  |-> direction,
     events |-> Append(w.events, event)]

\* The walk after a break of the protected high or low.
Settle(w, direction, high, low, event) ==
    [high   |-> IF direction = "bullish" THEN NoSwing ELSE high,
     low    |-> IF direction = "bearish" THEN NoSwing ELSE low,
     trend  |-> direction,
     events |-> Append(w.events, event)]

\* One turn of the loop over the bars: at most one break, upwards if both
\* levels were broken and the upper one by more.
Turn(b, highs, lows, w, i) ==
    LET high  == Protected(highs, i, w.high)
        low   == Protected(lows, i, w.low)
        close == b[i].close
        up    == high # NoSwing /\ close > high.price
        down  == low # NoSwing /\ close < low.price
        upWins == up /\ (down => close - high.price >= low.price - close)
        Event(d, s) == [kind      |-> IF w.trend = Opposite(d) THEN "CHoCH" ELSE "BOS",
                        index     |-> i,
                        price     |-> close,
                        direction |-> d,
                        swing     |-> s]
    IN  IF upWins THEN Settle(w, "bullish", high, low, Event("bullish", high))
        ELSE IF down THEN Settle(w, "bearish", high, low, Event("bearish", low))
        ELSE [w EXCEPT !.high = high, !.low = low]

Walk(b) ==
    LET highs == Highs(b)
        lows  == Lows(b)
        w[i \in 0 .. Len(b)] ==
            IF i = 0
              THEN [high |-> NoSwing, low |-> NoSwing, trend |-> "none", events |-> <<>>]
              ELSE LET before == w[i - 1] IN Turn(b, highs, lows, before, i)
    IN  w[Len(b)]

\* The trend, the events and, for the properties, the swings left protected.
\* In a series this short nothing can have been broken.
Structure(b) ==
    IF Len(b) < 2 * Lookback + 2
      THEN [Walk(b) EXCEPT !.events = <<>>, !.trend = "none"]
      ELSE Walk(b)

-----------------------------------------------------------------------------
(* Displacement, gaps and blocks.                                          *)

\* Variant: the average is taken over all earlier bars.
BeforeAll(b, i) == SubSeq(b, 1, i - 1)

\* The bars whose average range bar i is measured against.
Before(b, i) == SubSeq(b, IF i > RangeWindow THEN i - RangeWindow ELSE 1, i - 1)

TotalRange(window) ==
    MapThenSumSet(LAMBDA k : window[k].high - window[k].low, DOMAIN window)

\* A body of at least one and a half times the average range.
IsDisplacement(b, i) ==
    LET window == Before(b, i)
        total  == TotalRange(window)
    IN  /\ total # 0
        /\ 2 * Abs(b[i].close - b[i].open) * Len(window) >= 3 * total

GapAt(b, i, d) ==
    [index |-> i, direction |-> d,
     top    |-> IF d = "bullish" THEN b[i + 1].low ELSE b[i - 1].low,
     bottom |-> IF d = "bullish" THEN b[i - 1].high ELSE b[i + 1].high]

IsGap(b, i, d) ==
    /\ IsDisplacement(b, i)
    /\ IF d = "bullish" THEN b[i + 1].low > b[i - 1].high
                        ELSE b[i + 1].high < b[i - 1].low

\* A gap is filled by the first bar to cross all of it.
Fills(b, g) ==
    {j \in (g.index + 2) .. Len(b) :
       IF g.direction = "bullish" THEN b[j].low <= g.bottom ELSE b[j].high >= g.top}

Gaps(b) ==
    {[gap |-> g, filledAt |-> First(Fills(b, g))] :
       g \in {GapAt(b, x[1], x[2]) :
                x \in {y \in (2 .. Len(b) - 1) \X Directions : IsGap(b, y[1], y[2])}}}

\* The candles against the direction of a break.
Against(b, e) ==
    {j \in 1 .. (e.index - 1) :
       /\ j >= e.index - SearchWindow
       /\ IF e.direction = "bullish" THEN b[j].close < b[j].open
                                     ELSE b[j].close > b[j].open}

\* Variant: a break need not be a displacement.
BacksBlockAnyway(b, e) == Against(b, e) # {}

BacksBlock(b, e) == IsDisplacement(b, e.index) /\ Against(b, e) # {}

BlockOf(b, e) ==
    LET j == Max(Against(b, e))
    IN  [index |-> j, direction |-> e.direction, top |-> b[j].high,
         bottom |-> b[j].low, breakIndex |-> e.index]

\* Variant: a bar that does not close in the block leaves it alone.
TouchesByClose(b, o) ==
    {k \in (o.breakIndex + 1) .. Len(b) : o.bottom <= b[k].close /\ b[k].close <= o.top}

\* Only bars after the break can mitigate a block.
Touches(b, o) ==
    {k \in (o.breakIndex + 1) .. Len(b) : b[k].low <= o.top /\ b[k].high >= o.bottom}

Blocks(b, events) ==
    {[block |-> o, mitigatedAt |-> First(Touches(b, o))] :
       o \in {BlockOf(b, events[n]) :
                n \in {m \in DOMAIN events : BacksBlock(b, events[m])}}}

-----------------------------------------------------------------------------
(* Liquidity.                                                              *)

\* _cluster: going up, a price opens a level unless it is within the tolerance
\* of the last one.
Levels(prices) ==
    LET last[p \in 0 .. Max(prices \cup {0})] ==
          IF p = 0 THEN 0
          ELSE LET previous == last[p - 1]
               IN  IF p \in prices /\ (previous = 0 \/ p - previous > Tolerance)
                     THEN p ELSE previous
    IN  {p \in prices : last[p] = p}

\* Variant: the swings of the whole series make the levels.
KnownEver(swings, i) == swings

\* The swings confirmed when bar i has closed.
Known(swings, i) == {s \in swings : ConfirmedAt(s) <= i}

Near(swings, level) == {s \in swings : Abs(s.price - level) <= Tolerance}

\* The swing nearest to a level: the level is the price of one.
SweptSwing(swings, level) == Min({s.index : s \in {t \in swings : t.price = level}})

Crosses(bar, side, level) ==
    IF side = "buy_side" THEN bar.high > level /\ bar.close < level
                         ELSE bar.low < level /\ bar.close > level

SweepsAt(b, i, side, swings) ==
    LET known == Known(swings, i)
    IN  {[index |-> i, side |-> side, level |-> v, swing |-> SweptSwing(known, v)] :
           v \in {u \in Levels({s.price : s \in known}) :
                    Cardinality(Near(known, u)) >= 2 /\ Crosses(b[i], side, u)}}

Sweeps(b) ==
    UNION {SweepsAt(b, i, "buy_side", Highs(b)) \cup SweepsAt(b, i, "sell_side", Lows(b)) :
             i \in 1 .. Len(b)}

-----------------------------------------------------------------------------
(* The analysis of a growing market.                                       *)

\* _tf_evidence; the displacement indices are part of it.
Analyse(b) ==
    LET structure == Structure(b)
    IN  [highs    |-> Highs(b),
         lows     |-> Lows(b),
         events   |-> structure.events,
         trend    |-> structure.trend,
         high     |-> structure.high,
         low      |-> structure.low,
         gaps     |-> Gaps(b),
         blocks   |-> Blocks(b, structure.events),
         sweeps   |-> Sweeps(b),
         displacements |-> {i \in 1 .. Len(b) : IsDisplacement(b, i)}]

Init ==
    /\ bars = <<>>
    /\ analysis = Analyse(<<>>)

NewBar(bar) ==
    /\ Len(bars) < MaxBars
    /\ bars' = Append(bars, bar)
    /\ analysis' = Analyse(bars')

Next == \E bar \in BarShapes : NewBar(bar)

Spec == Init /\ [][Next]_vars

-----------------------------------------------------------------------------
(* Properties.                                                             *)

SwingOK(s) == s.index \in Inner(bars) /\ s.price \in Nat \ {0}

TypeOK ==
    /\ bars \in Seq(BarShapes) /\ Len(bars) <= MaxBars
    /\ \A s \in analysis.highs \cup analysis.lows : SwingOK(s)
    /\ \A n \in DOMAIN analysis.events :
         LET e == analysis.events[n]
         IN  /\ e.kind \in {"BOS", "CHoCH"} /\ e.direction \in Directions
             /\ e.index \in DOMAIN bars /\ SwingOK(e.swing)
    /\ analysis.trend \in Directions \cup {"none"}
    /\ \A x \in analysis.gaps :
         x.gap.bottom < x.gap.top /\ x.filledAt \in {0} \cup DOMAIN bars
    /\ \A x \in analysis.blocks :
         x.block.bottom <= x.block.top /\ x.mitigatedAt \in {0} \cup DOMAIN bars
    /\ \A s \in analysis.sweeps : s.index \in DOMAIN bars /\ s.swing \in DOMAIN bars
    /\ analysis.displacements \subseteq DOMAIN bars

\* structure.py:4-6, README.md:15: no look-ahead.  The structure computed from
\* the whole series is the one an observer who gets the bars one at a time
\* reports, event by event.
RecentBars == SubSeq(bars, (IF Len(bars) > 2 * Lookback
                              THEN Len(bars) - 2 * Lookback + 1 ELSE 1), Len(bars))

Live == INSTANCE LiveStructure
    WITH recent <- RecentBars, count <- Len(bars),
         high <- analysis.high, low <- analysis.low,
         trend <- analysis.trend, events <- analysis.events

ImplementsLiveStructure == Live!Spec

\* The latest bar.
Now == Len(bars)

\* A later analysis says of the past what the earlier one said, apart from
\* fills and mitigations, which are dated to the new bar; what it adds is what
\* the new bar completed (fvg.py:27-35, order_blocks.py:47-52,
\* liquidity.py:4-6).
NothingIsRepainted ==
    [][/\ analysis.highs \subseteq analysis'.highs
       /\ analysis.lows \subseteq analysis'.lows
       /\ analysis.displacements \subseteq analysis'.displacements
       /\ analysis.sweeps \subseteq analysis'.sweeps
       /\ \A s \in analysis'.sweeps \ analysis.sweeps : s.index = Now'
       /\ \A x \in analysis.gaps : \E y \in analysis'.gaps :
            y.gap = x.gap /\ y.filledAt \in {x.filledAt} \cup (IF x.filledAt = 0 THEN {Now'} ELSE {})
       /\ \A y \in analysis'.gaps :
            (\A x \in analysis.gaps : x.gap # y.gap)
              => y.gap.index = Now /\ y.filledAt = 0
       /\ \A x \in analysis.blocks : \E y \in analysis'.blocks :
            y.block = x.block
              /\ y.mitigatedAt \in {x.mitigatedAt} \cup (IF x.mitigatedAt = 0 THEN {Now'} ELSE {})
       /\ \A y \in analysis'.blocks :
            (\A x \in analysis.blocks : x.block # y.block)
              => y.block.breakIndex = Now' /\ y.mitigatedAt = 0]_vars

\* structure.py:72-93: a close never lies beyond a level that stays protected,
\* hence never beyond both, and the tie rule between the two breaks decides
\* nothing.
ClosesStayBetweenLevels ==
    Len(bars) > 0 =>
        /\ analysis.high # NoSwing => bars[Now].close <= analysis.high.price
        /\ analysis.low # NoSwing => bars[Now].close >= analysis.low.price

\* Bar i of the whole series is bar i - 1 when the oldest bar is dropped.
Shift(i) == i - 1

\* analysis.py:72-88: an analysis reads the newest bars only.  When the oldest
\* bar falls out of the query's LIMIT, swings, displacements and gaps stay as
\* they were, except at the left edge.
WindowForgetsOnlyItsEdge ==
    Len(bars) > 0 =>
        LET rest == Tail(bars)
            Later(S, edge) == {i \in S : i > edge}
        IN  /\ {Shift(s.index) : s \in {t \in analysis.highs : t.index > Lookback + 1}}
                 = {s.index : s \in Highs(rest)}
            /\ {Shift(i) : i \in Later(analysis.displacements, RangeWindow + 1)}
                 = Later({i \in DOMAIN rest : IsDisplacement(rest, i)}, RangeWindow)
            /\ {<<Shift(x.gap.index), x.gap.direction, x.filledAt # 0>> :
                  x \in {y \in analysis.gaps : y.gap.index > RangeWindow + 1}}
                 = {<<x.gap.index, x.gap.direction, x.filledAt # 0>> :
                      x \in {y \in Gaps(rest) : y.gap.index > RangeWindow}}

\* liquidity.py:4-6: a sweep occurs after its pool exists, so that two swings
\* of the pool were confirmed before the bar.
SweepAfterPool ==
    \A s \in analysis.sweeps :
        LET swings == IF s.side = "buy_side" THEN analysis.highs ELSE analysis.lows
        IN  Cardinality(Near(Known(swings, s.index - 1), s.level)) >= 2
=============================================================================
