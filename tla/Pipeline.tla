------------------------------ MODULE Pipeline ------------------------------
(***************************************************************************)
(* analyze_multi_timeframe (engine/pipeline.py) on one timeframe: the      *)
(* detectors' evidence, with the dealing range and the divergence from an  *)
(* inversely correlated market, classified by Confluence, and the levels   *)
(* of a setup.  The market grows by a bar at a time as in Detectors.       *)
(*                                                                         *)
(* The last bar closes in a session, and there is neither news nor an      *)
(* event.  The levels are in twentieths of a tick, which makes them exact. *)
(***************************************************************************)
EXTENDS Detectors

CONSTANTS
    RangeBars,          \* window of compute_dealing_range
    MinConfidence,      \* min_confidence
    RiskReward,         \* risk_reward_target, whole
    MinWidth,           \* last_price * 0.0001 as a distance in ticks
    CorrelatedMarkets   \* series of the correlated symbol

ASSUME PipelineAssumption ==
    /\ RangeBars \in Nat \ {0}
    /\ MinConfidence \in Int /\ RiskReward \in Int /\ MinWidth \in Nat
    /\ \A m \in CorrelatedMarkets : m \in Seq(BarShapes) /\ Len(m) = MaxBars

VARIABLES
    market,     \* the correlated symbol's series, to its end
    evidence,   \* what the classification reads
    result      \* the AnalysisResult

pipelineVars == <<bars, analysis, market, evidence, result>>

C == INSTANCE Confluence
       WITH Timeframes <- {"M15"}, Primary <- "M15", Sentiments <- {0}

-----------------------------------------------------------------------------
(* Divergence.  Indices stand for times: bar i of the two series is taken  *)
(* to be of the same time.                                                 *)

\* Variant: the other market's bars after the swing count as well.
UpToAny(swings, latest) == swings

UpTo(swings, latest) == {s \in swings : s.index <= latest}

\* The swing nearest to bar i, the earlier one of two.
Nearest(swings, i) ==
    CHOOSE s \in swings : \A t \in swings \ {s} :
        \/ Abs(s.index - i) < Abs(t.index - i)
        \/ Abs(s.index - i) = Abs(t.index - i) /\ s.index < t.index

Latest(swings) == CHOOSE s \in swings : \A t \in swings : t.index <= s.index

\* Price x is beyond price y: lower for a bullish divergence.
Beyond(d, x, y) == IF d = "bullish" THEN x < y ELSE x > y

\* The primary's last swing is beyond the one before, and the other market's
\* swings next to them are not beyond each other the other way.
Diverges(d, swings, others) ==
    /\ Cardinality(swings) >= 2
    /\ LET b     == Latest(swings)
           a     == Latest(swings \ {b})
           known == UpTo(others, b.index)
       IN  /\ Beyond(d, b.price, a.price)
           /\ known # {}
           /\ ~Beyond(Opposite(d), Nearest(known, b.index).price,
                                   Nearest(known, a.index).price)

\* Two swings of the other market, of any kind and time.
Comparable(c) == Cardinality(Highs(c)) + Cardinality(Lows(c)) >= 2

\* The directions of the divergences on lows and on highs.
SmtDirections(a, c) ==
    {d \in Directions :
       /\ Comparable(c)
       /\ IF d = "bullish" THEN Diverges(d, a.lows, Highs(c))
                           ELSE Diverges(d, a.highs, Lows(c))}

-----------------------------------------------------------------------------
(* The dealing range.                                                      *)

Recent(b) == IF Len(b) > RangeBars
               THEN SubSeq(b, Len(b) - RangeBars + 1, Len(b)) ELSE b

\* Where the last close stands in the range of the last swing high and low; the
\* discount is for buyers.
ZoneOf(b) ==
    LET highs == Highs(Recent(b))
        lows  == Lows(Recent(b))
    IN  IF highs = {} \/ lows = {} THEN "none"
        ELSE LET middle == Latest(highs).price + Latest(lows).price
                 price  == 2 * b[Len(b)].close
             IN  IF price < middle THEN "bullish"
                 ELSE IF price > middle THEN "bearish" ELSE "none"

-----------------------------------------------------------------------------
(* Swing labels.                                                           *)

Earlier(swings, s) == {t \in swings : t.index < s.index}

Compared(swings, up, down) ==
    {<<s.index, IF s.price > Latest(Earlier(swings, s)).price THEN up ELSE down>> :
       s \in {t \in swings : Earlier(swings, t) # {}}}

\* One label per bar: the low's replaces the high's.
Labels(a) ==
    LET lows  == Compared(a.lows, "HL", "LL")
        highs == {x \in Compared(a.highs, "HH", "LH") : \A y \in lows : y[1] # x[1]}
    IN  [i \in {x[1] : x \in lows \cup highs} |-> (CHOOSE x \in lows \cup highs : x[1] = i)[2]]

-----------------------------------------------------------------------------
(* From evidence to a signal.                                              *)

ActiveBlocks(a) == {x.block : x \in {y \in a.blocks : y.mitigatedAt = 0}}

ActiveGaps(a) == {x.gap : x \in {y \in a.gaps : y.filledAt = 0}}

DirectionsOf(S) == {x.direction : x \in S}

\* A sell-side sweep speaks for a bullish reversal.
SweepDirection(s) == IF s.side = "sell_side" THEN "bullish" ELSE "bearish"

EvidenceOf(b, a, c) ==
    [trend       |-> [tf \in {"M15"} |-> a.trend],
     obs         |-> DirectionsOf(ActiveBlocks(a)),
     primaryObs  |-> DirectionsOf(ActiveBlocks(a)),
     fvgs        |-> DirectionsOf(ActiveGaps(a)),
     primaryFvgs |-> DirectionsOf(ActiveGaps(a)),
     sweeps      |-> {SweepDirection(s) : s \in a.sweeps},
     zone        |-> ZoneOf(b),
     displaced   |-> a.displacements # {},
     smt         |-> SmtDirections(a, c),
     inSession   |-> TRUE,
     sentiment   |-> 0,
     blackout    |-> FALSE]

Towards(d, x, distance) == IF d = "bullish" THEN x + distance ELSE x - distance

\* The zone of the last active block of the direction, else of its last gap.
EntryZone(a, d) ==
    LET blocks == {o \in ActiveBlocks(a) : o.direction = d}
        gaps   == {g \in ActiveGaps(a) : g.direction = d}
    IN  IF blocks # {}
          THEN CHOOSE o \in blocks : \A p \in blocks : p.breakIndex <= o.breakIndex
          ELSE CHOOSE g \in gaps : \A h \in gaps : h.index <= g.index

LevelsOf(a, d) ==
    LET zone   == EntryZone(a, d)
        width  == Max({zone.top - zone.bottom, MinWidth})
        entry  == 10 * (zone.top + zone.bottom)
        stop   == Towards(Opposite(d), 20 * (IF d = "bullish" THEN zone.bottom ELSE zone.top),
                          2 * width)
        risk   == Abs(entry - stop)
    IN  [zone |-> zone, entry |-> entry, stop |-> stop,
         targets |-> [k \in 1 .. 3 |-> Towards(d, entry, risk * (RiskReward + k - 1))]]

NoLevels == [zone |-> "none"]

\* Too few bars for the primary timeframe to be looked at.
TooShort == [status |-> "INSUFFICIENT_CONFIRMATION", direction |-> "no_trade",
             bias |-> "unknown", levels |-> NoLevels]

ResultOf(b, a, e) ==
    IF Len(b) < 2 * Lookback + 3 THEN TooShort
    ELSE LET c == C!Analysis(e)
         IN  [c EXCEPT !.levels = IF @ THEN LevelsOf(a, c.direction) ELSE NoLevels]

\* The correlated bars that have been printed when bars b have.
Printed(b) == SubSeq(market, 1, Len(b))

PipelineInit ==
    /\ Init
    /\ market \in CorrelatedMarkets
    /\ evidence = EvidenceOf(<<>>, analysis, <<>>)
    /\ result = TooShort

PipelineNext ==
    /\ Next
    /\ UNCHANGED market
    /\ evidence' = EvidenceOf(bars', analysis', Printed(bars'))
    /\ result' = ResultOf(bars', analysis', evidence')

PipelineSpec == PipelineInit /\ [][PipelineNext]_pipelineVars

-----------------------------------------------------------------------------
(* Properties.                                                             *)

\* What Confluence assumes of its evidence holds of what the detectors produce:
\* a block comes with a structure event and a displacement, a gap with a
\* displacement, and the trend, which votes, is the last event's direction,
\* which scores (order_blocks.py:31-32, fvg.py:21-22, pipeline.py:200-232).
EvidenceIsPossible ==
    /\ C!Possible(evidence)
    /\ analysis.trend # "none"
         => analysis.trend = analysis.events[Len(analysis.events)].direction

\* smt.py:10-11: bars after the primary's swing do not matter.  Once the other
\* market has two swings, a divergence is settled until the primary has a new
\* swing.
DivergenceIsSettled ==
    [][(/\ analysis'.highs = analysis.highs
        /\ analysis'.lows = analysis.lows
        /\ Comparable(Printed(bars)))
          => evidence'.smt = evidence.smt]_pipelineVars

HasLevels == result.status = "SETUP" /\ result.levels # NoLevels

\* Price x is on the losing side of price y.
Loses(x, y) == IF result.direction = "bullish" THEN x < y ELSE x > y

\* The last close is beyond the stop of the setup it belongs to.
Stopped == HasLevels /\ Loses(20 * bars[Now].close, result.levels.stop)

\* Bar k is on the losing side of a zone, the close before it was not.
JumpedOver(k, zone) ==
    IF result.direction = "bullish"
      THEN bars[k].high < zone.bottom /\ bars[k - 1].close >= zone.bottom
      ELSE bars[k].low > zone.top /\ bars[k - 1].close <= zone.top

\* The block is older than the swing whose break made it.
IsOld(block) ==
    \E n \in DOMAIN analysis.events :
        /\ analysis.events[n].index = block.breakIndex
        /\ block.index < analysis.events[n].swing.index

\* A setup whose stop the market has passed rests on a block, never on a gap;
\* and the market opened beyond it, or the block is older than the swing and was
\* on the wrong side from the start (order_blocks.py:33-52, fvg.py:27-35,
\* pipeline.py:280-302).
StoppedByJumpOnly ==
    Stopped =>
        LET zone == result.levels.zone
        IN  /\ zone \in ActiveBlocks(analysis)
            /\ IsOld(zone) \/ \E k \in zone.breakIndex + 1 .. Now : JumpedOver(k, zone)

\* README.md:43: the engine owns the entry zone, the SL and the TP; so a setup is
\* not stopped out when it is made.
SetupIsAlive == ~Stopped

\* schemas/signal.py:31: the risk/reward target is any number.  The targets of a
\* setup are profits.
TargetsAreProfits ==
    HasLevels =>
        \A k \in 1 .. 3 : Loses(result.levels.entry, result.levels.targets[k])

\* smt.py:10-11, without the exception of DivergenceIsSettled.
LaterBarsNeverMatter ==
    [][(analysis'.highs = analysis.highs /\ analysis'.lows = analysis.lows)
          => evidence'.smt = evidence.smt]_pipelineVars

\* premium_discount.py:4-6: the range is a swing high and a swing low; so the
\* high is not below the low.
RangeIsOrdered ==
    LET highs == Highs(Recent(bars))
        lows  == Lows(Recent(bars))
    IN  highs # {} /\ lows # {} => Latest(highs).price >= Latest(lows).price

\* README.md:16: a swing high is labelled HH or LH, a swing low HL or LL.
LabelsNameTheirSwing ==
    LET labels == Labels(analysis)
    IN  /\ \A s \in analysis.highs :
               s.index \in DOMAIN labels => labels[s.index] \in {"HH", "LH"}
        /\ \A s \in analysis.lows :
               s.index \in DOMAIN labels => labels[s.index] \in {"HL", "LL"}
=============================================================================
