----------------------------- MODULE Confluence -----------------------------
(***************************************************************************)
(* The classification of analyze_multi_timeframe (engine/pipeline.py):     *)
(* from the detectors' evidence to SETUP, NO_SETUP or                      *)
(* INSUFFICIENT_CONFIRMATION, with a direction, a market bias and whether  *)
(* an entry zone (and so a stop and targets) exists.                       *)
(*                                                                         *)
(* Evidence is abstracted to what the classification reads.  A timeframe's *)
(* trend is the direction of its last structure event, so "none" stands    *)
(* for a timeframe without events.  Order blocks, gaps, sweeps and SMT     *)
(* divergences are the sets of directions they speak for.                  *)
(***************************************************************************)
EXTENDS Integers, FiniteSets

CONSTANTS
    Timeframes,     \* the timeframes with enough bars
    Primary,        \* the primary timeframe
    Sentiments,     \* news sentiment in hundredths; 0 is also "no news"
    MinConfidence   \* min_confidence, in points

ASSUME ConstantsAssumption ==
    /\ IsFiniteSet(Timeframes)
    /\ Primary \in Timeframes
    /\ Sentiments \subseteq Int
    /\ MinConfidence \in Int

VARIABLES evidence, result

vars == <<evidence, result>>

Directions == {"bullish", "bearish"}

Opposite(d) == IF d = "bullish" THEN "bearish" ELSE "bullish"

Evidence ==
    [trend       : [Timeframes -> Directions \cup {"none"}],
     obs         : SUBSET Directions,   \* unmitigated, on any timeframe
     primaryObs  : SUBSET Directions,   \* the primary's among them
     fvgs        : SUBSET Directions,   \* unfilled, on any timeframe
     primaryFvgs : SUBSET Directions,
     sweeps      : SUBSET Directions,   \* sell-side speaks for bullish
     zone        : Directions \cup {"none"},  \* discount is bullish
     displaced   : BOOLEAN,             \* a displacement candle on the primary
     smt         : SUBSET Directions,
     inSession   : BOOLEAN,             \* 7 <= hour < 21
     sentiment   : Sentiments,
     blackout    : BOOLEAN]

\* What the detectors can produce together: an order block comes with a
\* structure event and a displacement candle of its timeframe, a gap with a
\* displacement candle (Detectors!EvidenceIsPossible).
Possible(e) ==
    /\ e.primaryObs \subseteq e.obs
    /\ e.primaryFvgs \subseteq e.fvgs
    /\ e.obs # {} => \E tf \in Timeframes : e.trend[tf] # "none"
    /\ e.primaryObs # {} => e.trend[Primary] # "none"
    /\ e.primaryObs \cup e.primaryFvgs # {} => e.displaced

-----------------------------------------------------------------------------
(* The score.                                                              *)

WEIGHTS ==
    [structure |-> 28, order_block |-> 14, fvg |-> 10, liquidity |-> 10,
     premium_discount |-> 10, displacement |-> 10, smt |-> 5, session |-> 3,
     fundamental |-> 5, news |-> 5]

\* Counts the members of TECHNICAL_KEYS.
TECHNICAL ==
    [structure |-> 1, order_block |-> 1, fvg |-> 1, liquidity |-> 1,
     premium_discount |-> 1, displacement |-> 1, smt |-> 1, session |-> 1,
     fundamental |-> 0, news |-> 0]

NewsSupports(e, d) ==
    IF d = "bullish" THEN e.sentiment > 15 ELSE e.sentiment < -15

\* News at or beyond the threshold, unless an event blacks it out.
FundamentalSupports(e, d) ==
    /\ ~e.blackout
    /\ IF d = "bullish" THEN e.sentiment >= 15 ELSE e.sentiment <= -15

Factors(e, d) ==
    [structure        |-> \E tf \in Timeframes : e.trend[tf] = d,
     order_block      |-> d \in e.obs,
     fvg              |-> d \in e.fvgs,
     liquidity        |-> d \in e.sweeps,
     premium_discount |-> e.zone = d,
     displacement     |-> e.displaced,
     smt              |-> d \in e.smt,
     session          |-> e.inSession,
     fundamental      |-> FundamentalSupports(e, d),
     news             |-> NewsSupports(e, d)]

Points(hit, weight) == IF hit THEN weight ELSE 0

Sum(f, w) ==
    Points(f.structure, w.structure) + Points(f.order_block, w.order_block)
      + Points(f.fvg, w.fvg) + Points(f.liquidity, w.liquidity)
      + Points(f.premium_discount, w.premium_discount)
      + Points(f.displacement, w.displacement) + Points(f.smt, w.smt)
      + Points(f.session, w.session) + Points(f.fundamental, w.fundamental)
      + Points(f.news, w.news)

Score(e, d) == Sum(Factors(e, d), WEIGHTS)

TechnicalHits(e, d) == Sum(Factors(e, d), TECHNICAL)

-----------------------------------------------------------------------------
(* The classification.                                                     *)

Votes(e, d) == Cardinality({tf \in Timeframes : e.trend[tf] = d})

Bias(e) ==
    IF Votes(e, "bullish") = 0 /\ Votes(e, "bearish") = 0 THEN "neutral"
    ELSE IF Votes(e, "bullish") >= Votes(e, "bearish") THEN "bullish"
    ELSE "bearish"

Best(e) ==
    IF Score(e, "bullish") > Score(e, "bearish") THEN "bullish" ELSE "bearish"

AtLeast(a, b) == IF a >= b THEN a ELSE b

Aligned(e, d) ==
    LET n == Cardinality(Timeframes)
    IN  n = 1 \/ Votes(e, d) >= AtLeast(1, (n + 1) \div 2)

\* Variant: off by one at the margin.
ConflictedBeyond(e, d) == Score(e, Opposite(d)) > AtLeast(20, Score(e, d) - 10)

Conflicted(e, d) == Score(e, Opposite(d)) >= AtLeast(20, Score(e, d) - 10)

\* Confidence in quarter points: a conflict costs a quarter of the score, and
\* the cap is 100 points.
Confidence(e, d) ==
    LET quarters == IF Conflicted(e, d) THEN 3 * Score(e, d) ELSE 4 * Score(e, d)
    IN  IF quarters > 400 THEN 400 ELSE quarters

\* Variant: exactly three technical hits.
IsSetupAtThree(e, d) ==
    /\ Factors(e, d).structure
    /\ TechnicalHits(e, d) = 3
    /\ Aligned(e, d)
    /\ ~Conflicted(e, d)
    /\ Confidence(e, d) >= 4 * MinConfidence
    /\ ~e.blackout

\* Variant: the direction must be the bias too, ties included.
IsSetupOnBias(e, d) ==
    /\ Factors(e, d).structure
    /\ TechnicalHits(e, d) >= 3
    /\ Bias(e) = d
    /\ ~Conflicted(e, d)
    /\ Confidence(e, d) >= 4 * MinConfidence
    /\ ~e.blackout

IsSetup(e, d) ==
    /\ ~e.blackout
    /\ Factors(e, d).structure
    /\ Aligned(e, d)
    /\ TechnicalHits(e, d) >= 3
    /\ ~Conflicted(e, d)
    /\ Confidence(e, d) >= 4 * MinConfidence

Status(e) ==
    LET d == Best(e)
    IN  IF TechnicalHits(e, d) = 0 THEN "INSUFFICIENT_CONFIRMATION"
        ELSE IF IsSetup(e, d) THEN "SETUP" ELSE "NO_SETUP"

\* The entry zone is the last active order block of the primary timeframe,
\* else its last active gap.
HasZone(e) == Best(e) \in e.primaryObs \cup e.primaryFvgs

\* The reasons name the primary's last structure event whenever any timeframe
\* has the structure; without one the handler raises.
Raises(e) == Factors(e, Best(e)).structure /\ e.trend[Primary] = "none"

Unclassified == [status |-> "not classified"]

Analysis(e) ==
    IF Raises(e)
      THEN [status |-> "raised"]
      ELSE LET status == Status(e)
           IN  [status    |-> status,
                direction |-> IF status = "SETUP" THEN Best(e) ELSE "no_trade",
                bias      |-> Bias(e),
                levels    |-> status = "SETUP" /\ HasZone(e)]

Init ==
    /\ evidence \in {e \in Evidence : Possible(e)}
    /\ result = Unclassified

Classify ==
    /\ result = Unclassified
    /\ result' = Analysis(evidence)
    /\ UNCHANGED evidence

Next == Classify

Spec == Init /\ [][Next]_vars

-----------------------------------------------------------------------------
(* Properties.                                                             *)

TypeOK ==
    /\ evidence \in Evidence
    /\ \/ result \in {Unclassified, [status |-> "raised"]}
       \/ result \in
            [status    : {"SETUP", "NO_SETUP", "INSUFFICIENT_CONFIRMATION"},
             direction : Directions \cup {"no_trade"},
             bias      : Directions \cup {"neutral"},
             levels    : BOOLEAN]

TechnicalScore(e, d) ==
    Score(e, d) - Points(Factors(e, d).news, WEIGHTS.news)
                - Points(Factors(e, d).fundamental, WEIGHTS.fundamental)

\* News never decides which way a SETUP points: the technical evidence alone
\* is stronger on that side (README.md:43, pipeline.py:27-28).
NewsNeverDecidesDirection ==
    result.status = "SETUP" =>
        TechnicalScore(evidence, result.direction)
          > TechnicalScore(evidence, Opposite(result.direction))

MirrorSet(S) == {Opposite(d) : d \in S}

MirrorOf(d) == IF d \in Directions THEN Opposite(d) ELSE d

\* The same market upside down.
Mirror(e) ==
    [e EXCEPT !.trend       = [tf \in Timeframes |-> MirrorOf(@[tf])],
              !.obs         = MirrorSet(@),
              !.primaryObs  = MirrorSet(@),
              !.fvgs        = MirrorSet(@),
              !.primaryFvgs = MirrorSet(@),
              !.sweeps      = MirrorSet(@),
              !.zone        = MirrorOf(@),
              !.smt         = MirrorSet(@),
              !.sentiment   = -@]

\* The engine has no preference: the market upside down gets the same status,
\* the same levels and the opposite direction, in spite of the tie rules
\* (pipeline.py:257, 263-275).
MirrorSymmetry ==
    result.status = "SETUP" =>
        LET mirrored == Analysis(Mirror(evidence))
        IN  /\ mirrored.status = "SETUP"
            /\ mirrored.direction = Opposite(result.direction)
            /\ mirrored.levels = result.levels

\* e with more technical evidence for d.
Strengthened(e, d) ==
    {[e EXCEPT !.fvgs = @ \cup {d}], [e EXCEPT !.sweeps = @ \cup {d}],
     [e EXCEPT !.smt = @ \cup {d}]}

\* More evidence for the direction of a SETUP never takes the SETUP away
\* (pipeline.py:257-275).
MoreEvidenceKeepsSetup ==
    result.status = "SETUP" =>
        \A stronger \in Strengthened(evidence, result.direction) :
            /\ Analysis(stronger).status = "SETUP"
            /\ Analysis(stronger).direction = result.direction

\* README.md:43: the engine "always owns" entry zone, invalidation, SL and TP;
\* so a SETUP has them.
SetupHasLevels == result.status = "SETUP" => result.levels

\* pipeline.py:4-5: validated bars lead to an "explainable final
\* classification".
AlwaysClassified == result.status # "raised"

\* README.md:39: a SETUP is emitted only when the multi-timeframe context is not
\* conflicting; so the reported bias is not the opposite of its direction.
BiasAgrees ==
    result.status = "SETUP" => result.bias # Opposite(result.direction)

\* README.md:38: at least three independent technical categories agree, that
\* is, speak for the direction of the SETUP and not for both.
ThreeCategoriesAgree ==
    result.status = "SETUP" =>
        TechnicalHits(evidence, result.direction)
          - Points(evidence.displaced, 1) - Points(evidence.inSession, 1) >= 3
=============================================================================
