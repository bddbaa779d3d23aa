-------------------------- MODULE ConfluenceProofs --------------------------
(***************************************************************************)
(* What holds of every classification, for all timeframes, news values and *)
(* thresholds.                                                             *)
(***************************************************************************)
EXTENDS Confluence, TLAPS

-----------------------------------------------------------------------------
(* The score and its technical part.                                       *)

\* A factor earns between nothing and its weight.
LEMMA PointsRange ==
    ASSUME NEW hit, NEW weight \in Nat
    PROVE  /\ Points(hit, weight) \in 0..weight
           /\ hit => Points(hit, weight) = weight
BY DEF Points

\* The score exceeds its technical part by at most the ten points of the two
\* news factors, and structure alone is worth 28.
LEMMA ScoreSplit ==
    ASSUME NEW e, NEW d
    PROVE  /\ Score(e, d) \in Nat
           /\ TechnicalScore(e, d) \in Nat
           /\ TechnicalScore(e, d) <= Score(e, d)
           /\ Score(e, d) <= TechnicalScore(e, d) + 10
           /\ Factors(e, d).structure => TechnicalScore(e, d) >= 28
<1> DEFINE f  == Factors(e, d)
           p1 == Points(f.structure, 28)
           p2 == Points(f.order_block, 14)
           p3 == Points(f.fvg, 10)
           p4 == Points(f.liquidity, 10)
           p5 == Points(f.premium_discount, 10)
           p6 == Points(f.displacement, 10)
           p7 == Points(f.smt, 5)
           p8 == Points(f.session, 3)
           p9 == Points(f.fundamental, 5)
           p0 == Points(f.news, 5)
<1>1. Score(e, d) = p1 + p2 + p3 + p4 + p5 + p6 + p7 + p8 + p9 + p0
  BY DEF Score, Sum, WEIGHTS
<1>2. TechnicalScore(e, d) = Score(e, d) - p0 - p9
  BY DEF TechnicalScore, WEIGHTS
<1>3. /\ p1 \in 0..28 /\ p2 \in 0..14 /\ p3 \in 0..10 /\ p4 \in 0..10
      /\ p5 \in 0..10 /\ p6 \in 0..10 /\ p7 \in 0..5 /\ p8 \in 0..3
      /\ p9 \in 0..5 /\ p0 \in 0..5
  BY PointsRange
<1>4. Factors(e, d).structure => p1 = 28
  BY PointsRange
<1> HIDE DEF f, p1, p2, p3, p4, p5, p6, p7, p8, p9, p0
<1> QED
  BY <1>1, <1>2, <1>3, <1>4

\* The scores of a setup differ by more than the margin, and so by more than
\* the news is worth.
LEMMA SetupIsTechnical ==
    ASSUME NEW e, NEW d, IsSetup(e, d)
    PROVE  TechnicalScore(e, d) > TechnicalScore(e, Opposite(d))
<1>1. Factors(e, d).structure /\ ~Conflicted(e, d)
  BY DEF IsSetup
<1>2. Score(e, Opposite(d)) < AtLeast(20, Score(e, d) - 10)
  BY <1>1, ScoreSplit DEF Conflicted, AtLeast
<1>3. CASE Score(e, d) - 10 > 20
  BY <1>2, <1>3, ScoreSplit DEF AtLeast
<1>4. CASE Score(e, d) - 10 <= 20
  <2>1. Score(e, Opposite(d)) < 20
    BY <1>2, <1>4, ScoreSplit DEF AtLeast
  <2>2. TechnicalScore(e, d) >= 28
    BY <1>1, ScoreSplit
  <2> QED
    BY <2>1, <2>2, ScoreSplit
<1> QED
  BY <1>3, <1>4, ScoreSplit

-----------------------------------------------------------------------------
(* The step.                                                               *)

\* The result, once there is one, is that of the evidence.
ResultOK == result \in {Unclassified, Analysis(evidence)}

LEMMA ResultIsAnalysis == Spec => []ResultOK
<1>1. Init => ResultOK
  BY DEF Init, ResultOK
<1>2. ResultOK /\ [Next]_vars => ResultOK'
  BY DEF ResultOK, Next, Classify, vars
<1> QED
  BY <1>1, <1>2, PTL DEF Spec

\* A result that is a SETUP names a direction for which IsSetup holds.
LEMMA SetupResult ==
    ASSUME ResultOK, result.status = "SETUP"
    PROVE  IsSetup(evidence, result.direction)
<1> Unclassified.status = "not classified"
  BY DEF Unclassified
<1> result # Unclassified
  OBVIOUS
<1>1. result = Analysis(evidence)
  BY DEF ResultOK
<1>2. ~Raises(evidence)
  BY <1>1 DEF Analysis
<1>3. /\ Status(evidence) = "SETUP"
      /\ result.direction = Best(evidence)
  BY <1>1, <1>2 DEF Analysis
<1> QED
  BY <1>3 DEF Status

\* News never decides which way a SETUP points (pipeline.py:257-275), whatever
\* the timeframes, the news and the minimum confidence.
THEOREM NewsNeverDecides == Spec => []NewsNeverDecidesDirection
<1>1. ResultOK => NewsNeverDecidesDirection
  BY SetupResult, SetupIsTechnical DEF NewsNeverDecidesDirection
<1> QED
  BY <1>1, ResultIsAnalysis, PTL

-----------------------------------------------------------------------------
(* The market upside down, and with more evidence.                         *)

\* The evidence never leaves its type.
LEMMA EvidenceTyped == Spec => [](evidence \in Evidence)
<1>1. Init => evidence \in Evidence
  BY DEF Init
<1>2. evidence \in Evidence /\ [Next]_vars => (evidence \in Evidence)'
  BY DEF Next, Classify, vars
<1> QED
  BY <1>1, <1>2, PTL DEF Spec

\* Two evidences whose factors for two directions agree.
SameFactors(f, g) ==
    /\ f.structure <=> g.structure
    /\ f.order_block <=> g.order_block
    /\ f.fvg <=> g.fvg
    /\ f.liquidity <=> g.liquidity
    /\ f.premium_discount <=> g.premium_discount
    /\ f.displacement <=> g.displacement
    /\ f.smt <=> g.smt
    /\ f.session <=> g.session
    /\ f.fundamental <=> g.fundamental
    /\ f.news <=> g.news

\* g has the factors of f.
MoreFactors(f, g) ==
    /\ f.structure => g.structure
    /\ f.order_block => g.order_block
    /\ f.fvg => g.fvg
    /\ f.liquidity => g.liquidity
    /\ f.premium_discount => g.premium_discount
    /\ f.displacement => g.displacement
    /\ f.smt => g.smt
    /\ f.session => g.session
    /\ f.fundamental => g.fundamental
    /\ f.news => g.news

\* More factors earn more.
LEMMA MorePoints ==
    ASSUME NEW p, NEW q, p => q, NEW weight \in Nat
    PROVE  /\ Points(p, weight) <= Points(q, weight)
           /\ Points(p, weight) \in Nat /\ Points(q, weight) \in Nat
BY DEF Points

LEMMA MoreSum ==
    ASSUME NEW f, NEW g, MoreFactors(f, g), NEW w \in {WEIGHTS, TECHNICAL}
    PROVE  Sum(f, w) <= Sum(g, w) /\ Sum(f, w) \in Nat /\ Sum(g, w) \in Nat
<1> DEFINE P(k) == Points(f[k], w[k])
           Q(k) == Points(g[k], w[k])
<1>0. ASSUME NEW k \in {"structure", "order_block", "fvg", "liquidity", "premium_discount",
                        "displacement", "smt", "session", "fundamental", "news"}
      PROVE  w[k] \in Nat
  BY DEF WEIGHTS, TECHNICAL
<1>1. ASSUME NEW k \in {"structure", "order_block", "fvg", "liquidity", "premium_discount",
                        "displacement", "smt", "session", "fundamental", "news"}
      PROVE  P(k) <= Q(k) /\ P(k) \in Nat /\ Q(k) \in Nat
  <2>1. f[k] => g[k]
    BY DEF MoreFactors
  <2> QED
    BY <1>0, <2>1, MorePoints
<1>2. Sum(f, w) = P("structure") + P("order_block") + P("fvg") + P("liquidity")
        + P("premium_discount") + P("displacement") + P("smt") + P("session")
        + P("fundamental") + P("news")
  BY DEF Sum
<1>3. Sum(g, w) = Q("structure") + Q("order_block") + Q("fvg") + Q("liquidity")
        + Q("premium_discount") + Q("displacement") + Q("smt") + Q("session")
        + Q("fundamental") + Q("news")
  BY DEF Sum
<1> HIDE DEF P, Q
<1> QED
  BY <1>1, <1>2, <1>3

\* With more factors for a direction, and no more against it, a setup for it
\* remains one.
LEMMA SetupStays ==
    ASSUME NEW e, NEW d, NEW e2, NEW d2, IsSetup(e, d),
           e2.blackout = e.blackout,
           MoreFactors(Factors(e, d), Factors(e2, d2)),
           SameFactors(Factors(e, Opposite(d)), Factors(e2, Opposite(d2))),
           Aligned(e, d) => Aligned(e2, d2)
    PROVE  /\ IsSetup(e2, d2)
           /\ TechnicalHits(e2, d2) >= 3
           /\ Score(e2, d2) > Score(e2, Opposite(d2))
<1> DEFINE s == Score(e, d)
           s2 == Score(e2, d2)
           o == Score(e, Opposite(d))
           o2 == Score(e2, Opposite(d2))
           h == TechnicalHits(e, d)
           h2 == TechnicalHits(e2, d2)
<1>1. /\ ~e.blackout /\ Factors(e, d).structure /\ Aligned(e, d)
      /\ h >= 3 /\ ~Conflicted(e, d)
      /\ Confidence(e, d) >= 4 * MinConfidence
  BY DEF IsSetup
<1>2. s <= s2 /\ s \in Nat /\ s2 \in Nat
  BY MoreSum DEF Score
<1>3. h <= h2 /\ h \in Nat /\ h2 \in Nat
  BY MoreSum DEF TechnicalHits
<1>4. o2 <= o /\ o \in Nat /\ o2 \in Nat
  <2>1. MoreFactors(Factors(e2, Opposite(d2)), Factors(e, Opposite(d)))
    BY DEF SameFactors, MoreFactors
  <2> QED
    BY <2>1, MoreSum DEF Score
<1>5. s >= 28
  BY <1>1, ScoreSplit
<1> HIDE DEF s, s2, o, o2, h, h2
<1>6. o < AtLeast(20, s - 10)
  BY <1>1, <1>2, <1>4 DEF Conflicted, AtLeast, s, o
<1>7. o2 < AtLeast(20, s2 - 10) /\ o2 < s2
  BY <1>2, <1>4, <1>5, <1>6 DEF AtLeast
<1>8. ~Conflicted(e2, d2)
  BY <1>2, <1>4, <1>7 DEF Conflicted, AtLeast, s2, o2
<1>9. Confidence(e2, d2) >= 4 * MinConfidence
  <2>1. Confidence(e, d) = IF 4 * s > 400 THEN 400 ELSE 4 * s
    BY <1>1 DEF Confidence, s
  <2>2. Confidence(e2, d2) = IF 4 * s2 > 400 THEN 400 ELSE 4 * s2
    BY <1>8 DEF Confidence, s2
  <2>3. MinConfidence \in Int
    BY ConstantsAssumption
  <2> QED
    BY <1>1, <1>2, <2>1, <2>2, <2>3
<1>10. h2 >= 3
  BY <1>1, <1>3 DEF h
<1>11. Factors(e2, d2).structure /\ Aligned(e2, d2) /\ ~e2.blackout
  BY <1>1 DEF MoreFactors
<1>12. IsSetup(e2, d2)
  BY <1>8, <1>9, <1>10, <1>11 DEF IsSetup, h2
<1> QED
  BY <1>7, <1>10, <1>12 DEF s2, o2, h2

\* A direction that is a setup and scores more is what the classification says,
\* unless it raises.
LEMMA SetupIsClassified ==
    ASSUME NEW e, NEW d \in Directions, IsSetup(e, d), TechnicalHits(e, d) >= 3,
           Score(e, d) > Score(e, Opposite(d)), e.trend[Primary] # "none"
    PROVE  /\ Analysis(e).status = "SETUP"
           /\ Analysis(e).direction = d
           /\ Analysis(e).levels = (d \in e.primaryObs \cup e.primaryFvgs)
<1>1. Score(e, "bullish") \in Nat /\ Score(e, "bearish") \in Nat /\ TechnicalHits(e, d) \in Nat
  BY ScoreSplit, MoreSum DEF TechnicalHits, MoreFactors
<1>2. Best(e) = d
  BY <1>1 DEF Best, Directions, Opposite
<1>3. Status(e) = "SETUP"
  <2>1. TechnicalHits(e, d) # 0
    BY <1>1
  <2> QED
    BY <1>2, <2>1 DEF Status
<1>4. ~Raises(e)
  BY DEF Raises
<1> QED
  BY <1>2, <1>3, <1>4 DEF Analysis, HasZone

\* What a result SETUP says of the evidence.
LEMMA SetupEvidence ==
    ASSUME ResultOK, result.status = "SETUP"
    PROVE  /\ result.direction \in Directions
           /\ IsSetup(evidence, result.direction)
           /\ evidence.trend[Primary] # "none"
           /\ result.levels = (result.direction \in evidence.primaryObs \cup evidence.primaryFvgs)
<1>1. IsSetup(evidence, result.direction)
  BY SetupResult
<1>2. result = Analysis(evidence)
  <2>1. Unclassified.status = "not classified"
    BY DEF Unclassified
  <2>2. result # Unclassified
    BY <2>1
  <2> QED
    BY <2>2 DEF ResultOK
<1>3. ~Raises(evidence)
  BY <1>2 DEF Analysis
<1>4. /\ Status(evidence) = "SETUP" /\ result.direction = Best(evidence)
      /\ result.levels = HasZone(evidence)
  <2>1. /\ Status(evidence) = "SETUP" /\ result.direction = Best(evidence)
        /\ result.levels = (Status(evidence) = "SETUP" /\ HasZone(evidence))
    BY <1>2, <1>3 DEF Analysis
  <2>2. (Status(evidence) = "SETUP" /\ HasZone(evidence)) = HasZone(evidence)
    BY <2>1 DEF HasZone
  <2> QED
    BY <2>1, <2>2
<1>5. Factors(evidence, Best(evidence)).structure
  BY <1>1, <1>4 DEF IsSetup
<1> QED
  BY <1>1, <1>3, <1>4, <1>5 DEF Raises, Best, Directions, HasZone

-----------------------------------------------------------------------------
(* The market upside down.                                                 *)

LEMMA Opposites ==
    ASSUME NEW d \in Directions
    PROVE  /\ Opposite(d) \in Directions /\ Opposite(Opposite(d)) = d
           /\ \A x \in Directions \cup {"none"} : MirrorOf(x) = Opposite(d) <=> x = d
           /\ \A S \in SUBSET Directions : Opposite(d) \in MirrorSet(S) <=> d \in S
<1>1. Opposite(d) \in Directions /\ Opposite(Opposite(d)) = d
  BY DEF Directions, Opposite
<1>2. \A x \in Directions \cup {"none"} : MirrorOf(x) = Opposite(d) <=> x = d
  BY DEF Directions, Opposite, MirrorOf
<1>3. \A x \in Directions : Opposite(x) = Opposite(d) => x = d
  BY DEF Directions, Opposite
<1>4. \A S \in SUBSET Directions : Opposite(d) \in MirrorSet(S) <=> d \in S
  BY <1>3 DEF MirrorSet
<1> QED
  BY <1>1, <1>2, <1>4

LEMMA MirrorFields ==
    ASSUME NEW e \in Evidence
    PROVE  /\ \A tf \in Timeframes : Mirror(e).trend[tf] = MirrorOf(e.trend[tf])
           /\ Mirror(e).obs = MirrorSet(e.obs)
           /\ Mirror(e).primaryObs = MirrorSet(e.primaryObs)
           /\ Mirror(e).fvgs = MirrorSet(e.fvgs)
           /\ Mirror(e).primaryFvgs = MirrorSet(e.primaryFvgs)
           /\ Mirror(e).sweeps = MirrorSet(e.sweeps)
           /\ Mirror(e).zone = MirrorOf(e.zone)
           /\ Mirror(e).displaced = e.displaced
           /\ Mirror(e).smt = MirrorSet(e.smt)
           /\ Mirror(e).inSession = e.inSession
           /\ Mirror(e).sentiment = -e.sentiment
           /\ Mirror(e).blackout = e.blackout
BY DEF Mirror, Evidence

\* The factors for a direction are those of the mirror image for the opposite.
LEMMA MirrorFactors ==
    ASSUME NEW e \in Evidence, NEW d \in Directions
    PROVE  SameFactors(Factors(e, d), Factors(Mirror(e), Opposite(d)))
<1> DEFINE m == Mirror(e)
           f == Factors(e, d)
           g == Factors(m, Opposite(d))
<1>1. /\ e.trend \in [Timeframes -> Directions \cup {"none"}]
      /\ e.obs \in SUBSET Directions /\ e.fvgs \in SUBSET Directions
      /\ e.sweeps \in SUBSET Directions /\ e.smt \in SUBSET Directions
      /\ e.zone \in Directions \cup {"none"}
      /\ e.sentiment \in Int
  BY ConstantsAssumption DEF Evidence
<1>2. f.structure <=> g.structure
  <2>1. \A tf \in Timeframes : e.trend[tf] = d <=> m.trend[tf] = Opposite(d)
    BY <1>1, MirrorFields, Opposites
  <2> QED
    BY <2>1 DEF Factors
<1>3. f.order_block <=> g.order_block
  BY <1>1, MirrorFields, Opposites DEF Factors
<1>4. f.fvg <=> g.fvg
  BY <1>1, MirrorFields, Opposites DEF Factors
<1>5. f.liquidity <=> g.liquidity
  BY <1>1, MirrorFields, Opposites DEF Factors
<1>6. f.premium_discount <=> g.premium_discount
  BY <1>1, MirrorFields, Opposites DEF Factors
<1>7. f.smt <=> g.smt
  BY <1>1, MirrorFields, Opposites DEF Factors
<1>8. (f.displacement <=> g.displacement) /\ (f.session <=> g.session)
  BY MirrorFields DEF Factors
<1>9. FundamentalSupports(e, d) <=> FundamentalSupports(m, Opposite(d))
  <2>1. m.sentiment = -e.sentiment /\ m.blackout = e.blackout
    BY MirrorFields
  <2> HIDE DEF m
  <2> QED
    BY <1>1, <2>1 DEF FundamentalSupports, Opposite, Directions
<1>10. NewsSupports(e, d) <=> NewsSupports(m, Opposite(d))
  <2>1. m.sentiment = -e.sentiment
    BY MirrorFields
  <2> HIDE DEF m
  <2> QED
    BY <1>1, <2>1 DEF NewsSupports, Opposite, Directions
<1>11. (f.fundamental <=> g.fundamental) /\ (f.news <=> g.news)
  BY <1>9, <1>10 DEF Factors
<1> QED
  BY <1>2, <1>3, <1>4, <1>5, <1>6, <1>7, <1>8, <1>11 DEF SameFactors

\* No direction is favoured: the market upside down is the opposite setup, with
\* levels if this one has them (pipeline.py:204-275), whatever the timeframes,
\* the news and the minimum confidence.
THEOREM Mirrored == Spec => []MirrorSymmetry
<1>1. ResultOK /\ evidence \in Evidence => MirrorSymmetry
  <2> SUFFICES ASSUME ResultOK, evidence \in Evidence, result.status = "SETUP"
               PROVE  /\ Analysis(Mirror(evidence)).status = "SETUP"
                      /\ Analysis(Mirror(evidence)).direction = Opposite(result.direction)
                      /\ Analysis(Mirror(evidence)).levels = result.levels
    BY DEF MirrorSymmetry
  <2> DEFINE e == evidence
             d == result.direction
             m == Mirror(evidence)
             c == Opposite(result.direction)
  <2>1. /\ d \in Directions /\ IsSetup(e, d) /\ e.trend[Primary] # "none"
        /\ result.levels = (d \in e.primaryObs \cup e.primaryFvgs)
    BY SetupEvidence
  <2>2. c \in Directions /\ Opposite(c) = d
    BY <2>1, Opposites
  <2>3. m.blackout = e.blackout
    BY MirrorFields
  <2>4. SameFactors(Factors(e, d), Factors(m, c))
    BY <2>1, MirrorFactors
  <2>5. MoreFactors(Factors(e, d), Factors(m, c))
    BY <2>4 DEF SameFactors, MoreFactors
  <2>6. SameFactors(Factors(e, Opposite(d)), Factors(m, Opposite(c)))
    BY <2>2, MirrorFactors
  <2>7. Aligned(e, d) => Aligned(m, c)
    <3>1. \A tf \in Timeframes : e.trend[tf] = d <=> m.trend[tf] = c
      BY <2>1, MirrorFields, Opposites DEF Evidence
    <3>2. Votes(e, d) = Votes(m, c)
      BY <3>1 DEF Votes
    <3> QED
      BY <3>2 DEF Aligned
  <2>8. m.trend[Primary] # "none"
    <3>1. Primary \in Timeframes /\ e.trend[Primary] \in Directions
      BY <2>1, ConstantsAssumption DEF Evidence
    <3> QED
      BY <3>1, MirrorFields DEF MirrorOf, Opposite, Directions
  <2>9. c \in m.primaryObs \cup m.primaryFvgs <=> d \in e.primaryObs \cup e.primaryFvgs
    <3>1. m.primaryObs = MirrorSet(e.primaryObs) /\ m.primaryFvgs = MirrorSet(e.primaryFvgs)
      BY MirrorFields
    <3>2. e.primaryObs \in SUBSET Directions /\ e.primaryFvgs \in SUBSET Directions
      BY DEF Evidence
    <3> QED
      BY <2>1, <3>1, <3>2, Opposites
  <2> HIDE DEF e, d, m, c
  <2>10. IsSetup(m, c) /\ TechnicalHits(m, c) >= 3 /\ Score(m, c) > Score(m, Opposite(c))
    BY <2>1, <2>3, <2>5, <2>6, <2>7, SetupStays
  <2>11. /\ Analysis(m).status = "SETUP" /\ Analysis(m).direction = c
         /\ Analysis(m).levels = (c \in m.primaryObs \cup m.primaryFvgs)
    BY <2>2, <2>8, <2>10, SetupIsClassified
  <2> QED
    BY <2>1, <2>9, <2>11 DEF e, d, m, c
<1> QED
  BY <1>1, ResultIsAnalysis, EvidenceTyped, PTL

\* A further gap, sweep or divergence for the direction of a setup keeps the
\* setup (pipeline.py:257-275), whatever the timeframes, the news and the
\* minimum confidence.
THEOREM EvidenceHelps == Spec => []MoreEvidenceKeepsSetup
<1>1. ResultOK /\ evidence \in Evidence => MoreEvidenceKeepsSetup
  <2> SUFFICES ASSUME ResultOK, evidence \in Evidence, result.status = "SETUP",
                      NEW e2 \in Strengthened(evidence, result.direction)
               PROVE  /\ Analysis(e2).status = "SETUP"
                      /\ Analysis(e2).direction = result.direction
    BY DEF MoreEvidenceKeepsSetup
  <2> DEFINE e == evidence
             d == result.direction
  <2>1. d \in Directions /\ IsSetup(e, d) /\ e.trend[Primary] # "none"
    BY SetupEvidence
  <2>2. /\ e2.trend = e.trend /\ e2.obs = e.obs /\ e2.zone = e.zone
        /\ e2.displaced = e.displaced /\ e2.inSession = e.inSession
        /\ e2.sentiment = e.sentiment /\ e2.blackout = e.blackout
        /\ e2.fvgs \in {e.fvgs, e.fvgs \cup {d}}
        /\ e2.sweeps \in {e.sweeps, e.sweeps \cup {d}}
        /\ e2.smt \in {e.smt, e.smt \cup {d}}
    BY DEF Strengthened, Evidence
  <2>3. Opposite(d) # d
    BY <2>1 DEF Opposite, Directions
  <2> HIDE DEF e, d
  <2>4. \A c : /\ FundamentalSupports(e2, c) = FundamentalSupports(e, c)
               /\ NewsSupports(e2, c) = NewsSupports(e, c)
    BY <2>2 DEF FundamentalSupports, NewsSupports
  <2>5. MoreFactors(Factors(e, d), Factors(e2, d))
    BY <2>2, <2>4 DEF MoreFactors, Factors
  <2>6. SameFactors(Factors(e, Opposite(d)), Factors(e2, Opposite(d)))
    BY <2>2, <2>3, <2>4 DEF SameFactors, Factors
  <2>7. Aligned(e, d) => Aligned(e2, d)
    BY <2>2 DEF Aligned, Votes
  <2>8. IsSetup(e2, d) /\ TechnicalHits(e2, d) >= 3 /\ Score(e2, d) > Score(e2, Opposite(d))
    BY <2>1, <2>2, <2>5, <2>6, <2>7, SetupStays
  <2> QED
    BY <2>1, <2>2, <2>8, SetupIsClassified DEF d
<1> QED
  BY <1>1, ResultIsAnalysis, EvidenceTyped, PTL
=============================================================================
