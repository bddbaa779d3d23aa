\* A market of six bars out of seven shapes beside two correlated ones.
CONSTANTS
    Lookback = 1
    SearchWindow = 4
    RangeWindow = 2
    Tolerance = 2
    MaxBars = 6
    BarShapes <- SevenShapes
    RangeBars = 5
    MinConfidence = 45
    RiskReward = 2
    MinWidth = 1
    CorrelatedMarkets <- TwoMarkets
SPECIFICATION PipelineSpec
\* The market ends after MaxBars bars.
CHECK_DEADLOCK FALSE
INVARIANTS ClosesStayBetweenLevels WindowForgetsOnlyItsEdge EvidenceIsPossible StoppedByJumpOnly
PROPERTIES ImplementsLiveStructure NothingIsRepainted DivergenceIsSettled
