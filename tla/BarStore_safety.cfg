\* A payload and two analyses, two bars each.
CONSTANTS
    i1 = i1
    i2 = i2
    a1 = a1
    a2 = a2
    Times <- TwoTimes
    Ingests <- OneIngest
    Analyses <- TwoAnalyses
    MaxBatch = 2
    MinBars = 1
    BarLimit = 1
    StaleAfter = 0
SPECIFICATION Spec
SYMMETRY RequestSymmetry
\* The requests are given and each is answered once.
CHECK_DEADLOCK FALSE
INVARIANTS AllOrNothing AcceptedBarsAreStored AnalysisReadsWhatItFetched BackfillsDoNotCollide
