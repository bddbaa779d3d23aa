\* Two analyses at once before and in the run-up to an event.
CONSTANTS
    a1 = a1
    a2 = a2
    Analyses <- TwoAnalyses
    Timeframes <- HigherFirst
    Primary = "M15"
    MinBars = 1
    StaleAfter = 0
    Keys = {"JBlanked", "FMP"}
    Events <- LaterEvent
    Before = 1
    After = 1
    Ahead = 2
    Soon = 2
    MaxTime = 3
SYMMETRY Symmetry
SPECIFICATION Spec
\* The requests are given and each is answered once.
CHECK_DEADLOCK FALSE
INVARIANTS LateOnlyByAwaits ContradictionIsInTheReports SequentialAnalysesAdvance
