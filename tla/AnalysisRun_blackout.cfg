\* An analysis after an event.
CONSTANTS
    a1 = a1
    a2 = a2
    Analyses <- OneAnalysis
    Timeframes <- HigherFirst
    Primary = "M15"
    MinBars = 1
    StaleAfter = 0
    Keys = {"JBlanked", "FMP"}
    Events <- OneEvent
    Before = 1
    After = 1
    Ahead = 4
    Soon = 2
    MaxTime = 4
SPECIFICATION Spec
\* The requests are given and each is answered once.
CHECK_DEADLOCK FALSE
INVARIANT SetupOutsideBlackout
