\* Two polls and one report in flight, two signals competing for LIMIT 1,
\* a killed request or a lost response.
CONSTANTS
    p1 = p1
    p2 = p2
    r1 = r1
    r2 = r2
    gold = gold
    euro = euro
    SignalIds <- TwoSignals
    Symbols <- OneSymbol
    Pollers <- TwoPollers
    Reporters <- OneReporter
    Limit = 1
    MaxFaults = 1
SPECIFICATION Spec
SYMMETRY RequestSymmetry
INVARIANTS OnlySetupsReachEA OutcomeWasReported HandoutsBoundedByPolls PendingIsUntouched
PROPERTY NeverPendingAgain
