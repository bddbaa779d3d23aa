\* One poll and one report at a time; unfiltered polls recur, responses may be
\* lost.
CONSTANTS
    p1 = p1
    p2 = p2
    r1 = r1
    r2 = r2
    gold = gold
    euro = euro
    SignalIds <- TwoSignals
    Symbols <- TwoSymbols
    Pollers <- OnePoller
    Reporters <- OneReporter
    Limit = 1
    MaxFaults = 1
SPECIFICATION FairSpec
INVARIANTS HandedOutOnce ReportedIsFinal
PROPERTY EverySetupIsHandedOut
