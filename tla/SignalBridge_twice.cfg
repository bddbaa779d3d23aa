\* Two polls in flight.
CONSTANTS
    p1 = p1
    p2 = p2
    r1 = r1
    r2 = r2
    gold = gold
    euro = euro
    SignalIds <- OneSignal
    Symbols <- OneSymbol
    Pollers <- TwoPollers
    Reporters <- OneReporter
    Limit = 1
    MaxFaults = 0
SPECIFICATION Spec
INVARIANT HandedOutOnce
