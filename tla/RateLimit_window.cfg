\* Two clients, two requests per window of two ticks, seven ticks.
CONSTANTS
    c1 = c1
    c2 = c2
    Clients <- TwoClients
    max_requests = 2
    window_seconds = 2
    MaxTime = 7
SPECIFICATION LimiterSpec
SYMMETRY ClientSymmetry
INVARIANTS WindowIsBounded RefusedOnlyWhenFull
