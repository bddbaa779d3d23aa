--------------------------- MODULE MCSignalBridge ---------------------------
(* Small instances of SignalBridge for TLC.                                *)
EXTENDS SignalBridge, TLC

CONSTANTS p1, p2, r1, r2, gold, euro

OnePoller == {p1}
TwoPollers == {p1, p2}
OneReporter == {r1}
TwoReporters == {r1, r2}
OneSymbol == {gold}
TwoSymbols == {gold, euro}
TwoSignals == 1..2
OneSignal == {1}

\* Requests are interchangeable: every handler treats them alike.
RequestSymmetry == Permutations(TwoPollers) \cup Permutations(TwoReporters)
=============================================================================
