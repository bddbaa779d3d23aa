--------------------------- MODULE MCAnalysisRun ---------------------------
(* Small instances of AnalysisRun for TLC.                                 *)
EXTENDS AnalysisRun, TLC

CONSTANTS a1, a2

OneAnalysis == {a1}
TwoAnalyses == {a1, a2}
HigherFirst == <<"H1", "M15">>
OneEvent == {3}
LaterEvent == {4}

Symmetry == Permutations(Analyses)
=============================================================================
