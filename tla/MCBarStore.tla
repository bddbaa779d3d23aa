------------------------------ MODULE MCBarStore ------------------------------
(* Small instances of BarStore for TLC.                                    *)
EXTENDS BarStore, TLC

CONSTANTS i1, i2, a1, a2

OneIngest == {i1}
TwoAnalyses == {a1, a2}
TwoTimes == 1..2

RequestSymmetry == Permutations(Ingests) \cup Permutations(Analyses)
=============================================================================
