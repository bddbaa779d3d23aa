\* Two timeframes, a low threshold; news at the threshold on one side, beyond
\* it on the other.
CONSTANTS
    Primary = "M15"
    Timeframes <- TwoTimeframes
    Sentiments <- NewsBothWays
    MinConfidence = 20
SPECIFICATION MCSpec
\* A classification ends.
CHECK_DEADLOCK FALSE
INVARIANTS NewsNeverDecidesDirection MirrorSymmetry MoreEvidenceKeepsSetup
