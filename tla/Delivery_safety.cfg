\* Three codes, every choice of configured channels, one crash of the server.
CONSTANTS
    Codes <- ThreeCodes
    MaxCrashes = 1
SPECIFICATION FairSpec
INVARIANTS SuccessIsTrue
PROPERTIES ImplementsCourier EveryTaskEnds
\* All tasks may have ended.
CHECK_DEADLOCK FALSE
