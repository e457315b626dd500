SPECIFICATION Spec
CONSTANTS
    Rank <- TwoRanks
    Leader <- TwoLeaders
    NBuckets = 3
    Receiver <- TwoReceivers
    Round <- TwoRounds
    H2D = TRUE
    Faults = {"load"}
INVARIANT FailureReachesAll
CHECK_DEADLOCK FALSE
