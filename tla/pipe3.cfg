SPECIFICATION FairSpec
CONSTANTS
    Rank <- ThreeRanks
    Leader <- ThreeLeaders
    NBuckets = 4
    Receiver <- ThreeReceivers
    Round <- ThreeRounds
    H2D = TRUE
    Faults = {"attach", "load"}
INVARIANTS HalfIntact AppliedInOrder FreedAfterUnmap WorkerGone
PROPERTIES Promise Termination
