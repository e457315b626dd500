SPECIFICATION Spec
CONSTANTS
    Rank <- ThreeRanks
    Leader <- ThreeLeaders
    NBuckets = 4
    Receiver <- ThreeReceivers
    Round <- ThreeRounds
    H2D = FALSE
    Faults = {"attach", "load", "hook", "copy", "request"}
INVARIANTS IInv Agreement
CHECK_DEADLOCK FALSE
