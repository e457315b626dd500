SPECIFICATION FairSpec
CONSTANTS
    Rank <- TwoRanks
    Leader <- TwoLeaders
    NBuckets = 3
    Receiver <- TwoReceivers
    Round <- TwoRounds
    H2D = TRUE
    Faults = {"copy"}
PROPERTY WorkersQuit
CHECK_DEADLOCK FALSE
