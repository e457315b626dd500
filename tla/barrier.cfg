SPECIFICATION BarrierSpec
CONSTANTS
    N = 3
    MaxGen = 5
    MayTimeOut = TRUE
    DeleteMayFail = TRUE
INVARIANTS BarrierInv BarrierHolds WaitEnds
PROPERTIES UnusedWhenDeleted
CHECK_DEADLOCK FALSE
