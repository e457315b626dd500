SPECIFICATION SyncSpec
CONSTANTS
    N = 3
    MaxGen = 5
    MayTimeOut = TRUE
    DeleteMayFail = FALSE
    Script <- RetryScript
    Owners = {0, 1}
    MayRaise = {3}
    Patient = TRUE
INVARIANT UpdatesSynchronized
