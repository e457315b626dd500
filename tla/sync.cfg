SPECIFICATION SyncSpec
CONSTANTS
    N = 3
    MaxGen = 12
    MayTimeOut = TRUE
    DeleteMayFail = FALSE
    Script <- MixedScript
    Owners = {0, 1}
    MayRaise = {5, 11}
    Patient = TRUE
INVARIANTS UpdatesSynchronized KeysBounded NoSpuriousFailure AddressesAgree AddressesFresh ReadsCurrent
PROPERTIES UpdatesEnd
