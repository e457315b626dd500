SPECIFICATION Spec
CONSTANTS
    NUpdates = 3
    Addr = {a1, a2, a3}
    Faults = {"early", "engine", "request", "open", "wrap", "copy", "barrier"}
SYMMETRY Addresses
INVARIANTS HandlesPutOnce UnmappedBeforeFreed PublishedIsAllocated
PROPERTIES OpenedInTime
CHECK_DEADLOCK FALSE
