SPECIFICATION Spec
CONSTANTS
    Names = {ckpt1, ckpt2}
    s1 = s1
    b1 = b1
    f1 = f1
    f2 = f2
    Regions <- TwoSizes
    SizeOf <- Sizes
    Files <- FileRegions
    Shapes <- UpToTwo
    MaxFiles = 2
    MayClash = TRUE
    Faults = {"load", "pin", "engine", "unpin"}
SYMMETRY Alike
INVARIANTS PublishedIsLive StoreMatchesPools PinsMatchPools RollbackHarmless
PROPERTIES SharedPoolReused
