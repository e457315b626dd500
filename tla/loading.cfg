SPECIFICATION Spec
CONSTANTS
    wq = wq
    norm = norm
    Checkpoints <- SmallCheckpoints
    WorldSizes = {1, 2, 3, 5}
INVARIANTS EveryFileOnce ShardsInPlace
