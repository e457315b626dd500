SPECIFICATION Spec
CONSTANTS
    N = 3
    Backends = {"nccl", "hccl"}
    Script <- MixedScript
    Objects <- Bytes
    MayFail = {2, 5}
INVARIANTS CollectivesMatch CommunicatorsBalanced ObjectsExact
PROPERTIES CallsEnd
