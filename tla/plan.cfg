SPECIFICATION Spec
CONSTANTS
    Deployments <- SmallDeployments
    Align = 2
    PinLimit = 4
    MaxBucket = 6
INVARIANTS LayoutFaithful EveryTensorOnce MemoryFits PipelineReady SendersDistinct DevicesEven
