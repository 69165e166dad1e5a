CONSTANTS
    NumFrames = 2
    InFlight = 2
    UiPerFrame = 1
    Faults = {"begin", "blit", "signal"}
SPECIFICATION FairSpec
INVARIANTS RendererHasExclusiveFrame HandoffSemaphoreProtocol SaveIsQuiescent
PROPERTIES ImplementsPublishSlot OnlyLostFramesStick PublishSlotFreed SaveCompletes
CHECK_DEADLOCK FALSE
