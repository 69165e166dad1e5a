CONSTANTS
    NumFrames = 2
    InFlight = 3
    UiPerFrame = 1
    Faults = {}
SPECIFICATION FairSpec
PROPERTY RendererGetsFrame
