SPECIFICATION FairSpec
CONSTANTS
    Frames = {1, 2}
    MaxFrames = 3
    SlowStart = FALSE
INVARIANTS
    TypeOK
    BufferOwned
PROPERTIES
    ImplementsLink
    CloseReturns
    EndNoticed
    FrameEvaluated
