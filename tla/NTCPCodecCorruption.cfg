CONSTANTS
    FrameSizes <- MCFrameSizesOversize
    MTUBlocks = 2
    MaxFrames = 3
    WireCap = 6
    FlushBeforeSend = FALSE
SPECIFICATION Spec
PROPERTY ImplementsFrameChannel
CHECK_DEADLOCK FALSE
