CONSTANTS
    FrameSizes <- MCFrameSizesOversize
    MTUBlocks = 2
    MaxFrames = 3
    WireCap = 6
    FlushBeforeSend = TRUE
SPECIFICATION Spec
INVARIANT NoDecodeError
CHECK_DEADLOCK FALSE
