CONSTANTS
    FrameSizes <- MCFrameSizes
    MTUBlocks = 2
    MaxFrames = 3
    WireCap = 6
    FlushBeforeSend = FALSE
SPECIFICATION Spec
INVARIANT NoDecodeError
CHECK_DEADLOCK FALSE
