CONSTANTS
    FrameSizes <- MCFrameSizes
    MTUBlocks = 2
    MaxFrames = 3
    WireCap = 6
    FlushBeforeSend = TRUE
SPECIFICATION Spec
INVARIANT TypeOK
INVARIANT NoDecodeError
INVARIANT DeliveredInOrder
INVARIANT CipherStreamContiguous
CHECK_DEADLOCK FALSE
