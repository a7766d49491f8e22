CONSTANTS
    FrameSizes <- MCFrameSizes
    MTUBlocks = 2
    MaxFrames = 3
    WireCap = 6
    FlushBeforeSend = TRUE
SPECIFICATION FairSpec
PROPERTY EveryFrameDelivered
CHECK_DEADLOCK FALSE
