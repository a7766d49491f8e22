CONSTANTS
    MaxMsgs = 0
    MaxIn = 1
    BidValues <- MCBidValues
SPECIFICATION Spec
PROPERTY EngineParks
CHECK_DEADLOCK FALSE
