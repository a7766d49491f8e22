CONSTANTS
    MaxMsgs = 1
    MaxIn = 2
    BidValues <- MCBidValues
SPECIFICATION Spec
INVARIANTS TypeOK LowestBidWins
PROPERTIES IngressDrained
CHECK_DEADLOCK FALSE
