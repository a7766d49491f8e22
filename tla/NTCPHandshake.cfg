CONSTANTS
    Msg3Blocks = 2
    MaxData = 2
    Faults = {}
SPECIFICATION Spec
INVARIANT TypeOK
INVARIANT StreamsContiguous
PROPERTY ImplementsHandshakeOutcome
PROPERTY EstablishedWins
INVARIANT DataDeliveredInOrder
PROPERTY HandshakeCompletes
CHECK_DEADLOCK FALSE
