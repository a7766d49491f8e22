CONSTANTS
    Msg3Blocks = 2
    MaxData = 2
    Faults <- MCAllFaults
SPECIFICATION Spec
PROPERTY ImplementsHandshakeOutcome
INVARIANT DataDeliveredInOrder
CHECK_DEADLOCK FALSE
