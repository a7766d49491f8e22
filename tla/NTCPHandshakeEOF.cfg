CONSTANTS
    Msg3Blocks = 2
    MaxData = 0
    Faults = {"sigA"}
SPECIFICATION Spec
PROPERTY PeerCloseFailsConnect
CHECK_DEADLOCK FALSE
