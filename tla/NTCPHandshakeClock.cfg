CONSTANTS
    Msg3Blocks = 2
    MaxData = 0
    Faults = {}
SPECIFICATION SpecClock
INVARIANT RttNeverGates
CHECK_DEADLOCK FALSE
