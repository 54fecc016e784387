\* A tile whose Get arrives when the daemon is gone (violated).
CONSTANTS
    Readings = {r1}
    NoReading = noReading
    NoProxy = noProxy
    Activatable = TRUE
    MaxEvents = 2
    BusCap = 2
    CallCap = 2
CHECK_DEADLOCK FALSE
SPECIFICATION Spec
PROPERTY TileStartsNothing
