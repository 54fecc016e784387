\* A daemon that starts and stops under a tile that may be destroyed.
CONSTANTS
    Readings = {r1, r2}
    NoReading = noReading
    NoProxy = noProxy
    Activatable = TRUE
    MaxEvents = 4
    BusCap = 2
    CallCap = 2
SYMMETRY ReadingSymmetry
CHECK_DEADLOCK FALSE
SPECIFICATION Spec
INVARIANTS TypeOK DrawnIsPublished AgeIsOfReading NoTimerNoProxyAfterDestroy
