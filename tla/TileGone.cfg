\* The tile when nobody owns the name (violated).
CONSTANTS
    Readings = {r1, r2}
    NoReading = noReading
    NoProxy = noProxy
    Activatable = FALSE
    MaxEvents = 2
    BusCap = 2
    CallCap = 2
SYMMETRY ReadingSymmetry
CHECK_DEADLOCK FALSE
SPECIFICATION Spec
INVARIANTS DrawnOnlyWhileOwned
