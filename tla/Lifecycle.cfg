\* The daemon's loop is fair, scans may fail, the device has one of two paths.
CONSTANTS
    RetryDelays <- Delays
    Readings = {r1}
    NoReading = noReading
    Paths = {p1, p2}
    NoPath = noPath
    RescanMayFail = TRUE
    MaxRefusals = 1
    MaxEvents = 3
    SignalCap = 3
CHECK_DEADLOCK FALSE
SPECIFICATION FairSpec
INVARIANTS TypeOK TimerIffOpen RetryOnlyWhileHere AttemptsBounded PublishedIsCurrent
PROPERTIES ImplementsFeed WatchCatchesUp PodsHereAttached PodsAwayDetached
