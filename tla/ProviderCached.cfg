\* The comment in publish(), against a channel that opens a second time.
CONSTANTS
    Readings <- OneReport
    NoReading = noReading
    NoLevel = noLevel
    noLevel = noLevel
    Paths = {p1}
    NoPath = noPath
    ScanMayFail = FALSE
    ReplyMayTimeOut = FALSE
    AdapterMayMove = FALSE
    DeviceMayMove = FALSE
    MaxEvents = 0
    QueueCap = 2
SPECIFICATION Spec
INVARIANT ReadingIsCurrent
