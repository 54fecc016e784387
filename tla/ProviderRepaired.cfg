\* The comment in publish(), against a device that is removed and paired afresh.
CONSTANTS
    Readings <- OneReport
    NoReading = noReading
    NoLevel = noLevel
    noLevel = noLevel
    Paths = {p1, p2}
    NoPath = noPath
    ScanMayFail = FALSE
    ReplyMayTimeOut = FALSE
    AdapterMayMove = FALSE
    DeviceMayMove = TRUE
    MaxEvents = 2
    QueueCap = 2
SPECIFICATION Spec
PROPERTY AnnouncedForPairedDevice
