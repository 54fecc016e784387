\* Provider and bluetoothd: restarts, failing scans, lost replies, an adapter
\* that comes and goes, a device that is removed and paired again.
CONSTANTS
    Readings <- AllReports
    NoReading = noReading
    NoLevel = noLevel
    noLevel = noLevel
    Paths = {p1, p2}
    NoPath = noPath
    ScanMayFail = TRUE
    ReplyMayTimeOut = TRUE
    AdapterMayMove = TRUE
    DeviceMayMove = TRUE
    MaxEvents = 4
    QueueCap = 2
SPECIFICATION FairSpec
INVARIANTS TypeOK OnlyLiveReadings RegistrationAgrees ShownIsExported
PROPERTIES ReportsAreAnnounced ShownIsWithdrawn ReadingReachesDesktop
