\* The comment in on_bluez_vanished(), against a bluetoothd that is back before
\* the news of its restart is dispatched.
CONSTANTS
    Readings <- OneReport
    NoReading = noReading
    NoLevel = noLevel
    noLevel = noLevel
    Paths = {p1}
    NoPath = noPath
    ScanMayFail = FALSE
    ReplyMayTimeOut = FALSE
    AdapterMayMove = FALSE
    DeviceMayMove = FALSE
    MaxEvents = 4
    QueueCap = 2
SPECIFICATION Spec
PROPERTY BluezHasForgotten
