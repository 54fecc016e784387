\* The manager appears under a running bluetoothd.
CONSTANTS
    Readings <- OneReport
    NoReading = noReading
    NoLevel = noLevel
    noLevel = noLevel
    Paths = {p1}
    NoPath = noPath
    ScanMayFail = FALSE
    ReplyMayTimeOut = FALSE
    AdapterMayMove = TRUE
    DeviceMayMove = FALSE
    MaxEvents = 1
    QueueCap = 2
SPECIFICATION FairSpec
PROPERTY RegistersIfItAppears
