\* Runs of up to three packets, with and without a duration and a capture file.
CONSTANTS
    Configs <- ProbeConfigs
    AckTimeout = 0
    ResendAfter = 1
    Readings = {r1, r2}
    NoReading = noReading
    RxCap = 1
    MaxRefusals = 1
    Durations = {0, 2}
    MaxPackets = 3
CHECK_DEADLOCK FALSE
SPECIFICATION CliFairSpec
INVARIANTS CliTypeOK ProbeAgreesWithSession TranscriptTellsPhase AdvancesAreExplained
INVARIANTS TotalsAreRecorded
PROPERTY RunEnds
