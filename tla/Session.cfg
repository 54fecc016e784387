\* The handshake under the pump's scheduling, in three configurations.
CONSTANTS
    Configs <- ThreeConfigs
    AckTimeout = 1
    ResendAfter = 2
    Readings = {r1}
    NoReading = noReading
    RxCap = 2
    MaxRefusals = 1
SPECIFICATION FairSpec
INVARIANTS TypeOK WireMatchesPhase EachMissingAckWasWaitedFor
PROPERTIES NoRepeatAfterBattery ImplementsChannel
PROPERTIES HandshakeSettles SilentChannelAsksAgain HangupNoticed
