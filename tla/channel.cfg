SPECIFICATION FairChannelSpec
CONSTANTS
    Service <- MCService
    Sources <- MCSources
    Capacity = 2
    MaxClicks = 1
INVARIANTS
    ChannelTypeOK
    OneOfEach
    CleanExit
PROPERTIES
    LoopReturns
    ClosingEnds
    SendersReleased
CHECK_DEADLOCK FALSE
