CONSTANTS
    FrameLen = 3
    Registers = 3
    Requested = {1, 2, 3}
    Handled <- MCHandled
    Value = {0, 1}
    None = None
    Orderly = TRUE
    MaxStarts = 2
    MaxKills = 2
SPECIFICATION FairSpec
INVARIANTS TypeOK CallsOwnCallback
PROPERTIES SucceedsWhenDone FailsOnlyWithPeer ExchangesEnd
CHECK_DEADLOCK FALSE
