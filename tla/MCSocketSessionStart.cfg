CONSTANTS
    FrameLen = 2
    Registers = 3
    Requested = {1}
    Handled <- MCHandled
    Value = {0, 1}
    None = None
    Orderly = TRUE
    MaxStarts = 1
    MaxKills = 0
SPECIFICATION FairSpec
PROPERTY SessionStarts
CHECK_DEADLOCK FALSE
