CONSTANTS
    FrameLen = 3
    FifoSize = 2
    Byte <- MCByte
    StartByte = "*"
    EndByte = "#"
    Nul = "bad"
    DeviceID = 0
    AnyDevice = {0, 1}
    RegID = {1, 2}
    AnyRegister = {1, 2, 3}
    Callbacks = {1}
    Value = {0, 1}
    SendResults = {0}
    PacketInfo <- MCPacketInfo
    CrcOK <- MCCrcOK
    NoResponse = NoResponse
SPECIFICATION FairSpec
INVARIANTS TypeOK FifoConsistent OwnRequestsOnly Resynchronised
PROPERTIES ImplementsService ServesEventually
