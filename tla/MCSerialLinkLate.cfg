CONSTANTS
    FrameLen = 4
    FifoSize = 2
    Byte <- MCByte
    StartByte = "*"
    EndByte = "#"
    Nul = "1"
    DeviceID = 0
    AnyDevice = {0}
    RegID = {1}
    AnyRegister = {1}
    Callbacks = {1}
    Value = {0, 1}
    SendResults = {1}
    PacketInfo <- MCPacketInfo
    CrcOK <- MCCrcOK
    NoResponse = NoResponse
    Encoded <- MCEncoded
    FlushPattern <- MCFlushPattern
    Noise <- MCNoise
    Impatient = TRUE
    MaxNoise = 0
    MaxRestarts = 0
    Combined = FALSE
    MaxBytes = 4
SPECIFICATION LinkSpec
PROPERTY AnswersMatch
