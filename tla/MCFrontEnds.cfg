CONSTANTS
    Program = {"bridge", "server"}
    Parameter = {"A"}
    Unknown = "A1"
    Number = {"1", "11"}
    Halves <- MCHalves
    InterfaceType = {"SERIAL", "BLE"}
    MaxCommands = 3
    MaxAhead = 2
    Request = {r1, r2, r3}
    Value = {0, 1}
    None = None
SPECIFICATION MCSpec
INVARIANTS
    FrontEndsTypeOK
    AcksAreRight
    OneAnswerEach
    Accounted
    GetsAreFresh
PROPERTIES
    ImplementsService
    Settles
