CONSTANTS
    Program = {"server"}
    Parameter = {"A"}
    Unknown = "A1"
    Number = {"1", "11"}
    Halves <- MCHalves
    InterfaceType = {"SERIAL", "BLE"}
    MaxCommands = 2
    MaxAhead = 2
    Request = {r1}
    Value = {0, 1}
    None = None
SPECIFICATION MCSpec
INVARIANT
    AcksAreExact
