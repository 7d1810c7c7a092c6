CONSTANTS
    MaxPress = 3
    MaxBlink = 2
SPECIFICATION Spec
INVARIANTS TypeOK PressesCounted StateInStep
PROPERTIES ReadsNeverDecrease RequestsEnd
