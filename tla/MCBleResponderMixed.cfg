CONSTANTS
    FifoSize = 2
    RegID = {0}
    Value = {0, 1}
    Crc <- MCCrc
    Zero = Zero
    MaxCount = 2
SPECIFICATION MCSpec
INVARIANT ExecutesWhatWasQueued
