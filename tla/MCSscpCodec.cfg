CONSTANTS
    Sample <- MCSent
    Noise <- MCChars
    MaxHits <- MCMaxHits
SPECIFICATION Spec
INVARIANTS EncodersAgree RoundTrip ByteErrorsDetected
