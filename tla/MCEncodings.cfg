SPECIFICATION Spec
CONSTANTS
    Bytes <- MCBytes
    Units <- MCUnits
    MaxBytes = 4
    MaxUnits = 3
    Numerals <- MCNumerals
    LongRange = 256
    IntRange = 16
    None = None
INVARIANTS
    ReadsToTheEnd
    ScalarsOnly
    RoundTrip
    ValidIsLossless
    CountsChars
    ParsesWhatFits
CHECK_DEADLOCK FALSE
