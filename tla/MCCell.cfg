SPECIFICATION CellSpec
CONSTANTS
    malformed = malformed
    none = none
    Byte = {0, 1, 2, 255}
    MaxField = 2
    MaxOther = 1
    Thread = {t1, t2, t3}
    CounterMod = 2
    WallMod = 8
    MaxMillis = 2
    MaxCalls = 4
CHECK_DEADLOCK FALSE
INVARIANTS
    OrderPreserved
    RoundTrip
    TruncationDetected
    DecodesWhatIsThere
    BoundedDrift
PROPERTIES
    StrictlyIncreasing
    CallsReturn
