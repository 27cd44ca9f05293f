SPECIFICATION Spec
CONSTANTS
    RequestBuf = 16
    FieldBuf = 20
    MaxFields = 2
    Values <- MCValues
    IntBits = 5
    LargestBits = 8
    RealUnit = 100
    StackLimit = 3
    DoubleBits = 6
    DoubleScale = 11
    MaxExponent = 5
    Thrown = Thrown
    Endless = Endless
INVARIANTS FieldsRecovered CutKeepsBeginnings StoreHolds
CHECK_DEADLOCK FALSE
