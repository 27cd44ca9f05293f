SPECIFICATION TextsSpec
CONSTANTS
    ByteSet = {0, 3, 64, 255}
    MaxLen = 5
    IntBits = 5
    LargestBits = 8
    RealUnit = 100
    StackLimit = 3
    DoubleBits = 6
    DoubleScale = 11
    MaxExponent = 5
    RightMargin = 12
    Thrown = Thrown
    Endless = Endless
    Exited = Exited
    MaxSize = 3
    MaxGrams = 12
    Documents <- MCDocuments
    Items <- MCItems
    MemberNames <- MCNames
    CodePoints <- MCPoints
INVARIANTS RoundTrip WrittenIsRead ReadersAgree NumbersExact ConversionsExact ArraysAreSequences TextsKept
CHECK_DEADLOCK FALSE
