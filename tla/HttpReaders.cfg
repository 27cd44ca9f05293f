\* Quick and slow, failing and stray peers, and a buffer smaller than the
\* largest chunk; chunks of up to two bytes, two of them.
CONSTANTS
    MaxChunk = 2
    MaxChunks = 2
    Extra = {0, 1}
    Budget = 2
    Elapsed = {0, 1, 2}
    BUF_SIZE = 3
    MAX_HEADER = 2
    MAX_PARSED = 3
SPECIFICATION BothSpec
INVARIANTS SuccessIsExact BudgetIsShared DecodedSoFar EndsWithResponse
PROPERTY EveryResponseRead
