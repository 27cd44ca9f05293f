\* Every file of up to five lines.
CONSTANTS
    Keys <- Names
    Values <- Numbers
    MaxDepth = 2
    NotFound = NotFound
    Lines <- AllLines
    MaxLines = 5
    NotANumber = NotANumber
    Unset = Unset
    DefaultReceivers = 3
    DefaultLoaders = 2
    MaxThreads = 3
SPECIFICATION ProcessSpec
INVARIANT DestroyedUnused
PROPERTIES LastSettingWins StartDecided AllServe SignalEnds
