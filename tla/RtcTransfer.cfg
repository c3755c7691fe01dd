SPECIFICATION FairSpec
CONSTANTS
    f1 = f1
    f2 = f2
    Files = {f1, f2}
    Size <- MCSize
    Configs <- MCConfigs
    Guesses = {"good", "bad"}
    MaxTries = 2
    MaxCalls = 2
INVARIANT GuardedList
INVARIANT StreamsMatch
PROPERTY ImplementsFileTransfer
PROPERTY FinishedEndsBoth
PROPERTY FilesEnd
CHECK_DEADLOCK FALSE
