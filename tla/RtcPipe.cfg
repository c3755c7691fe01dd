SPECIFICATION FairSpec
CONSTANTS
    Length = 7
    Blocks = {1, 2, 5}
    CHUNK_SIZE = 2
    BUFFER_SIZE = 3
    InboxCapacity = 2
    FileCapacity = 1
INVARIANT NothingLost
INVARIANT EndedMeansAll
PROPERTY AllArrives
CHECK_DEADLOCK FALSE
