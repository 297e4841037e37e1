\* Two answers, streamed or not, on one stable thread or one old response, next to a chat, one
\* disturbance of any kind, and the files of this program and of an older one.
SPECIFICATION Spec
CONSTANTS
    t1 = t1
    t2 = t2
    t3 = t3
    head = head
    other = other
    old = old
    older = older
    acc1 = acc1
    acc2 = acc2
    MaxPortableMessages = 4
    MaxPortableBytes = 6
    MaxPortableToolCalls = 1
    Keys = {t1, t2, head, other, old}
    Accounts = {acc1, acc2}
    NoKey = none
    NoAccount = nobody
    MaxAliases = 1
    MaxStored = 3
    MaxStoreBytes = 8
    Turns = {t1, t2}
    Threads = {head}
    Chats = {other}
    OldAnswers = {old}
    Streaming = {t1, t2}
    Files <- MCFiles
    MaxChats = 1
    MaxRemovals = 1
    MaxMoves = 1
    MaxAges = 1
    MaxCrashes = 1
    MaxFailures = 1
    MaxDisturbances = 1
INVARIANTS
    EveryHistoryCanBeRead
    StoreIsFile
    OneWriterPerThread
    SourceStaysAsSeen
    UnfinishedTurnsLeaveNothing
PROPERTIES
    ImplementsMemory
SYMMETRY TurnSymmetry
CHECK_DEADLOCK FALSE
