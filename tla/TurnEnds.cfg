\* Two streamed answers on one thread under fair scheduling; the process may crash.
SPECIFICATION FairSpec
CONSTANTS
    t1 = t1
    t2 = t2
    t3 = t3
    head = head
    other = other
    old = old
    older = older
    acc1 = acc1
    acc2 = acc2
    MaxPortableMessages = 4
    MaxPortableBytes = 6
    MaxPortableToolCalls = 1
    Keys = {t1, t2, head, old}
    Accounts = {acc1, acc2}
    NoKey = none
    NoAccount = nobody
    MaxAliases = 1
    MaxStored = 4
    MaxStoreBytes = 9
    Turns = {t1, t2}
    Threads = {head}
    Chats = {}
    OldAnswers = {old}
    Streaming = {t1, t2}
    Files <- MCThread
    MaxChats = 0
    MaxRemovals = 0
    MaxMoves = 0
    MaxAges = 0
    MaxCrashes = 1
    MaxFailures = 0
    MaxDisturbances = 9
PROPERTIES
    TurnsEnd
CHECK_DEADLOCK FALSE
