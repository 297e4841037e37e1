\* One answer on a thread that an older program has written two turns of.
SPECIFICATION Spec
CONSTANTS
    t1 = t1
    t2 = t2
    t3 = t3
    head = head
    other = other
    old = old
    older = older
    acc1 = acc1
    acc2 = acc2
    MaxPortableMessages = 4
    MaxPortableBytes = 6
    MaxPortableToolCalls = 1
    Keys = {t1, head, old, older}
    Accounts = {acc1, acc2}
    NoKey = none
    NoAccount = nobody
    MaxAliases = 2
    MaxStored = 4
    MaxStoreBytes = 20
    Turns = {t1}
    Threads = {head}
    Chats = {}
    OldAnswers = {old, older}
    Streaming = {t1}
    Files <- MCLongFile
    MaxChats = 0
    MaxRemovals = 0
    MaxMoves = 0
    MaxAges = 0
    MaxCrashes = 0
    MaxFailures = 0
    MaxDisturbances = 9
INVARIANTS
    NoAnswerHangsOnItsHead
CHECK_DEADLOCK FALSE
