\* An agent turn and a single call of one session, a failover, deletions of the
\* session and of an account, and a boot that may find no generation on disk.
SPECIFICATION Spec
CONSTANTS
    a1 = a1
    a2 = a2
    r1 = r1
    r2 = r2
    k1 = k1
    k2 = k2
    Account = {a1, a2}
    NoAccount = ""
    Turn = {r1, r2}
    Agents = {r1}
    Key = {k1}
    SavesFail = TRUE
    MaxMoves = 1
    MaxConversations = 2
    MaxDeletes = 1
    MaxCrashes = 1
INVARIANTS
    NoForeignConversation
    ActiveWritesAreAccepted
PROPERTIES
    CurrentBindingIsKept
    
SYMMETRY Names
