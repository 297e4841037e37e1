\* Two goroutines, under fair scheduling, and the administration over two accounts
\* whose refresh tokens are one-time; every write of the token file may fail, and the
\* process may crash.
SPECIFICATION FairSpec
CONSTANTS
    a1 = a1
    a2 = a2
    c1 = c1
    c2 = c2
    c3 = c3
    Account = {a1, a2}
    Caller = {c1, c2}
    Nobody = Nobody
    Proxy = {"direct", "socks5"}
    Direct = "direct"
    SavesFail = TRUE
    MaxTokens = 3
    MaxStale = 1
    MaxLogins = 2
    MaxProxies = 1
    MaxDeletes = 1
    MaxCrashes = 1
INVARIANTS
    FileIsMemory
    SingleFlight
    NoReplacedTokenIsRedeemed
PROPERTIES
    
    EveryCallerReturns
