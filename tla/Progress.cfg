\* Two handlers that never stop being called, over two accounts whose rests end.
SPECIFICATION BusySpec
CONSTANTS
    a1 = a1
    a2 = a2
    a3 = a3
    r1 = r1
    r2 = r2
    Account = {a1, a2}
    NoAccount = NoAccount
    Administrator = Administrator
    Request = {r1, r2}
    Agents = {r1}
    InitialAccounts <- TwoAccounts
    RateRest = 1
    QuotaRest = 2
    TransientRest = 1
    PolicyRest = 2
    SharedWindow = 1
    CircuitRest = 1
    CallFailures = {"auth", "network"}
    ValidationFailures = {"auth"}
    RouteWriteFails = FALSE
    MaxFailures = 2
    MaxAdmin = 0
    MaxCrashes = 0
    MaxTime = 3
PROPERTIES
    OnlyRestingAccountsAreLeft
    OutageHoldsTheRoute
    RequestsFinish
    RouteRecovers
