\* One agent turn next to the account administration over three accounts; every
\* write of the route file may fail, and the process may crash.
SPECIFICATION Spec
CONSTANTS
    a1 = a1
    a2 = a2
    a3 = a3
    r1 = r1
    r2 = r2
    Account = {a1, a2, a3}
    NoAccount = NoAccount
    Administrator = Administrator
    Request = {r1}
    Agents = {r1}
    InitialAccounts <- ThreeAccounts
    RateRest = 1
    QuotaRest = 2
    TransientRest = 1
    PolicyRest = 2
    SharedWindow = 1
    CircuitRest = 1
    CallFailures = {"auth", "policy", "quota", "rate_elapsed"}
    ValidationFailures = {"auth"}
    RouteWriteFails = TRUE
    MaxFailures = 1
    MaxAdmin = 2
    MaxCrashes = 1
    MaxTime = 2
INVARIANTS
    EpochNamesOneAccount
    RotationReachesEveryAccount
