\* An agent turn and a single call over two accounts; every write of the
\* route file may fail, and the process may crash.
SPECIFICATION Spec
CONSTANTS
    a1 = a1
    a2 = a2
    a3 = a3
    r1 = r1
    r2 = r2
    Account = {a1, a2}
    NoAccount = NoAccount
    Administrator = Administrator
    Request = {r1, r2}
    Agents = {r1}
    InitialAccounts <- TwoAccounts
    RateRest = 1
    QuotaRest = 2
    TransientRest = 1
    PolicyRest = 2
    SharedWindow = 1
    CircuitRest = 1
    CallFailures = {"auth", "rate"}
    ValidationFailures = {}
    RouteWriteFails = TRUE
    MaxFailures = 2
    MaxAdmin = 0
    MaxCrashes = 1
    MaxTime = 2
INVARIANTS
    TypeOK
    CallsAreLeased
    RouteIsDurable
PROPERTIES
    RestsAreKept
    ImplementsSingleActiveAccount
