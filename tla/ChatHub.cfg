\* One call over the ChatHub connection: three frames of every kind, one ping, one disturbance.
SPECIFICATION FairSpec
CONSTANTS
    NoId = NoId
    Implicit = Implicit
    m1 = m1
    m2 = m2
    card = card
    Ids <- MCIds
    Frames <- MCFrames
    Chars = {"a", "b", "c", "d", "p", "r", "x"}
    MaxRetainedEventCount = 2
    MaxRetainedEventBytes = 2
    MaxFrames = 3
    MaxParts = 2
    MaxPings = 1
    MaxDisturbances = 1
INVARIANTS
    CallerIsToldOnce
    OutcomesAreEarned
    CancelledCallsAreStopped
PROPERTIES
    FailureNamesItsCause
    CallsReturn
CHECK_DEADLOCK FALSE
