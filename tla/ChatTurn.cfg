\* One turn of every kind against two accounts, and the middleware that keeps its stream open.
SPECIFICATION FairSpec
CONSTANTS
    Turns <- MCTurns
    OutputLimit = 2
    MaxContinuations = 1
    MaxPieces = 2
    MaxDisturbances = 1
INVARIANTS
    OneEnding
    
    BindingFitsTheAnswer
PROPERTIES
    TurnsReturn
CHECK_DEADLOCK FALSE
