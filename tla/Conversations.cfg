\* Every conversation of up to six messages over two calls and two user texts.
SPECIFICATION Spec
CONSTANTS
    MaxPortableMessages = 4
    MaxPortableBytes = 6
    MaxPortableToolCalls = 2
    MaxToolRounds = 2
    InputBudget = 6
    ContinuingHistoryShare = 7
    MaxTaskAnchorUnits = 2
    MaxTaskAnchorTokens = 2
    Signatures = {"read", "write"}
    UserTexts = {"large", "/srv"}
    Results = {"done", "exit 1", "exit 2"}
    MaxLength = 6
    MaxParallel = 2
    MaxStray = 1
INVARIANTS
    ToolProtocolIsKept
    ConversationsContinue
    OnlyStuckCallsAreHeldBack
    PromptIsWhole
CHECK_DEADLOCK FALSE
