SPECIFICATION FairSpec
CONSTANTS
    w1 = w1
    Workers = {w1}
    MAX_SOCKET = 2
    Size = 2
    MaxId = 4
    MaxSend = 3
    Budgets <- AnyAsk
    PipeCap = 2
INVARIANTS PacketsWhole NoSlotLost
PROPERTIES ClosedForGood CloseAnswered BuffersDrain
CHECK_DEADLOCK FALSE
