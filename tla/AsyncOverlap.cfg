SPECIFICATION Spec
CONSTANTS
    a1 = a1
    a2 = a2
    c1 = c1
    c2 = c2
    w1 = w1
    Blocks = {a1}
    Notified = {a1}
    Clients = {c1, c2}
    Workers = {w1}
    MaxSlots = 1
    MaxTokens = 1
    MaxScheduled = 1
    BeginCalls = {"begin"}
    BlockCalls = {"status", "take"}
    Overlap = TRUE
CHECK_DEADLOCK FALSE
INVARIANT
    ReleaseFindsHold
