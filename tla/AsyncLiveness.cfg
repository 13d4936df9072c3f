\* The behaviour ends when MaxTokens operations have been begun and all are collected.
SPECIFICATION FairSpec
CONSTANTS
    a1 = a1
    a2 = a2
    c1 = c1
    c2 = c2
    w1 = w1
    Blocks = {a1}
    Notified = {a1}
    Clients = {c1, c2}
    Workers = {w1}
    MaxSlots = 1
    MaxTokens = 1
    MaxScheduled = 1
    BeginCalls = {"begin", "provide"}
    BlockCalls = {"status", "wait", "take", "cancel", "complete"}
    Overlap = FALSE
CHECK_DEADLOCK FALSE
PROPERTIES
    WorkSettles
    WaitersReturn
    RetiredSlotsFreed
    ImplementsOperation
