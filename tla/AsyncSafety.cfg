\* Two blocks take turns on one slot, with operations of the runtime and of providers.
\* The behaviour ends when MaxTokens operations have been begun and all are collected.
SPECIFICATION Spec
CONSTANTS
    a1 = a1
    a2 = a2
    c1 = c1
    c2 = c2
    w1 = w1
    Blocks = {a1, a2}
    Notified = {a1}
    Clients = {c1, c2}
    Workers = {w1}
    MaxSlots = 1
    MaxTokens = 2
    MaxScheduled = 1
    BeginCalls = {"begin", "provide"}
    BlockCalls = {"take", "cancel", "pick", "schedule", "complete"}
    Overlap = FALSE
SYMMETRY Interchangeable
CHECK_DEADLOCK FALSE
INVARIANTS
    HoldsCounted
    HeldSlotsLive
    FreeSlotsUnused
    CalledOnce
    
PROPERTY
    SettlesOnce
