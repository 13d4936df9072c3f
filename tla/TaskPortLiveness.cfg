SPECIFICATION FairSpec
CONSTANTS
    c1 = c1
    c2 = c2
    c3 = c3
    a = a
    b = b
    d = d
    e = e
    Nil = Nil
    Callbacks = {a, d}
    Delay <- OneAndOne
    Clients = {c1, c2}
    MaxWorkers = 2
    Capacity = 2
    Modes = {"manual", "thread_pool", "serialized_thread_pool"}
    DispatchModes = {"manual"}
    Timeouts = {1}
    MaxClock = 1
PROPERTIES
    PoolCallsEveryCallback
    BlockedReturn
