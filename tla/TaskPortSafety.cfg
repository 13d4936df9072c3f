SPECIFICATION Spec
CONSTANTS
    c1 = c1
    c2 = c2
    c3 = c3
    a = a
    b = b
    d = d
    e = e
    Nil = Nil
    Callbacks = {a, b, d, e}
    Delay <- TwoAndTwo
    Clients = {c1, c2}
    MaxWorkers = 2
    Capacity = 3
    Modes = {"manual", "thread_pool", "immediate"}
    DispatchModes = {"manual"}
    Timeouts = {0, 1}
    MaxClock = 1
SYMMETRY Interchangeable
INVARIANTS
    OnceOnly
    UndelayedInOrder
    StoppedIsQuiet
    NoLostWakeup
PROPERTY
    ImplementsCallbackQueue
