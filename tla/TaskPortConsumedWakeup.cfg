SPECIFICATION FairSpec
CONSTANTS
    c1 = c1
    c2 = c2
    c3 = c3
    a = a
    b = b
    d = d
    e = e
    Nil = Nil
    Callbacks = {d}
    Delay <- LateOnly
    Clients = {c1, c2, c3}
    MaxWorkers = 0
    Capacity = 2
    Modes = {"manual"}
    DispatchModes = {"manual"}
    Timeouts = {1}
    MaxClock = 2
PROPERTY
    InfiniteDispatchSeesDueCallback
