\* The behaviour ends when the bounds are reached.
SPECIFICATION FairSpec
CONSTANTS
    c1 = c1
    d1 = d1
    w1 = w1
    None = None
    Clients = {c1}
    Listeners = {d1}
    Workers = {w1}
    MaxHandlers = 1
    Capacity = 2
    GameModes = {"manual", "immediate"}
    ProcessQueues = {"game"}
    MaxRegs = 2
    MaxInvites = 1
    MaxEnds = 1
    MaxStops = 1
CHECK_DEADLOCK FALSE
INVARIANTS
    RegistrationsKept
    EachToOneEnd
    
PROPERTIES
    
    PostedSettle
