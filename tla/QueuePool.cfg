\* One pair of ports and three queues: an owner with two composites of its ports, in
\* every order of closing.  A client may ask for the fallback when there is no room, which ends
\* the program.  One queue at a time, any of them, is made the process queue.
SPECIFICATION Spec
CONSTANTS
    t1 = t1
    t2 = t2
    Threads = {t1, t2}
    MaxQueues = 3
    MaxPorts = 2
    MaxHandles = 2
    MaxPinned = 1
CHECK_DEADLOCK FALSE
SYMMETRY Interchangeable
INVARIANTS
    BooksBalance
    HeldPortsStay
    SpentPortsReturn
    HandlesKeepQueues
    
