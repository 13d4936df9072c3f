\* The process ends, and with it the behaviour.
SPECIFICATION FairSpec
CONSTANTS
    t1 = t1
    t2 = t2
    t3 = t3
    Cleaner = Cleaner
    Nobody = Nobody
    Callers = {t1, t2, t3}
    Requested <- DistinctCodes
CHECK_DEADLOCK FALSE
INVARIANTS
    NativeExitAfterDestruction
    FirstCodeCanonical
PROPERTY
    RequestEndsProcess
