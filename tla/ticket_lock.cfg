SPECIFICATION FairSpec
CONSTANTS
    Threads = {t1, t2, t3}
    NoThread = none
    MaxTicket = 6
INVARIANTS
    TypeOK
    MutualExclusion
    BusyExact
    ContendedExact
    NoLostWakeup
PROPERTIES ImplementsFifo LockServed
CHECK_DEADLOCK FALSE
