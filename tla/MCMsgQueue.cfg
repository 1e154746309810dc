CONSTANTS
    Threads = {t1, t2, t3}
    Msgs = {a, b}
    NoMsg = none
    DEPTH = 2
SPECIFICATION FairSpec
INVARIANTS TypeOK MutualExclusion RingConsistent
PROPERTIES ImplementsFifo LockReleased
