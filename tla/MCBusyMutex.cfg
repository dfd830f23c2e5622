SPECIFICATION FairSpec
CONSTANTS
    Threads = {t1, t2, t3}
    CounterModulus = 4
    NoThread = NoThread
INVARIANT MutualExclusion
PROPERTIES EveryTicketIsServed ImplementsFairLock
