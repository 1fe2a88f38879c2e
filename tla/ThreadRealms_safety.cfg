SPECIFICATION FairSpec
CONSTANTS
    t1 = t1
    t2 = t2
    p1 = p1
    p2 = p2
    None = None
    Threads = {t1, t2}
    Pthreads = {p1, p2}
    MaxVersion = 4
INVARIANTS
    ConfinedToThread
    CommitsWhatItBegan
    MissedOnInherited
PROPERTIES
    ReflectedInOwn
CHECK_DEADLOCK FALSE
