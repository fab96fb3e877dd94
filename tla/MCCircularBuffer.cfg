SPECIFICATION FairSpec
CONSTANTS
    Threads = {t1, t2}
    Items = {a, b}
    Null = Null
    NoThread = NoThread
    max_size = 3
INVARIANTS
    TypeOK
    ContentsNeverNull
PROPERTIES
    IsBoundedQueue
    MutexAlwaysReleased
