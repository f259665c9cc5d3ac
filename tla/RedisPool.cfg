SPECIFICATION FairSpec
CONSTANTS
    Conns = {c1, c2}
    Threads = {t1, t2, t3}
    PoolSize = 2
    NoConn = NoConn
    Nobody = Nobody
    Checker = Checker
    MaxOps = 4
INVARIANTS
    OnePlaceEach
PROPERTY SleepersServed
CHECK_DEADLOCK FALSE
