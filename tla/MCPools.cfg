CONSTANTS
    Threads = {w1, w2, w3}
    RedisPoolSize = 2
    MySqlPoolSize = 2
    MaxOutages = 1
SPECIFICATION PoolFairSpec
INVARIANTS
    LiveIsExact
PROPERTIES
    BorrowersAreServed
CHECK_DEADLOCK FALSE
