CONSTANTS
    Jobs = 6
    Workers = 2
SPECIFICATION PoolFairSpec
INVARIANTS PermitsAccounted OutstandingBounded
PROPERTIES CallsReturn ShutdownCompletes
CHECK_DEADLOCK FALSE
