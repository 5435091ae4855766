SPECIFICATION FairSpec
CONSTANTS
    Threads = {a, b, c, d}
    PoolSize = 2
    Tables = {users}
    MaxCalls = 1
    None = None
INVARIANTS ExclusiveSlots
PROPERTIES EveryCallReturns
