SPECIFICATION Spec
CONSTANTS
    Tasks = {t1, t2, t3, t4, t5, t6}
    Delays = {0, 3}
    Wrap = 4
    LastTime = 2
    InitialCapacity = 3
    IdleTimeout = 2
    None = None
SYMMETRY Symmetry
CONSTRAINT SmallOnceTimePasses
INVARIANTS HeapOrder
PROPERTIES RemoveFindsTask NothingDueAfterUpdate FiresOncePerUpdate NeverOversleeps
