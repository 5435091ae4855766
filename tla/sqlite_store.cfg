SPECIFICATION Spec
CONSTANTS
    Threads = {a, b, c}
    Keys = {k}
    Values = {v, w}
    MaxConns = 2
    MaxCalls = 1
    None = None
INVARIANTS ExclusiveConnections
PROPERTIES ImplementsStore
