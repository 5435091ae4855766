SPECIFICATION MCSpec
CONSTANTS
    MaxConditions = 2
    MaxSorts = 2
    IntRange = 16
    Entities <- MCEntities
    Conditions <- MCConditions
    Orders <- MCOrders
    Pages <- MCPages
    MaxClauses = 2
    Code <- MCCode
    InitialBuckets = 2
    MaxDepth = 3
    IntMax = 21
    MaxExponent = 38
    Keys <- MCKeys
    Data <- MCData
    Documents <- MCDocuments
INVARIANTS BackendsAgree QueriesAgree KeyValuesKept
