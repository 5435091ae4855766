SPECIFICATION Spec
CONSTANTS
    MaxRequestLine = 16
    MaxMethod = 3
    MethodSize = 2
    MaxHeaderSize = 24
    MaxHeaderCount = 3
    MaxBodySize = 3
    MaxChunkSize = 2
    MaxChunkLine = 3
    MaxTrailerSize = 12
    MaxTrailerCount = 1
    MaxPath = 12
    MaxSegments = 3
    MaxSegment = 3
    MaxParams = 1
    MaxQueryParams = 2
    MaxQueryKey = 3
    MaxQueryValue = 3
    Routes <- MCRoutes
    PreMiddleware <- MCPre
    PostMiddleware <- MCPost
    Plans <- MCPlans
INVARIANTS MessagesUnderstood TargetReadOnce PipelineStopsAtFailure ResponseIsOwn
