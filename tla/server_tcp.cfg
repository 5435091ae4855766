SPECIFICATION FairSpec
CONSTANTS
    Conns = {a, b}
    Tls = FALSE
    AllocMayFail = FALSE
    SockCap = 1
    MaxFlips = 0
    BufLimit = 3
    ReqLen = 2
    ResLen = 2
    MaxSent = 3
INVARIANTS NoSecondCleanup OneOwner
PROPERTIES ResponseComplete RequestGetsAnswer
