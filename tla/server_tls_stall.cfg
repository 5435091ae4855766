SPECIFICATION FairSpec
CONSTANTS
    Conns = {a}
    Tls = TRUE
    AllocMayFail = FALSE
    SockCap = 1
    MaxFlips = 2
    BufLimit = 4
    ReqLen = 2
    ResLen = 2
    MaxSent = 3
PROPERTIES RequestGetsAnswer
