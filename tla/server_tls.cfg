SPECIFICATION FairSpec
CONSTANTS
    Conns = {a}
    Tls = TRUE
    AllocMayFail = FALSE
    SockCap = 1
    MaxFlips = 3
    BufLimit = 4
    ReqLen = 2
    ResLen = 2
    MaxSent = 4
INVARIANTS TasksMatchWatchers
PROPERTIES HangUpIsNoticed ResponseIsWritten
