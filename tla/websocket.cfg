SPECIFICATION FairSpec
CONSTANTS
    Tls = FALSE
    AllocMayFail = FALSE
    MaxFlips = 0
    BufLimit = 12
    SockCap = 3
    MaxMsgs <- Messages
    MsgLen = {2}
    Answers = {"101", "404", "malformed", "none"}
    MaxMissed = 1
CHECK_DEADLOCK FALSE
INVARIANTS MessagesInOrder
PROPERTIES KillsOnlySilent LostPeerIsNoticed MessagesArrive
