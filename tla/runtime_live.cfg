SPECIFICATION FairSpec
CONSTANTS
    Tasks = {t1, t2, t3}
    Fds = {f1}
    Masks <- ReadMask
    MaxEvents = 1
    MaxDepth = 2
    AllocMayFail = TRUE
    ReentrantUnwatch = FALSE
    None = None
INVARIANTS NoUseAfterFree
PROPERTIES QueuedTaskGetsTurn CancelledTaskIsFreed
