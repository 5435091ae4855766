SPECIFICATION Spec
CONSTANTS
    Tasks = {t1, t2, t3}
    Fds = {f1, f2}
    Masks <- SingleMasks
    MaxEvents = 2
    MaxDepth = 3
    AllocMayFail = FALSE
    ReentrantUnwatch = FALSE
    None = None
SYMMETRY Symmetry
INVARIANTS ScheduledOnce NoUseAfterFree NoLeak PollerMatchesWatchers
PROPERTIES NoWatcherSkipped KeepsLifecycle
