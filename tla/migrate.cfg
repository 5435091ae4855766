SPECIFICATION Spec
CONSTANTS
    Procs = {p1, p2}
    NoProc = NoProc
    PlainNames <- MCNames
    Commands <- MCCommands
    Disks <- MCDisks
    Contents <- MCContents
    NewPaths <- MCNewPaths
    Tables = {"t", "u"}
    ManifestLists <- MCManifestLists
    MaxStarts = 2
    MaxEdits = 1
    MaxCrashes = 1
CHECK_DEADLOCK FALSE
INVARIANTS AppliedOnce UpToDate GeneratedReconciles
PROPERTIES NothingSkipped
