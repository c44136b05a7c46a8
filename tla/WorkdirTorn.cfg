SPECIFICATION Spec
CONSTANTS
    Absent = Absent
    Torn = Torn
    Altered = Altered
    MaxSeeds = 1
    MaxRuns = 2
    CopyNames <- Copies
    Worlds <- FullDisk
INVARIANTS
    UntouchedNeverAccused
CHECK_DEADLOCK FALSE
