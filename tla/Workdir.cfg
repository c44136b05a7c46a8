SPECIFICATION Spec
CONSTANTS
    Absent = Absent
    Torn = Torn
    Altered = Altered
    MaxSeeds = 2
    MaxRuns = 2
    CopyNames <- Copies
    Worlds <- TheWorlds
INVARIANTS
    UntouchedVerifies
    EvidenceIsOfOneRun
    SeedReplaces
    TamperedNeverExcused
CHECK_DEADLOCK FALSE
