SPECIFICATION PlanSpec
CONSTANTS
    MARKERS_PER_TYPE = 2
    MaxTenants = 2
    MaxUsers = 2
    MinEntities = 0
    MaxEntities = 2
INVARIANTS UnplantedIsNotCovered
CHECK_DEADLOCK FALSE
