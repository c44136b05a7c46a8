SPECIFICATION Spec
CONSTANTS
    vector = vector
    tracing = tracing
    cache = cache
    hard = hard
    soft = soft
    None = None
    ErasureSurfaces <- Two
    PlanOrder <- TwoOrder
    Vector = vector
    Markers = {hard, soft}
    HardCanaries = {hard}
    ReadOnly = {tracing}
    NoApi = {tracing}
    Lagging = {tracing}
    Optional = {tracing}
    Listed = {}
INVARIANTS
    ObservedResidualExitsTwo
CHECK_DEADLOCK FALSE
