SPECIFICATION FairSpec
CONSTANTS
    vector = vector
    tracing = tracing
    cache = cache
    hard = hard
    soft = soft
    None = None
    ErasureSurfaces <- Three
    PlanOrder <- ThreeOrder
    Vector = vector
    Markers = {hard, soft}
    HardCanaries = {hard}
    ReadOnly = {tracing}
    NoApi = {tracing}
    Lagging = {tracing}
    Optional = {tracing}
    Listed = {cache}
INVARIANTS
    TypeOK
    ErasedIsSound
    ExitZeroIsVerified
    ContainedPerSurface
    ResidualFails
    AssertionIsHonest
PROPERTIES
    Terminates
CHECK_DEADLOCK FALSE
