SPECIFICATION PartSpec
CONSTANTS
    vector = vector
    cache = cache
    model = model
    a = a
    b = b
    u = u
    v = v
    NoUser = NoUser
    None = None
    N = 3
    MaxWorkers = 2
    Suite <- PlantingSuite
    Families = {vector, cache, model}
    CarriesUser = {cache, model}
    NotReadBack = {model}
    Corpus <- Seeded
    Tenants = {a, b}
    Users = {u, v}
    MARKERS_PER_TYPE = 2
    MaxTenants = 2
    MaxUsers = 2
    MinEntities = 1
    MaxEntities = 2
INVARIANTS
    TypesOK
    NoVacuousPass
    PlansAreCarriedOut
    LeakIsNeverSuppressed
    UserBoundaryIsHonest
    UndisturbedIsSerial
PROPERTIES
    SuiteKeepsPromise
CHECK_DEADLOCK FALSE
