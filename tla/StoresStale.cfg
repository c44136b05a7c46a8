SPECIFICATION PartSpec
CONSTANTS
    Parts = {"surfaces"}
    d1 = d1
    d2 = d2
    Backends = {"pinecone", "azure", "qdrant", "chroma", "milvus", "weaviate", "opensearch", "pgvector"}
    Clients = {1, 2}
    Docs <- TheDocs
    Users = {"u", "v"}
    TENANT_LEVEL = "tenant-level"
    BATCH = 1
    SETTLE_TRIES = 2
    K = 1
    MaxCalls = 2
    Kinds = {"s3"}
    Rows = {1}
    Tenants = {1, 2}
    SurfaceUsers = {"u"}
    NO_USER = "no-user"
    LIMIT = 1
    DELETE_BATCH = 1
    MaxUses = 2
    NTenants = 3
    TRIALS = 2
    BASE = 5
    MISS = 3
    Drifts = {0, 1}
    MaxEvictions = 1
    Corpus = {"c1", "both"}
    Planned = {"q1", "both", "q2"}
    Planted = {"p1", "q2"}
    Unplanned = {"x"}
    EMBED_BATCH_SIZE = 1
    Workers = {1, 2}
    MaxEmbeds = 3
    vector = vector
    tracing = tracing
    model = model
    id = id
    long = long
    short = short
    None = None
    ErasureSurfaces <- Three
    PlanOrder <- ThreeOrder
    Ids = {id}
    Phrases = {long, short}
    Verifiable = {long}
    ById = {vector, tracing}
    ByContent = {vector, model}
    Vector = vector
    Tracing = tracing
    Model = model
    Manifests <- Asked
    MaxRepeats = 1
PROPERTY
    VersionsAreSeen
CHECK_DEADLOCK FALSE
