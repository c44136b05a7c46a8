SPECIFICATION PartSpec
CONSTANTS
    a = a
    b = b
    u = u
    v = v
    NoUser = NoUser
    OpaqueTokens <- Opaque
    Markers <- Manifest
    Plans <- TwoPlans
    Texts <- Answered
    Spans <- Cited
    Labelled <- Labels
    MaxScore = 4
    DEFAULT_SEMANTIC_THRESHOLD = 2
    MAX_ATTEMPTS = 4
    Kinds = {"langfuse", "langsmith", "phoenix", "datadog", "helicone", "otel"}
    TRACE_PAGE = 2
    TRACE_LIMIT = 4
    TRIES = 2
    MaxTraces = 5
    MaxIngests = 1
    MaxExpiries = 1
    MaxCalls = 1
    Frameworks = {"openai", "anthropic", "autogen", "crewai", "langgraph", "http"}
    Workers = {1, 2}
    Tenants = {1, 2}
    POLLS = 2
    ITERATIONS = 2
    MaxRuns = 2
    NJobs = 5
    NWorkers = 3
INVARIANTS
    TypesOK
    PresentIsConfirmed
    NothingFabricated
    TechniqueReachedVerdict
    GateIsBest
    AnswersAreHonest
    AnswerIsTheAgents
PROPERTIES
    EverythingAnswers
CHECK_DEADLOCK FALSE
