SPECIFICATION Spec
CONSTANTS
    Leaks <- All
    FakeLeaks <- FakesShow
    Workflows = {"probe", "gdpr-erasure-verification", "gdpr-subject-erasure-verification"}
    MaxChanges = 2
INVARIANTS
    GreenMeansRetested
    SilentPassIsComplete
    LeaksHoldTheLetterDown
CHECK_DEADLOCK FALSE
