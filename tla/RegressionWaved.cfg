SPECIFICATION Spec
CONSTANTS
    Leaks <- All
    FakeLeaks <- FakesShow
    Workflows = {"gdpr-erasure-verification", "gdpr-subject-erasure-verification"}
    MaxChanges = 2
INVARIANTS
    NothingWavedThrough
CHECK_DEADLOCK FALSE
