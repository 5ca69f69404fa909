SPECIFICATION Spec
CONSTANTS
    None = None
    Targets = {"report", "insight", "chart"}
    MaxAttempts = 2
    Narratives = {"n1", "n2"}
    Faults = FALSE
CHECK_DEADLOCK FALSE
INVARIANTS
    InsightRetrySafe
