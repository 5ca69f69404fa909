SPECIFICATION FairSpec
CONSTANTS
    None = None
    Targets = {"report", "insight", "chart"}
    MaxAttempts = 2
    Narratives = {"n1", "n2"}
    Faults = TRUE
CHECK_DEADLOCK FALSE
INVARIANTS
    CheckpointHonest
    Lineage
    PublishedReviewed
    AllStagesTold
    LateStagesRecover
PROPERTIES
    AttemptsEnd
