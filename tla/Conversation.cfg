SPECIFICATION MCSpec
CONSTANTS
    None = None
    r1 = r1
    r2 = r2
    a = a
    b = b
    Runs = {r1, r2}
    Specialists = {"data", "insight"}
    MaxPlanSteps = 2
    MaxShownLimits = 2
    MaxObservations = 4
    ProviderAttempts = 2
    MaxExecutions = 2
    MaxTurnFaults = 2
    MaxTurns = 2
    Conversations = {a, b}
    New = New
    PageSize = 1
    MaxLogged = 2
    MaxReads = 2
    ClockSkew = 1
    MaxMoves = 1
    MaxNetFaults = 1
    MaxActivity = 2
    ActivityPage = 1
    MaxPolls = 2
    MaxPaneFaults = 1
INVARIANTS
    AnswerGrounded
    OnePerPrompt
PROPERTIES
    AnswerCurrent
    NeverRegresses
    AllSettle
CHECK_DEADLOCK FALSE
