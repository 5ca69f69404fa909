SPECIFICATION Spec
CONSTANTS
    Null = Null
    Project = "p"
    Files <- SeasonFiles
    Requests <- DayRequests
    Thresholds = {90}
    MaxFiles = 3
    MaxComposition = 2
    MaxComparison = 4
    MaxEvidence = 20
    Slug <- SameName
INVARIANTS
    PinnedIsEnough
    FiguresAgree
    ChangesTold
    CitationsHold
    AcceptsOwn
    ReportSound
CHECK_DEADLOCK FALSE
