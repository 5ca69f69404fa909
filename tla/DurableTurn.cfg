SPECIFICATION FairSpec
CONSTANTS
    None = None
    Jobs = {j1}
    Workers = {w1, w2}
    Reads = {k1, k2}
    Personas = {data, compare}
    MaxAttempts = 3
    LeaseTicks = 2
INVARIANTS
    TypeOK
    AnswerAgrees
    RunAgrees
    StepsSettle
PROPERTIES
    LostLeaseStaysLost
    MovesAreLegal
    TurnsSettle
    ImplementsContract
