SPECIFICATION FairSpec
CONSTANTS
    None = None
    Runs = {r1}
    Workers = {w1, w2}
    MaxAttempts = 3
    LeaseTicks = 2
    Skew = 1
    MaxToken = 4
INVARIANTS
    TypeOK
    SingleOwner
    ReplyAgrees
    ResultFromLastAttempt
PROPERTIES
    LostLeaseStaysLost
    RunsSettle
    ImplementsContract
