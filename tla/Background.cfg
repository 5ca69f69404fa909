SPECIFICATION MCSpec
CONSTANTS
    None = None
    d1 = d1
    d2 = d2
    ana = ana
    w1 = w1
    Definitions = {d1, d2}
    Members = {ana}
    Creator <- MCCreator
    Clock <- MCClock
    MaxVersion = 2
    Updates = {u1}
    Workers = {w1, w2}
    Supervised = {w1}
    MaxAttempts = 2
    MaxFaults = 2
INVARIANTS
    SlotsHonest
    OutboxHonest
CHECK_DEADLOCK FALSE
PROPERTIES
    NoSlotDropped
    AllServed
