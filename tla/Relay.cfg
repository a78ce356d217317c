SPECIFICATION FairSpec
CONSTANTS
    p1 = p1
    p2 = p2
    k1 = k1
    Event = {p1, p2, k1}
    Tick = {t1, t2}
    RabbitEvent <- ForRabbit
    CreatedAt <- Created
    Batch = 2
    MaxAttempts = 2
    MaxFaults = 1
INVARIANTS
    DuplicatesHaveCause
    SentIsOnItsWay
PROPERTIES
    KeepsOutbox
    EveryEventSettled
