SPECIFICATION FairSpec
CONSTANTS
    p1 = p1
    placed = placed
    broken = broken
    Event = {placed, broken}
    Body <- Bodies
    Reader = {"ordersAnalytics", "ordersCrm", "paymentsAnalytics", "paymentsAudit"}
    Partition = {p1}
    Home <- Homes
    Process = {m1, m2}
    Nobody = Nobody
    MaxLog = 4
    MaxSends = 2
    MaxFaults = 2
INVARIANTS
    NoneSkipped
    HeardInOrder
    RepeatsHaveCause
PROPERTIES
    EveryEventIsHeard
