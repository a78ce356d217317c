SPECIFICATION FairGatewaySpec
CONSTANTS
    Update = {u1, u2}
    Target = {"paid", "pending", "processed"}
    MaxFaults = 1
    Nothing = Nothing
    Socket = {s1}
    Window = 2
    MaxCalls = 1
    MaxAttempts = 2
INVARIANTS
    QuietFeedIsCurrent
    ProcessedLostInGap
    RateLimited
    ViewConverges
PROPERTIES
    EveryChangeIsHeard
