SPECIFICATION FairSpec
CONSTANTS
    good = good
    bad = bad
    junk = junk
    Message = {good, bad, junk}
    NoMessage = NoMessage
    Consumer = {w1, w2}
    Invalid <- Unparsable
    AlwaysFail <- Failing
    MaxAttempts = 2
    PoolSize = 2
    MaxCopies <- Copies
    MaxFaults = 1
    MaxClosures = 1
INVARIANTS
    EffectOnce
    NothingLost
PROPERTIES
    EveryMessageEnds
    KeepsQueue
