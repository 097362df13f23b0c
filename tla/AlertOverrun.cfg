CONSTANTS
    r1 = r1
    r2 = r2
    l1 = l1
    k1 = k1
    None = None
    Retrier <- OneLoop
    Chat <- TwoChats
    MaxAttempts = 2
    ClaimTtl = 2
    Limit = 10
    Backoff = 1
    Request <- OneRequest
    Key <- NoKey
    RetryAfter <- NoDelay
    Timely = FALSE
    MaxFaults = 1
SPECIFICATION FairSpec
INVARIANTS TypeOK NothingStranded CompletedMeansDelivered EscalationExplained
PROPERTY EveryAlertSettles
