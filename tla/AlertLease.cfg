CONSTANTS
    r1 = r1
    r2 = r2
    l1 = l1
    k1 = k1
    None = None
    Retrier <- OneLoop
    Chat <- TwoChats
    MaxAttempts = 2
    ClaimTtl = 2
    Limit = 10
    Backoff = 1
    Request <- TwoRequests
    Key <- SameKey
    RetryAfter <- Delays
    Timely = TRUE
    MaxFaults = 2
SPECIFICATION Spec
SYMMETRY RequestSymmetry
INVARIANTS SendBudget LeaseExclusion SentReplyMeansDelivered EscalationJustified
PROPERTIES TerminalIsFinal RecordedNotResent RetryAfterHonoured ImplementsContract
