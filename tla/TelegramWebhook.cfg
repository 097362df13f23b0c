CONSTANTS
    u1 = u1
    u2 = u2
    h1 = h1
    h2 = h2
    a1 = a1
    a2 = a2
    a3 = a3
    None = None
    Ttl = 2
    Update <- TwoUpdates
    Handler <- TwoHandlers
    Run <- ThreeRuns
    Kinds <- TextAndSend
    Webhook = TRUE
    MaxFaults = 2
SPECIFICATION Spec
SYMMETRY Symmetric
INVARIANTS TypeOK OneHandlerPerUpdate OneReplyText AckedMeansAnswered
PROPERTIES CachedIsNotSentAgain CompletedIsOver
