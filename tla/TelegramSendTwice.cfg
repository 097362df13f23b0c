CONSTANTS
    u1 = u1
    u2 = u2
    h1 = h1
    h2 = h2
    a1 = a1
    a2 = a2
    a3 = a3
    None = None
    Ttl = 2
    Update <- OneUpdate
    Handler <- TwoHandlers
    Run <- ThreeRuns
    Kinds <- Sends
    Webhook = TRUE
    MaxFaults = 1
SPECIFICATION Spec
INVARIANT SendOnce
