CONSTANTS
    u1 = u1
    u2 = u2
    h1 = h1
    h2 = h2
    a1 = a1
    a2 = a2
    a3 = a3
    None = None
    Ttl = 2
    Update <- OneUpdate
    Handler <- OneHandler
    Run <- ThreeRuns
    Kinds <- Kind
    Webhook = FALSE
    MaxFaults = 2
SPECIFICATION FairSpec
PROPERTY EveryUpdateAcked
