CONSTANTS
    q1 = q1
    q2 = q2
    q3 = q3
    q4 = q4
    None = None
    Request <- Four
    Source <- WebAndTelegram
    Timeout = 1
SPECIFICATION Spec
SYMMETRY RequestSymmetry
INVARIANTS TypeOK SentAtMostOnce SentOnlyIfConfirmed PutAsideNeverSent
PROPERTY ImplementsTokens
