SPECIFICATION Spec
CONSTANTS
    Null = Null
    m1 = m1
    m2 = m2
    v1 = v1
    v2 = v2
    i1 = i1
    t1 = t1
    Mirrors <- TwoMirrors
    Variants <- TwoVariants
    PrelockT1 <- Prelocks
    Intents <- OneIntent
    LegacyTakers <- OneTaker
    Expiry <- Expiries
    MinRemaining = 1
    IntentLife = 1
    Response = 2
    InitiatorWindow = 1
    MinRunway = 1
    Grace = 0
    Linger = 0
    OpenTTL = 3
    AcceptedTTL = 1
    CancelledTTL = 1
    MaxConflicts = 2
    MaxTime = 2
    MaxTerminals = 2
SYMMETRY MirrorsAlike
INVARIANTS
    Quarantined
    ReleaseStopsFill
    FilledStaysClosed
    Convergence
    ReloadsOnFirstTerms
CHECK_DEADLOCK FALSE
