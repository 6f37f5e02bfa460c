SPECIFICATION Spec
CONSTANTS
    Null = Null
    Casts <- Everyone
    ORDER_LIFETIME = 3
    MIN_LIFETIME = 1
    INTENT_LIFETIME = 2
    MIN_RESPONSE = 1
    MAX_RESPONSE = 3
    RESPONDER_RUNWAY = 0
    RESPONDER_WINDOW = 3
    INITIATOR_WINDOW = 6
    PRELOCK_RUNWAY = 6
    MIN_LISTING = 7
    MAX_LISTING = 9
    CLOCK_SKEW = 1
    RESPONSE = 2
    RESPONDER_TIMEOUT = 3
    INITIATOR_TIMEOUT = 6
    PRELOCK_TIMEOUT = 8
    LOCK_RUNWAY = 1
    MIN_ORDER_RUNWAY = 1
    GRACE = 0
    LINGER = 0
    MaxTime = 9
INVARIANTS
    RecordsLoad
    FundsSafely
    AgreeOnFill
PROPERTY
    SignedIsAccepted
    CardCloses
CHECK_DEADLOCK FALSE
