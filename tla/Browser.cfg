SPECIFICATION Spec
CONSTANTS
    Null = Null
    Nobody = Nobody
    Casts <- EverySide
    CLAIM_MARGIN = 1
    RESPONSE = 3
    INITIATOR = 6
    PRELOCK = 7
INVARIANTS
    NotShorted
    EscrowRecoverable
CHECK_DEADLOCK FALSE
