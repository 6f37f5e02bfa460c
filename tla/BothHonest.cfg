SPECIFICATION FairSpec
CONSTANTS
    Null = Null
    Nobody = Nobody
    Casts <- NoneHostile
    RespondBy = 2
    ResendAfter = 1
    MakerClaimSafety = 1
    TakerClaimSafety = 4
    LockGrace = 0
    SponsorClaims = FALSE
    SponsorMargin = 1
    LockRunway = 1
    SubmitMargin = 1
    MaxCreditAttempts = 1
    CreditParkAfter = 1
    CreditRetryCap = 1
    Final = 1
    MaxReorgs = 0
    MaxFaults = 1
INVARIANTS
    RetiredLeavesNothing
PROPERTY
    EscrowsSettle
CHECK_DEADLOCK FALSE
