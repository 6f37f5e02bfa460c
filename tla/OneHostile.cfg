SPECIFICATION Spec
CONSTANTS
    Null = Null
    Nobody = Nobody
    Casts <- OneHostile
    RespondBy = 2
    ResendAfter = 1
    MakerClaimSafety = 1
    TakerClaimSafety = 5
    LockGrace = 0
    SponsorClaims = TRUE
    SponsorMargin = 1
    LockRunway = 1
    SubmitMargin = 1
    MaxCreditAttempts = 1
    CreditParkAfter = 1
    CreditRetryCap = 1
    Final = 1
    MaxReorgs = 1
    MaxFaults = 1
INVARIANTS
    MakerNotShorted
    TakerNotShorted
CHECK_DEADLOCK FALSE
