SPECIFICATION FairSpec
CONSTANTS
    Null = Null
    i1 = i1
    i2 = i2
    Intents <- OneTaker
    Expiry = 3
    IntentLife = 2
    MinResponse = 1
    MinRemaining = 1
    ResponseWindow = 1
    InitiatorWindow = 4
    ResponderWindow = 2
    TerminalGrace = 1
    LockingLinger = 0
    ResendAfter = 1
    ClaimSafety = 0
    LockGrace = 0
    SponsorClaims = FALSE
    SponsorMargin = 1
    MaxCreditAttempts = 1
    CreditParkAfter = 1
    CreditRetryCap = 1
    BookBusy = TRUE
    MaxTime = 6
    MaxFaults = 1
    MaxSecrets = 2
PROPERTY
    FillResolves
CHECK_DEADLOCK FALSE
