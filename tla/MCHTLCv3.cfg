SPECIFICATION Spec
CONSTANTS
    a1 = a1
    a2 = a2
    h1 = h1
    h2 = h2
    p1 = p1
    p2 = p2
    Accounts = {a1, a2}
    Hashlocks = {h1, h2}
    Preimages = {p1, p2}
    Sha256 <- MCSha256
    Total <- MCTotal
    Tokens = {tok}
    Native = native
    Zero = zero
    This = this
    NoPreimage = nopre
    AmountCap = 1
    WordMax = 2
    MaxTime = 2
SYMMETRY Symmetry
INVARIANTS
    TypeOK
    Solvency
    Entitlement
    CreditAlwaysFits
    CreditsReachable
PROPERTY
    EscrowSpec
CHECK_DEADLOCK FALSE
