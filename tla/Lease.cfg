SPECIFICATION FairLeaseSpec
CONSTANTS
    NoFile = NoFile
    p1 = p1
    p2 = p2
    p3 = p3
    Procs <- ThreeProcs
    TTL = 2
    GuardTTL = 3
    Sites <- OrderlyAndFaulty
INVARIANTS
    AtMostOneHolder
    AtMostOneLateWrite
PROPERTY
    StarterAnswered
CHECK_DEADLOCK FALSE
