\* Order book processes: one under a rush of requests, two that succeed each
\* other on the same files, three that race for overlapping sets of files.
CONSTANTS
    Null = Null
    p1 = p1
    p2 = p2
    p3 = p3
    Procs = {p1, p2, p3}
    Files = {1, 2, 3}
    TTL = 3
    Sites <- MCSites
    Requests <- AllRequests
    Mutations <- MCMutations
    BodyReads <- MCBodyReads
    PerSource = 2
    PerSourceMaker = 3
SPECIFICATION Spec
INVARIANTS
    ReceiptsHold
    SomeoneWins
PROPERTIES
    NeverSurprised
    MakerServed
    Stops
CHECK_DEADLOCK FALSE
