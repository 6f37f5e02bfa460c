\* A browser with a streamed primary book and one polled peer.
CONSTANTS
    Nil = Nil
    Failed = Failed
    Primary = "primary"
    Peers = {"peer"}
    Ids = {1}
    Catalogue <- MCCatalogue
    PeerBooks <- MCPeerBooks
    Life = 2
    Retention = 3
    MaxWait = 2
    Sites <- MCSites
SPECIFICATION ListSpec
INVARIANTS
    QuarantineHolds
PROPERTIES
    Fresh
CHECK_DEADLOCK FALSE
