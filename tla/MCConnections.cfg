CONSTANTS
    Peer = {a}
    Window = 1
    Ban = 2
    MaxFailures = 2
    Conn = {c1, c2, c3}
    MaxActive = 2
SPECIFICATION FairSpec
INVARIANTS
    ActiveBounded
    NoSlotLeaks
    FloodBanned
    FailedSetupsBounded
PROPERTIES
    BanEarned
    ConnectionsEnd
    BlocksEnd
