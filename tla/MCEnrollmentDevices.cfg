CONSTANTS
    i1 = i1
    i2 = i2
    p1 = p1
    p2 = p2
    r1 = r1
    r2 = r2
    Id = {i1, i2}
    PubKey = {p1, p2}
    Role = {r1, r2}
    SetupRequest <- AllDevices
    Thread = {t1, t2}
    MaxCrashes = 1
    MaxSaveErrors = 1
SPECIFICATION MCSpec
INVARIANTS
    AckedEnrolmentDurable
    IndexMatchesRegistry
    FileFollowsRegistry
PROPERTIES
    BindingStableAlone
    SetupsEnd
