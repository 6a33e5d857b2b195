CONSTANTS
    Key = {k1, k2, k3}
    GenMax = 1
    PersistEvery = 2
    BenchMode = FALSE
    MaxAdmits = 3
    i1 = i1
    i2 = i2
    p1 = p1
    p2 = p2
    r1 = r1
    r2 = r2
    Id = {i1, i2}
    PubKey = {p1, p2}
    Role = {r1, r2}
    SetupRequest <- SomeRequests
    MaxCrashes = 1
    MaxIoErrors = 1
SPECIFICATION Spec
SYMMETRY KeySymmetry
INVARIANTS
    LossCounted
    SavedSurvives
PROPERTIES
    CServerImplementsGuard
    BindingKept
