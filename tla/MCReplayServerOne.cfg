CONSTANTS
    Key = {k1, k2, k3, k4, k5}
    Thread = {t1}
    GenMax = 2
    PersistEvery = 2
    BenchMode = FALSE
    MaxAdmits = 7
    MaxArrivals = 7
    MaxCrashes = 1
    MaxIoErrors = 1
SPECIFICATION ServerSpec
SYMMETRY KeySymmetry
CHECK_DEADLOCK FALSE
INVARIANTS
    RetentionWindow
    CompletedKeysDurable
    FileAlwaysLoads
    LossBounded
PROPERTIES
    ImplementsGuard
