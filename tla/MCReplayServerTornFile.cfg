CONSTANTS
    Key = {k1, k2, k3}
    Thread = {t1, t2}
    GenMax = 2
    PersistEvery = 2
    BenchMode = FALSE
    MaxAdmits = 3
    MaxArrivals = 3
    MaxCrashes = 0
    MaxIoErrors = 0
SPECIFICATION ServerSpec
SYMMETRY Symmetry
CHECK_DEADLOCK FALSE
INVARIANTS
    FileAlwaysLoads
