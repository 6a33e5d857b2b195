CONSTANTS
    Key = {k1, k2, k3}
    Thread = {t1, t2}
    GenMax = 1
    PersistEvery = 2
    BenchMode = FALSE
    MaxAdmits = 3
    MaxArrivals = 3
    MaxCrashes = 1
    MaxIoErrors = 1
SPECIFICATION FairServerSpec
CHECK_DEADLOCK FALSE
PROPERTIES
    ImplementsGuard
    SessionsEnd
