CONSTANTS
    NumClients = 2
    Iterations = 2
    Networks <- SomeNetworks
    Options <- SomeOptions
    MaxPolls = 2
    MaxFaults = 1
    MaxLate = 1
SPECIFICATION FairSpec
CHECK_DEADLOCK FALSE
INVARIANTS
    NetworkSound
    EnrolledBeforeTests
    RowsAreTheLog
    SetupsExcluded
    ClientSessionsWhole
    ResultsComplete
    TornDown
PROPERTIES
    ImplementsLedger
    RunEnds
