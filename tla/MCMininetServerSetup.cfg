CONSTANTS
    NumClients = 2
    Iterations = 1
    Networks <- OneNetwork
    Options <- OneOption
    MaxPolls = 2
    MaxFaults = 0
    MaxLate = 0
SPECIFICATION Spec
CHECK_DEADLOCK FALSE
INVARIANTS
    ServerSessionsWhole
