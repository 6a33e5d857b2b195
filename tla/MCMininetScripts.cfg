CONSTANTS
    ClientCounts = {0, 1, 3}
    RunCounts = {0, 3}
SPECIFICATION MCSpec
CHECK_DEADLOCK FALSE
INVARIANTS
    CsvWhole
    RowsOnDisk
PROPERTIES
    ScriptRunEnds
