SPECIFICATION Spec
CONSTANTS
    Callers = {c1, c2}
    num_threads = 2
    FewRows = 1
    RowCounts = {1, 2}
    IdBases = {0, 1}
    MaxElements = 3
    MaxCalls = 3
    MaxLabel = 5
    None = None
INVARIANT EveryRowOnce RowsStored
PROPERTY LabelsNotReused CallsReturn
CHECK_DEADLOCK FALSE
