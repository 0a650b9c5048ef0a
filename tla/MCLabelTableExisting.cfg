CONSTANTS
    Threads = {t1}
    Labels <- MCLabels
    Values = {a}
    None = None
    MaxSlots = 2
    NumLocks = 2
    ReplaceExisting = TRUE
SPECIFICATION Spec
INVARIANT NoDuplicateLabel
