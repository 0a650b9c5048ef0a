CONSTANTS
    Threads = {t1, t2}
    Labels <- MCLabels
    Values = {a, b}
    None = None
    MaxSlots = 2
    NumLocks = 2
    ReplaceExisting = FALSE
SPECIFICATION Spec
INVARIANTS TypeOK LabelsAgree SlotIsOwned DeletedCount VacantSlots
PROPERTY ImplementsLabelMap
