CONSTANTS
    Threads = {t1, t2, t3}
    Nodes = {n1, n2, n3, n4}
    NoThread = NoThread
    NoNode = NoNode
    Seeds = {}
    MaxLevel = 1
    M = 2
    EfConstruction = 2
    Updatable = {}
    Markable = {n1, n2, n3, n4}
    QuietMarks = TRUE
SPECIFICATION Spec
SYMMETRY Symmetry
INVARIANTS TypeOK NeverThrows LinksWellFormed NoDuplicateLinks NoElementLost EntryPointOnTop
PROPERTY EntryPointClimbs
