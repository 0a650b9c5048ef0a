CONSTANTS
    Threads = {t1, t2}
    Nodes = {n1, n2, n3, n4}
    NoThread = NoThread
    NoNode = NoNode
    Seeds = {n1, n2, n3}
    MaxLevel = 0
    M = 2
    EfConstruction = 3
    Updatable = {n2}
    Markable = {}
    QuietMarks = TRUE
SPECIFICATION Spec
INVARIANT NoDuplicateLinks
