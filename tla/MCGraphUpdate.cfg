CONSTANTS
    Threads = {t1, t2}
    Nodes = {n1, n2, n3}
    NoThread = NoThread
    NoNode = NoNode
    Seeds = {n1}
    MaxLevel = 1
    M = 2
    EfConstruction = 2
    Updatable = {n1}
    Markable = {n2}
    QuietMarks = TRUE
SPECIFICATION FairSpec
INVARIANTS NeverThrows ReadsExistingLevels LinksWellFormed
PROPERTY CallsReturn
