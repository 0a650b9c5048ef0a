SPECIFICATION Spec
CONSTANTS
    Threads = {t1, t2}
    Labels <- MCLabels
    MaxDist = 2
    maxelements = 3
    None = None
SYMMETRY Symmetry
CONSTRAINT NotMisled
INVARIANTS
    TypeOK
    ContentsExact
    DictExact
    SearchExact
    FilteredNearest
