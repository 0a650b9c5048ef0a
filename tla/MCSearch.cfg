SPECIFICATION Spec
CONSTANTS
    Nodes <- N4
    Docs <- N3
    MaxDist = 5
    None = None
    Queries <- MCQueries
INVARIANTS KnnResults LocalOptimum EpsilonRegion DocsFound
PROPERTY SearchReturns
\* A search that has returned stops.
CHECK_DEADLOCK FALSE
