SPECIFICATION Spec
CONSTANTS
    Dims <- MCDims
    Cpus <- MCCpus
    VLMAX = 4
INVARIANT TailHandled
