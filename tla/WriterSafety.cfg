SPECIFICATION Spec
CONSTANTS
    c1 = c1
    w1 = w1
    w2 = w2
    Ops = {c1}
    Captures = {c1}
    Gardens = {}
    Workers = {w1, w2}
    Foreign = Foreign
    NoWorker = NoWorker
    NoJob = NoJob
    MaxAttempts = 1
    MaxStops = 1
    MaxRetries = 1
    MaxForeign = 1
SYMMETRY WorkerSymmetry
CHECK_DEADLOCK FALSE
INVARIANTS AtMostOneCommit LandedIsSubstantiated
PROPERTIES OnlyHolderSettles ImplementsLedger
