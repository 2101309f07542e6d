SPECIFICATION FairSpec
CONSTANTS
    g1 = g1
    w1 = w1
    w2 = w2
    Ops = {g1}
    Captures = {}
    Gardens = {g1}
    Workers = {w1, w2}
    Foreign = Foreign
    NoWorker = NoWorker
    NoJob = NoJob
    MaxAttempts = 1
    MaxStops = 1
    MaxRetries = 0
    MaxForeign = 0
PROPERTIES EventuallySettled
