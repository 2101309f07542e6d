\* One process, two requests, a push by somebody else, two crashes or failing steps, and
\* pushes that land late: three of these in one behaviour.
\* The system stops when every request and capture within the bounds is settled.
SPECIFICATION FairSpec
CONSTANTS
    hr = hr
    ops = ops
    public = public
    a = a
    b = b
    x = x
    Layers <- MCLayers
    Captures <- MCCaptures
    Outside = {x}
    Public = public
    Names <- MCNames
    LayerOf <- MCLayerOf
    Touches <- MCTouches
    Blob <- MCBlob
    Workers = {w1}
    NoWorker = NoWorker
    NoJob = NoJob
    MaxAttempts = 2
    LatePush = TRUE
    MaxRequests = 2
    MaxFaults = 2
CHECK_DEADLOCK FALSE
CONSTRAINT Bounded
INVARIANTS RecordsResolve
PROPERTIES ErasureCompletes OthersKept
