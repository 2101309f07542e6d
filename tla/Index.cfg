\* The system stops when the bounds are used up and the writer sleeps.
SPECIFICATION FairSpec
CONSTANTS
    pub = pub
    lay = lay
    c1 = c1
    c2 = c2
    h1 = h1
    h2 = h2
    NoPush = NoPush
    Pages = {pub, lay}
    LayerPages = {lay}
    Captures = {c1}
    LayerCaptures = {}
    Handlers = {h1,h2}
    SleepsWhenIdle = TRUE
    MaxOthers = 2
    MaxDeliveries = 3
    MaxFaults = 1
    MaxAsks = 1
CONSTRAINT Bounded
CHECK_DEADLOCK FALSE
INVARIANTS IndexIsCorpus ReportsAreKept
PROPERTIES Converges
