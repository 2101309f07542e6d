SPECIFICATION DeletionSpec
CONSTANTS
    c1 = c1
    c2 = c2
    o1 = o1
    t1 = t1
    Captures = {c1, c2}
    Uploads = {c1, c2}
    Original <- SameBytes
    Readable <- SameText
    Workers = {w1}
    NoCapture = NoCapture
    SweepsAlone = TRUE
    MaxFaults = 1
    Ids = {a1, a2}
    Writers = {p1, p2}
    EvidenceRefs = {r1}
    NoId = NoId
    NoWriter = NoWriter
    MaxAttempts = 2
    MaxRequests = 1
    MaxTroubles = 2
    PromptLock = TRUE
CHECK_DEADLOCK FALSE
  
PROPERTIES GarbageIsSwept RequestsComeThrough
