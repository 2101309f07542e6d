SPECIFICATION Spec
CONSTANTS
    Names = {1, 2, 3, 9}
    Titles = {1, 2}
    Layers <- MCLayers
    Details <- MCDetails
    MaxPages = 3
    MaxOps = 1
    RrfK = 2
    Unit = 2400
    Pool = 3
    Fanout = 2
    Seeds = 2
    Hits = 3
    ShortWords = 8
    SectionWords = 8
    WindowWords = 7
    OverlapWords = 1
    OverlapCap = 2
    MinWords = 2
    MaxBytes = 80
    Texts <- MCTexts
    Walks <- MCWalks
    CallSize = 1
    Queries <- MCQueries
    Hubs = 2
    Neighbours = 1
CHECK_DEADLOCK FALSE
INVARIANTS ReadersSeeTheirLayers FragmentsAreTheBody
PROPERTIES LinksAreKept UpdatedIsRebuilt
