SPECIFICATION PartsSpec
CONSTANTS
    MaxTurns = 3
    HedgeAfter = 2
    Timeout = 3
    Budget = 4
    MaxTries = 2
    Callers = {1, 2, 3}
    Slots = 2
    Names = {1, 2, 3}
    WordsOf <- MCWordsOf
    Zones = {0, 1}
    FilingCap = 2
    GardenCap = 1
    MaxNamings = 2
    MaxGiven = 1
    MaxDays = 3
    Headings = {1, 2}
    Connections = 2
    Prose = {1, 2, 3, 4}
    DayOf <- MCDayOf
    LinkOf <- MCLinkOf
    MaxPublic = 3
    MaxOwn = 2
    n1 = n1
    n2 = n2
    u1 = u1
    u2 = u2
    u3 = u3
    Order <- MCOrder
    Titles = {n1, n2}
    Lines = {u1, u2, u3}
    Target <- MCTarget
    NoTarget = NoTarget
    MaxPushes = 3
    MaxGardens = 1
    a = a
    b = b
    p = p
    q = q
    t = t
    s1 = s1
    s2 = s2
    s3 = s3
    Spaces = {s1, s2, s3}
    Captured = {a, b}
    Staff = {p, q}
    WriterOf <- MCWriterOf
    Founder = p
    Bearers = {t}
    HolderOf <- MCHolderOf
    First = s1
    NoSpace = NoSpace
    Procedure = TRUE
    MaxExports = 2
    MaxChoices = 2
SYMMETRY Symmetry
CONSTRAINT PartsBounds
CHECK_DEADLOCK FALSE
INVARIANTS RequestsAreCounted NameReachesOnePage  LayerIsReadAsTold HandoverIsWhole
PROPERTIES GardenLandsRepairs DeletedIsNotRefiled
