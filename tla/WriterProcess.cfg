SPECIFICATION ProcessSpec
CONSTANTS
    Procs = {p1, p2}
    MaxWork = 3
    MaxRetries = 1
    Tenants = {1, 2}
    Broken = {1}
    Day = 3
    GardenAt = 1
    RebuildAt = 2
    Retry = 3
    MaxBusy = 2
    MaxQueue = 1
    MaxTroubles = 1
CHECK_DEADLOCK FALSE
INVARIANTS NeverAsleepOverWork
PROPERTIES WorkIsServed
