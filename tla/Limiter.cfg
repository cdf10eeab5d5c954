SPECIFICATION WatchSpec
CONSTANTS
    Goroutines = {g1, g2}
    Clients = {c1, c2}
    Watched = {c1}
    Burst = 1
    Cost = 2
    Rate = 1
    Second = 2
    ClientTTL = 2
    SweepEvery = 2
    MaxTime = 5
    MaxDelay = 1
    None = None
SYMMETRY GoroutineSymmetry
INVARIANTS
    TypeOK
    AdmissionBound
PROPERTIES
    RetryAfterHonest
    IdleClientsForgotten
