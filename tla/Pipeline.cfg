SPECIFICATION Spec
CONSTANTS
    r1 = r1
    r2 = r2
    Connections = {r1, r2}
    Environments <- MCEnvironments
    Asked <- MCAsked
    Pages <- MCPages
    MaxRequests = 3
    MaxChanges = 1
    Absent = Absent
    Malformed = Malformed
    Invalid = Invalid
    NoConfig = NoConfig
SYMMETRY ConnectionSymmetry
INVARIANTS
    TypeOK
    ServesAsTold
    LayersInOrder
    CountersAddUp
    ScrapesAgree
    ReadyIsProven
CHECK_DEADLOCK FALSE
