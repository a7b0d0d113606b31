SPECIFICATION MCFairSpec
CONSTANTS
    a = a
    b = b
    x = x
    y = y
    Source <- AnySource
    Conn = {a, b}
    Address = {x, y}
    NoAddress = NoAddress
    Policies <- AllPolicies
    TombstoneSeconds = 1
    None = None
    Nobody = Nobody
    MaxWrites = 2
    MaxFaults = 1
INVARIANTS TypeOK CountsExact
PROPERTIES AdmittedAsTold PassesAsTold LimitsTakeHold
