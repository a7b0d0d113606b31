SPECIFICATION FairSpec
CONSTANTS
    u = u
    v = v
    c1 = c1
    c2 = c2
    n1 = n1
    n2 = n2
    n3 = n3
    User = {u, v}
    Cred = {c1, c2}
    Net = {n1, n2, n3}
    Desired <- Deletions
    Unbuildable = {}
    Invalid <- Rejected
    Unstartable <- ExitsAtStart
    FaultKinds = {"op", "api", "start", "death", "validate", "write", "backup", "persist"}
    MaxFaults = 2
    MaxCrashes = 1
    None = None
INVARIANTS TypeOK NetHasRun
PROPERTIES ComesBack FilesFollow
