SPECIFICATION Spec
CONSTANTS
    u = u
    v = v
    c1 = c1
    c2 = c2
    n1 = n1
    n2 = n2
    n3 = n3
    User = {u, v}
    Cred = {c1, c2}
    Net = {n1, n2, n3}
    Desired <- HotAndRestart
    Unbuildable <- Refused
    Invalid = {}
    Unstartable <- ExitsAtStart
    FaultKinds = {"api", "start"}
    MaxFaults = 2
    MaxCrashes = 0
    None = None
INVARIANTS AppliedBeforePersist PlanFromRunning
PROPERTIES LastGoodStaysGood
