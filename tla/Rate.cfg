SPECIFICATION Spec
CONSTANTS
    a = a
    b = b
    c = c
    Conn = {a, b, c}
    Durations = {0, 1, 2}
    MaxWrites = 4
    MaxTime = 3
SYMMETRY Same
INVARIANTS RateKept OneAtATime NeverIdle
CHECK_DEADLOCK FALSE
