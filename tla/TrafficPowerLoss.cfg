\* Idempotency survives power losses.
SPECIFICATION Spec
CONSTANTS
    Unit = {u1, u2}
    Event = {1, 2}
    MaxCrashes = 2
    PowerLossPossible = TRUE
    None = None
INVARIANTS BilledAtMostOnce
