\* Two units, three batches, two crashes, no power loss.
SPECIFICATION FairSpec
CONSTANTS
    Unit = {u1, u2}
    Event = {1, 2, 3}
    MaxCrashes = 2
    PowerLossPossible = FALSE
    None = None
INVARIANTS TypeOK BilledAtMostOnce SpooledUntilBilled QuotaNeverUndercounts
PROPERTIES ImplementsLedger Delivered
