SPECIFICATION FairSpec
CONSTANTS
    e = e
    f = f
    Iface = {e, f}
    Chosen = {e, f}
    Modulus = 16
    Jiffies <- IdleMoves
    MaxTime = 2
    MaxFaults = 2
PROPERTIES RatesAreReal ReadyFollows
