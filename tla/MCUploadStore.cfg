CONSTANTS
    Client = {c1, c2}
    Reaper = reaper
    Transfer <- ThreeTransfers
    Stripe <- TwoStripes
    LockFor <- Stripes3
    Size <- Sizes3
    MaxActive = 2
    MaxPendingBytes = 2
    MaxConcurrentParts = 1
    None = none
    c1 = c1
    c2 = c2
    t1 = t1
    t2 = t2
    t3 = t3
    x = x
    y = y
SPECIFICATION Spec
SYMMETRY ClientSymmetry
INVARIANTS
    ActiveWithinLimit
    BytesWithinLimit
    PartialIsPrivate
    SlotsAreBodies
PROPERTIES
    ReapsOnlyExpired
    RefusalIsEarned
