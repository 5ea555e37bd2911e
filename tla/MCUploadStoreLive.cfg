CONSTANTS
    Client = {c1, c2}
    Reaper = reaper
    Transfer <- TwoTransfers
    Stripe <- OneStripe
    LockFor <- Stripes2
    Size <- Sizes2
    MaxActive = 1
    MaxPendingBytes = 2
    MaxConcurrentParts = 1
    None = none
    c1 = c1
    c2 = c2
    t1 = t1
    t2 = t2
    t3 = t3
    x = x
    y = y
SPECIFICATION FairSpec
PROPERTIES
    CallsEnd
