CONSTANTS
    Upload <- BothUploads
    Part <- OnePart
    Data = {a}
    Name = {n1}
    Target <- SameTarget
    Place <- TwoPlaces
    Announced = {none}
    UserContent <- TwoUserContent
    Movable = {}
    Torn = torn
    Faults = FALSE
    None = none
    u1 = u1
    u2 = u2
    p1 = p1
    p2 = p2
    a = a
    b = b
    n1 = n1
    foreign = foreign
SPECIFICATION FairSpec
PROPERTIES
    ExpiredIsReclaimed
