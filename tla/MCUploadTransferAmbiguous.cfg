CONSTANTS
    Upload <- OneUpload
    Part <- TwoParts
    Data = {a, b}
    Name = {n1}
    Target <- OneTarget
    Place <- OnePlace
    Announced <- OneAnnounced
    UserContent <- OneUserContent
    Movable = {n1}
    Torn = torn
    Faults = FALSE
    None = none
    u1 = u1
    u2 = u2
    p1 = p1
    p2 = p2
    a = a
    b = b
    n1 = n1
    foreign = foreign
SPECIFICATION Spec
INVARIANTS
    OnlyPublicationIsAmbiguous
