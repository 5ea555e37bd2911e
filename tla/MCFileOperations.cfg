CHECK_DEADLOCK FALSE
CONSTANTS
    Folder = {here, there}
    Name = {a, b}
    Content = {c1, c2, c3, c4}
    Selections <- Both
    Found <- FileAndFolder
    Mountings <- OneMounted
    MaxBegun = 2
    MaxOthers = 2
    here = here
    there = there
    a = a
    b = b
    c1 = c1
    c2 = c2
    c3 = c3
    c4 = c4
SPECIFICATION Spec
SYMMETRY Symmetry
INVARIANTS
    NothingElseIsLost
    AnswersAreTrue
