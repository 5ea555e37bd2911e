CONSTANTS
    Process = {s1}
    Request = {r1, r2}
    PartUpload = {r2}
    ListenerMayFail = TRUE
    Faults = TRUE
    None = none
    s1 = s1
    s2 = s2
    r1 = r1
    r2 = r2
SPECIFICATION FairSpec
CHECK_DEADLOCK FALSE
PROPERTIES
    ShutdownEnds
    AdmittedIsAnswered
