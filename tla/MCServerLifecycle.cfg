CONSTANTS
    Process = {s1, s2}
    Request = {r1, r2}
    PartUpload = {r2}
    ListenerMayFail = FALSE
    Faults = TRUE
    None = none
    s1 = s1
    s2 = s2
    r1 = r1
    r2 = r2
SPECIFICATION Spec
SYMMETRY Symmetry
CHECK_DEADLOCK FALSE
INVARIANTS
    AdmittedHandlersKeepState
    StateIsExclusive
    DrainedIsFinal
    EffectsAreAudited
    OrderlyExitKillsNobody
