CONSTANTS
    Rotations = 5
    Capacity = 2
    MaxRecords = 20
    Faults = TRUE
SPECIFICATION Spec
INVARIANTS
    TrailIsSuffix
    AuditReadable
    FullRetention
