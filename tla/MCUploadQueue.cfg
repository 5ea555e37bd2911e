CONSTANTS
    Uploads = 1
    MaxWorkers = 2
    Parts = 2
    Attempts = 2
    Content = {original, other}
    Original = original
    None = None
CHECK_DEADLOCK FALSE
SPECIFICATION Spec
INVARIANTS
    TypeOK
    OnlyOriginalWritten
    CompletedIsPublished
    RecordKept
    CancelledOnRequest
    NobodyStranded
