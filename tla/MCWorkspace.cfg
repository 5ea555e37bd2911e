CONSTANTS
    Name = {notes, docs}
    NoName = none
    notes = notes
    docs = docs
    MaxClock = 3
    MaxSession = 2
    MaxLoads = 2
    Writable = TRUE
    Attributes <- TwoAttributes
    Mutable = TRUE
    CanUpload = TRUE
    Folders <- TwoFolders
    Current <- Root
CHECK_DEADLOCK FALSE
SPECIFICATION Spec
INVARIANTS
    OwnChangesShown
PROPERTIES
    BatchIsSeen
    ConfirmedIsDeleted
    OthersChangesKept
    ActsAsShown
