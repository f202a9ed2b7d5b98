SPECIFICATION FairSpec
CONSTANTS
    Conversations = {c1, c2}
    None = None
    MaxSaid = 2
    MaxMarks = 1
    MaxEpoch = 1
    MaxGen = 1
CHECK_DEADLOCK FALSE
INVARIANTS
    TypeOK
    NothingLost
    CapturedOnce
    RecallIsWhole
PROPERTIES
    OnlyRestoreReveals
    EverythingCaptured
