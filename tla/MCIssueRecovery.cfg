SPECIFICATION FairSpec
CONSTANTS
    Keys = {k1}
    Manual = {}
    Observations = {o1, o2}
    Sessions = {s1, s2}
    None = None
    MaxGen = 2
CHECK_DEADLOCK FALSE
INVARIANTS
    TypeOK
    AtMostOnePost
    EarlierIsSettled
PROPERTIES
    JournalMovesForward
    LandedIsConfirmed
