SPECIFICATION Spec
CONSTANTS
    None = None
    Links = {TRUE, FALSE}
    MaxChange = 3
    MaxEpoch = 1
    MaxGen = 1
INVARIANTS
    TypeOK
    TrustedIndexMatches
    OpenStoreIsWhole
    PriorIsKept
