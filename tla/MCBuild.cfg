SPECIFICATION ASpec
CONSTANTS
    p1 = p1
    p2 = p2
    p3 = p3
    Plans = {p1, p2}
    Lineage <- OneSuccessor
    Builds = {b1, b2}
    Locators = {l1}
    Sessions = {s1, s2}
    None = None
    MaxGen = 2
    MaxRev = 2
SYMMETRY Symmetric
CHECK_DEADLOCK FALSE
INVARIANTS
    TypeOK
    GenerationsAreUnique
    ClaimHasItsEvidence
    EvidenceReachable
    ClosedPlansOwnNothing
    OneOwner
    IdentityNamesOnePlan
PROPERTIES
    LocatorMovesForward
    SnapshotNeverRewound
    EndedStaysEnded
