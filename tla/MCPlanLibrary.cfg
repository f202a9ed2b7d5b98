SPECIFICATION Spec
CONSTANTS
    Sessions = {s1, s2}
    Depths = {quick, standard}
    ColdDepths = {standard}
    Findings = {f1, f2}
    Decisions = {fix}
    None = None
    MaxRev = 2
SYMMETRY Symmetric
INVARIANTS
    TypeOK
    ChainReadsTruthfully
    ReviewIsOfTheApproval
    PresentedIsDecided
PROPERTIES
    JudgmentsStand
