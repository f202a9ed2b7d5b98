SPECIFICATION Spec
CONSTANTS
    Sessions = {s1, s2}
    Depths = {quick, standard}
    ColdDepths = {standard}
    Findings = {}
    Decisions = {fix}
    None = None
    MaxRev = 2
SYMMETRY Symmetric
INVARIANTS
    SealedIsTheHead
