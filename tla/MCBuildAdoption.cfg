SPECIFICATION FairASpec
CONSTANTS
    p1 = p1
    p2 = p2
    p3 = p3
    Plans = {p1, p2, p3}
    Lineage <- Diamond
    Builds = {b1}
    Locators = {}
    Sessions = {s1}
    None = None
    MaxGen = 3
    MaxRev = 3
CHECK_DEADLOCK FALSE
PROPERTIES
    TransferDecided
    RetirementCompletes
    ImplementsOwnership
