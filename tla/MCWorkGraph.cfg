SPECIFICATION Spec
CONSTANTS
    na = na
    nb = nb
    nc = nc
    pp = pp
    pq = pq
    Nodes = {na, nb, nc}
    Plans = {pp, pq}
    Item <- MCItem
    Slots <- MCSlots
    First = pp
    IdOrder <- ABC
    None = None
    MaxAttempts = 2
    MaxRewrites = 1
INVARIANTS
    TypeOK
    DependenciesIntegrated
    HoldersCompatible
    AttemptedForThisPlan
    NeverStuck
PROPERTIES
    IntegratesTheClaim
    AdmittedStayClaimable
