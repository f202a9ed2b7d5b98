SPECIFICATION Spec
CONSTANTS
    None = None
    Links = {TRUE}
    MaxChange = 3
    MaxEpoch = 1
    MaxGen = 1
INVARIANT
    RecoverySetVerifies
