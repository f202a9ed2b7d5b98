SPECIFICATION Spec
CONSTANTS
    Plans = {p1}
    Builds = {b1, b2}
    Locators = {l1}
    Sessions = {s1}
    None = None
    MaxGen = 2
    MaxRev = 2
CHECK_DEADLOCK FALSE
INVARIANTS
    RecordedInputsRetry
