SPECIFICATION Spec
CONSTANTS
    Conversations = {c1}
    None = None
    MaxSaid = 1
    MaxMarks = 0
    MaxEpoch = 0
    MaxGen = 2
CHECK_DEADLOCK FALSE
PROPERTIES
    ErasedStaysErased
