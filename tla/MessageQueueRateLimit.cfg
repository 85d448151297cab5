SPECIFICATION Spec
CONSTANTS
    OperatorMsgs = {"m"}
    CrossMsgs = {}
    Refusals = {"rate"}
    MaxRejections = 1
    MaxEdits = 0
    MaxRefusals = 1
    MaxVisits = 1
    MaxRestarts = 0
INVARIANTS
    NothingLost
CHECK_DEADLOCK FALSE
