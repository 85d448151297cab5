SPECIFICATION Spec
CONSTANTS
    OperatorMsgs = {"m"}
    CrossMsgs = {"d"}
    Refusals = {"quota", "other"}
    MaxRejections = 1
    MaxEdits = 1
    MaxRefusals = 1
    MaxVisits = 1
    MaxRestarts = 1
INVARIANTS
    TypeOK
    NothingLost
    OneTurnPerMessage
PROPERTIES
    NoOvertaking
    OthersUntouched
    QueueResumes
CHECK_DEADLOCK FALSE
