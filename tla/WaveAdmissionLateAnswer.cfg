SPECIFICATION Spec
CONSTANTS
    Conductors = {c1}
    MaxMessages = 3
    MaxLive = 1
    MaxTombstones = 1
    MaxRestarts = 0
    NoConductor = NoConductor
INVARIANTS
    AnswerIsNeverAPlan
