SPECIFICATION Spec
CONSTANTS
    NumSteps = 2
    MaxResumes = 1
    MaxSessions = 4
    MaxRestarts = 2
INVARIANT DeadStaysDead
CHECK_DEADLOCK FALSE
