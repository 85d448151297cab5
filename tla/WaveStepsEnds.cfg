SPECIFICATION Spec
CONSTANTS
    NumSteps = 2
    MaxResumes = 1
    MaxSessions = 3
    MaxRestarts = 1
PROPERTY RunningWaveEnds
CHECK_DEADLOCK FALSE
