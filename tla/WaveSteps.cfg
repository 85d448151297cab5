SPECIFICATION Spec
CONSTANTS
    NumSteps = 2
    MaxResumes = 1
    MaxSessions = 4
    MaxRestarts = 2
INVARIANT TypeOK
INVARIANT NothingRunsUnwatched
INVARIANT HandoffStands
INVARIANT ResumesOnly
 
CHECK_DEADLOCK FALSE
