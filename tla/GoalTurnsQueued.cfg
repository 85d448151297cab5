SPECIFICATION Spec
CONSTANTS
    Goals = {"a", "b"}
    MaxContinueTurns = 2
    MaxGoals = 2
    MaxPrompts = 2
    MaxRestarts = 1
PROPERTY QueuedTurnIsNotLost
