SPECIFICATION Spec
CONSTANTS
    Goals = {"a", "b"}
    MaxContinueTurns = 2
    MaxGoals = 2
    MaxPrompts = 2
    MaxRestarts = 1
INVARIANTS
    TypeOK
    TurnSentOnce
    GoalBudget
PROPERTIES
    TurnEndsWithItsAnswer
    ClosedGoalIsLeftAlone
    
