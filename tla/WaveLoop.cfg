SPECIFICATION Spec
CONSTANTS
    MaxRevisions = 1
    MaxRetries = 1
    MaxPrompts = 1
    MaxRestarts = 1
INVARIANTS
    TypeOK
    DigestDeliveredOnce
PROPERTIES
    VerdictAnswersItsDigest
    ParkedUntilAsked
    
