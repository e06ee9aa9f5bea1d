SPECIFICATION Spec
CONSTANTS
    Calls <- MCCalls
    KeySets <- MCKeySets
    NameOrder <- MCNameOrder
    Sources <- MCSources
    Writes <- MCWrites
    Improves <- MCImproves
    Guesses <- MCGuesses
    ChunkConcurrency = 2
    MaxReviewRounds = 1
    MaxAudited = 2
INVARIANTS
    UsageTellsTheCalls
    DeliveredIsGrounded
    AuditedAsDelivered
PROPERTIES
    FailsOnlyWhole
    Ends
