SPECIFICATION FairSpec
CONSTANTS
  NumEvents = 2
  Worker = {w1, w2}
  Nobody = Nobody
  BatchSize = 2
  MaxAttempts = 2
  MaxSlow = 1
  MaxCrashes = 1
  MaxRevivals = 1
INVARIANTS TypeOK DeadLetterExplained DuplicateExplained
PROPERTIES ImplementsQueue EveryRowSettles
