SPECIFICATION FairSpec
CONSTANTS
  N = 4
  InitialConcurrency = 3
  RateLimitRetries = 1
CHECK_DEADLOCK FALSE
INVARIANTS TypeOK SlotsAccounted NoIdleSlot AttemptsBounded
PROPERTIES NoRetryPastDeadline KeepsPromise EveryTaskAnswered
