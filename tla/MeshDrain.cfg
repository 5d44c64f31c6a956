\* Two tasks, one worker, no retry, one drain.
CONSTANTS
  Task = {t1, t2}
  None = None
  Workers = 1
  MaxRetries = 0
  FailureThreshold = 2
  SuccessThreshold = 2
  QueueBound = 3
  MaxDrains = 1
  MaxEnds = 0
SPECIFICATION Spec
INVARIANTS
  OneMoreChance
CHECK_DEADLOCK FALSE
