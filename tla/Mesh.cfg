\* Two tasks, two workers, one retry, one drain, one stop or restart; one
\* failure opens the circuit.
CONSTANTS
  Task = {t1, t2}
  None = None
  Workers = 2
  MaxRetries = 1
  FailureThreshold = 1
  SuccessThreshold = 2
  QueueBound = 3
  MaxDrains = 1
  MaxEnds = 1
SPECIFICATION Spec
INVARIANTS
  TypeOK
  PoolStandsUntilDrained
  ProbeUnderWay
  RowTellsOutcome
PROPERTIES
  ImplementsService
  EveryTaskEnds
CHECK_DEADLOCK FALSE
