\* Two processes of the command line, started again and again, over a task and
\* its dependent, with one fault.
CONSTANTS
  d1 = d1
  d2 = d2
  w1 = w1
  t1 = t1
  t2 = t2
  Director = {d1, d2}
  Worker = {w1}
  Task = {t1, t2}
  Deps <- ChainDeps
  RetryLimit <- OneRetry
  Priority <- SamePriority
  Key <- OwnKey
  NoOne = NoOne
  MaxFencing = 12
  WorkerOf <- SameName
  MaxCycles = 1
  MaxFaults = 1
SPECIFICATION FairDirectorSpec
INVARIANTS
  ProcTypeOK
PROPERTIES
  Spec
  AcceptedOnEvidence
  EveryTaskEnds
