\* Two Directors: a released lease starts the tokens again at 1.
CONSTANTS
  d1 = d1
  d2 = d2
  w1 = w1
  w2 = w2
  t1 = t1
  t2 = t2
  t3 = t3
  Director = {d1, d2}
  Worker = {w1, w2}
  Task = {t1, t2}
  Deps <- ChainDeps
  RetryLimit <- OneRetry
  Priority <- SamePriority
  Key <- OwnKey
  NoOne = NoOne
  MaxFencing = 3
SYMMETRY WorkerSymmetry
SPECIFICATION Spec
INVARIANTS
  StaleDirectorShutOut
CHECK_DEADLOCK FALSE
