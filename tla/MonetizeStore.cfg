\* Two Directors and two workers over a task that waits for two others, one of
\* them more urgent; contracts are enqueued in any order.
CONSTANTS
  d1 = d1
  d2 = d2
  w1 = w1
  w2 = w2
  t1 = t1
  t2 = t2
  t3 = t3
  Director = {d1, d2}
  Worker = {w1, w2}
  Task = {t1, t2, t3}
  Deps <- JoinDeps
  RetryLimit <- OneRetry
  Priority <- FirstTaskUrgent
  Key <- OwnKey
  NoOne = NoOne
  MaxFencing = 2
SYMMETRY WorkerSymmetry
SPECIFICATION Spec
INVARIANTS
  TypeOK
  TokenOfHolderOnly
  LeaseMatchesState
  AttemptBudget
  NewestRowMatchesState
  OneDeadLetterPerFailure
  DependenciesCompleted
PROPERTIES
  TerminalIsFinal
CHECK_DEADLOCK FALSE
