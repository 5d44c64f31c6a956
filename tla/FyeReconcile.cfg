\* A local worker, a runner and a publisher, three processes started in all, and
\* one that dies or a deadline that passes.
CONSTANTS
  Worker = {w1, w2}
  Runner = {w2}
  Root = {control, w2}
  Control = control
  Publisher = {p1}
  None = None
  MaxAttempts = 2
  MaxStarts = 3
  MaxEvents = 2
  MaxRequeues = 1
  MaxFaults = 1
  ReportsPost = FALSE
SPECIFICATION Spec
INVARIANTS
  TypeOK
  ReadyHasArtifact
PROPERTIES
  EndsStay
CHECK_DEADLOCK FALSE
