\* Two local workers and two publishers, three processes started in all, and two
\* deaths or deadlines.
CONSTANTS
  Worker = {w1, w2}
  Runner = {}
  Root = {control}
  Control = control
  Publisher = {p1, p2}
  None = None
  MaxAttempts = 2
  MaxStarts = 3
  MaxEvents = 1
  MaxRequeues = 1
  MaxFaults = 2
  ReportsPost = FALSE
SYMMETRY Symmetric
SPECIFICATION Spec
INVARIANTS
  ExtraPostNeedsRelease
  PublishedHasPost
  OneWorkerPerLease
CHECK_DEADLOCK FALSE
