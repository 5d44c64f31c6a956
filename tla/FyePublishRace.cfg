\* A worker and two publishers of a channel that reports every post it takes.
CONSTANTS
  Worker = {w1}
  Runner = {}
  Root = {control}
  Control = control
  Publisher = {p1, p2}
  None = None
  MaxAttempts = 2
  MaxStarts = 3
  MaxEvents = 0
  MaxRequeues = 1
  MaxFaults = 0
  ReportsPost = TRUE
SPECIFICATION Spec
INVARIANTS
  OneChannelPost
CHECK_DEADLOCK FALSE
