\* Three calls, two deliveries to one resource, one lost answer or death.
CONSTANTS
  c1 = c1
  c2 = c2
  c3 = c3
  item = item
  other = other
  first = first
  second = second
  third = third
  Call = {c1, c2, c3}
  Delivery = {item, other}
  Approval = {first, second, third}
  Of <- Scope
  Probe = Probe
  None = None
  Threshold = 1
  Carried <- Tokens
  MaxFaults = 1
  MaxLapses = 2
SYMMETRY Symmetric
SPECIFICATION Spec
INVARIANTS
  TypeOK
  DuplicatePostNeedsMishap
  CompletedWasPosted
  OneHolderInTime
  ProbeReports
  ApprovalSpentOnce
PROPERTIES
  CompletedYields
CHECK_DEADLOCK FALSE
