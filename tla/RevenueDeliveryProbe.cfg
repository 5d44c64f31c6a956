\* Two calls one after the other to one resource, no faults: the first fails and
\* opens the circuit, its reset time passes, the second gets the probe.
CONSTANTS
  c1 = c1
  c2 = c2
  c3 = c3
  item = item
  other = other
  first = first
  second = second
  third = third
  Call = {c1, c2}
  Delivery = {item, other}
  Approval = {first, second}
  Of <- TwoScopes
  Carried <- Tokens
  Probe = Probe
  None = None
  Threshold = 1
  MaxFaults = 0
  MaxLapses = 1
SPECIFICATION Spec
INVARIANTS
  ProbeHolderIsLetThrough
CHECK_DEADLOCK FALSE
