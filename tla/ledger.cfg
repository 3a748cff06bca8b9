SPECIFICATION Spec
CONSTANTS
  c1 = c1
  c2 = c2
  c3 = c3
  n1 = n1
  n2 = n2
  None = None
  Requests = {r1, r2, r3}
  Contents = {x1, x2}
  Callers = {c1, c2}
  Pods = {n1}
  PodOf <- OnePod2
  MaxFaults = 0
  MaxResets = 0
SYMMETRY Symmetry
INVARIANTS TypeOK ChainIntact NoFalseAlarm NextHashAgrees
PROPERTIES PrefixKept ImplementsLedger
