SPECIFICATION Spec
CONSTANTS
  p1 = p1
  j1 = j1
  j2 = j2
  Pods = {p1}
  Jobs = {j1, j2}
  TextsOf <- StreetForOne
  MaxFaults = 1
INVARIANT NothingLeaks
CHECK_DEADLOCK FALSE
