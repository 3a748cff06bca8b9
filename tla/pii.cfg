SPECIFICATION Spec
CONSTANTS
  p1 = p1
  j1 = j1
  j2 = j2
  Pods = {p1}
  Jobs = {j1, j2}
  TextsOf <- AnyForOne
  MaxFaults = 1
INVARIANTS TypeOK OwnAnswer LeakBounded
PROPERTY RedactedUnlessHung
CHECK_DEADLOCK FALSE
