SPECIFICATION FairSpec
CONSTANTS
  c1 = c1
  c2 = c2
  c3 = c3
  n1 = n1
  n2 = n2
  None = None
  Requests = {r1, r2}
  Contents = {x1}
  Callers = {c1, c2}
  Pods = {n1}
  PodOf <- OnePod2
  MaxFaults = 1
  MaxResets = 1
INVARIANTS MutualExclusion IndexUnique
PROPERTIES SuffixHealed CallReturns
