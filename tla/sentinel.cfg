SPECIFICATION Spec
CONSTANTS
  a1 = a1
  a2 = a2
  a3 = a3
  a4 = a4
  q1 = q1
  q2 = q2
  q3 = q3
  v1 = v1
  v2 = v2
  p1 = p1
  p2 = p2
  Requests = {q1, q2, q3}
  Calls = {a1, a2, a3, a4}
  ReqOf <- ReqOfCall
  Reviewers = {v1}
  Pods = {p1}
  PodOf <- OnePod
  Malformed = {q3}
  Exempt = {q2}
  Modes = {"ENFORCE", "OBSERVE"}
  FaultKinds = {}
  MaxFaults = 0
  EagerReview = FALSE
INVARIANTS TypeOK OneBearer RunOnce LoggedRuns TicketAgrees NoSpuriousBlock RunRedacted
PROPERTIES VerdictOrder BlockedNotRun
