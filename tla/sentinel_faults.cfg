SPECIFICATION Spec
CONSTANTS
  a1 = a1
  a2 = a2
  a3 = a3
  a4 = a4
  q1 = q1
  q2 = q2
  q3 = q3
  v1 = v1
  v2 = v2
  p1 = p1
  p2 = p2
  Requests = {q1, q2}
  Calls = {a1, a3}
  ReqOf <- ReqOfCall
  Reviewers = {v1}
  Pods = {p1, p2}
  PodOf <- TwoPods
  Malformed = {}
  Exempt = {}
  Modes = {"ENFORCE"}
  FaultKinds = {"db", "redis", "resend", "notify", "crash", "reset"}
  MaxFaults = 2
  EagerReview = TRUE
INVARIANTS NoPhantomRun
