SPECIFICATION SimulatorSpec
CONSTANTS
  a1 = a1
  a2 = a2
  a3 = a3
  q1 = q1
  q2 = q2
  v1 = v1
  p1 = p1
  Requests = {q1, q2}
  Calls = {a1, a2, a3}
  ReqOf <- ReqOfCall
  Reviewers = {v1}
  Pods = {p1}
  PodOf <- OnePod
  Malformed = {q2}
  Exempt = {}
  Modes = {"ENFORCE"}
  FaultKinds = {"db", "poll"}
  MaxFaults = 1
  EagerReview = FALSE
  Submissions = {a1}
  Polls = {1, 2}
INVARIANT CompletedHasRun
PROPERTIES Answered VerdictShown NeverPendingAgain
CHECK_DEADLOCK FALSE
