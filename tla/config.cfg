SPECIFICATION DashboardSpec
CONSTANTS
  c1 = c1
  c2 = c2
  p1 = p1
  p2 = p2
  Pods = {p1, p2}
  Calls = {c1, c2}
  PodOf <- PodOfCall
  SeedConfig <- Seeded
  SeedRules = {"r1", "r2"}
  NewRules = {"r3"}
  KeptRules = {"r2"}
  Keys = {"mode", "tools"}
  Values = {"ENFORCE", "OBSERVE", "t0", "text"}
  Lists = {"t0"}
  Operations <- OtherClients
  MaxFaults = 1
INVARIANTS TypeOK FreshAfterReload UntouchedEnforced HistoryComplete ModeShown RulesShown
SYMMETRY Clients
CHECK_DEADLOCK FALSE
