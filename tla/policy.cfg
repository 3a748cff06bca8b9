SPECIFICATION Spec
CONSTANTS
  r1 = r1
  r2 = r2
  w1 = w1
  Requests = {r1, r2}
  Workers = {w1}
  Inputs <- AllInputs
  NewRules <- AllNewRules
  Editable <- Edited
  Thresholds <- Tuned
  Clock = {600, 1300}
  History = {5}
  MaxEdits = 1
  MaxErrors = 1
INVARIANTS TypeOK HeldBack BlockedRegardless Story2Kept CapKept
PROPERTY SanctionedBlocked
SYMMETRY Symmetry
