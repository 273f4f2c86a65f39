SPECIFICATION LiveSpec
CONSTANTS
  i1 = i1  i2 = i2  d1 = d1  d2 = d2  h1 = h1  h2 = h2
  Ids = {i1}
  Deliveries = {d1, d2}
  SignalOf <- Twice
  Horizons = {h1}
  MaxRows = 0
  MaxActive = 1
  MaxAttempts = 2
  BatchSize = 1
  DrainSize = 1
  AnalysisLimit = 2
  MaxOpen = 1
  FaultKinds = {"observer lock", "archive", "observer", "monitor", "pipeline lock", "risk lock"}
  MaxFaults = 1
INVARIANTS TypeOK PendingFitsBatch
PROPERTIES ForgottenRowsArchived PendingEnds CapRestored
CHECK_DEADLOCK FALSE
