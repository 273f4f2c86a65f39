SPECIFICATION Spec
CONSTANTS
  i1 = i1  i2 = i2  d1 = d1  d2 = d2  h1 = h1  h2 = h2
  Ids = {i1}
  Deliveries = {d1, d2}
  SignalOf <- Twice
  Horizons = {h1}
  MaxRows = 1
  MaxActive = 1
  MaxAttempts = 1
  BatchSize = 1
  DrainSize = 1
  AnalysisLimit = 2
  MaxOpen = 1
  FaultKinds = {}
  MaxFaults = 0
INVARIANT ArchivedAsEnded
CHECK_DEADLOCK FALSE
