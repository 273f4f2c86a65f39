SPECIFICATION Spec
CONSTANTS
  m1 = m1  s1 = s1  s2 = s2
  Mints = {m1}
  Signals = {s1}
  SignalMint <- OneMint
  SignalRoute <- OneMintRoutes
  SignalStrategy <- Experiment
  RiskLoops = {r1}
  Dashboards = {d1}
  Lots <- TenTokens
  Prices = {1, 3}
  InitialCash = 26
  MaxOpen = 1
  FailureLimit = 3
  MaxEvents = 6
  MaxSeq = 1
  MaxFaults = 0
INVARIANT OneExitPerPosition
