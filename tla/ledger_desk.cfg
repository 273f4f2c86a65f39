SPECIFICATION Spec
CONSTANTS
  m1 = m1  s1 = s1  s2 = s2
  Mints = {m1}
  Signals = {s1, s2}
  SignalMint <- OneMint
  SignalRoute <- OneMintRoutes
  SignalStrategy <- Experiment
  RiskLoops = {r1}
  Dashboards = {d1}
  Lots <- BothLots
  Prices = {1, 4}
  InitialCash = 26
  MaxOpen = 1
  FailureLimit = 1
  MaxEvents = 2
  MaxSeq = 3
  MaxFaults = 0
INVARIANTS TypeOK RoundTripAccounted TakeProfitOnce
PROPERTY LogForgetsOldest
