SPECIFICATION StoreSpec
CONSTANTS
  m1 = m1  c1 = c1  c2 = c2  g1 = g1  g2 = g2  p1 = p1  p2 = p2  p3 = p3
  NoOp = NoOp
  Ops = {m1, c1, c2, g1, g2, p1, p2, p3}
  Kind <- Kinds
INVARIANTS OutcomeIsTruthful ClaimGrantedOnce OnlyTheDeadLeaveFiles ReportIsNewest PublishedReportStands
PROPERTIES ImplementsAtomic EveryCallEnds ExitResolves StopEventuallySells
CHECK_DEADLOCK FALSE
