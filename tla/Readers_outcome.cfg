SPECIFICATION ReadersSpec
CONSTANTS
  client = client
  Clients = {client}
  Order <- TwoSignals
  Weight <- Weights
  MayLackValue = {"customer_value"}
  MaxExecutions = 2
INVARIANTS
  TimelineMatchesStatus
  SuccessIsConsistent
  ScoredHasEvidence
  NoTraceWithoutEvent
  FinalPageIsSettled
PROPERTIES
  OutcomeSpec
  ReportKeepsUp
