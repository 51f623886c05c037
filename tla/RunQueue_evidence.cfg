SPECIFICATION Spec
CONSTANTS
  w1 = w1
  w2 = w2
  w3 = w3
  c1 = c1
  Workers = {w1, w2}
  Cancellers = {c1}
  Runs <- TwoRuns
  Market <- TwoMarkets
  NoWorker = NoWorker
  NoRun = NoRun
  MaxCrashes = 0
INVARIANTS
  EvidenceNotDuplicated
