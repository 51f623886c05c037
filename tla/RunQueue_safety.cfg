SPECIFICATION Spec
CONSTANTS
  w1 = w1
  w2 = w2
  w3 = w3
  c1 = c1
  Workers = {w1, w2, w3}
  Cancellers = {c1}
  Runs <- ThreeRuns
  Market <- TwoMarkets
  NoWorker = NoWorker
  NoRun = NoRun
  MaxCrashes = 2
SYMMETRY WorkerSymmetry
CONSTRAINT Followed
INVARIANTS
  TypeOK
  OneActivePerMarket
  OneExecutorPerRun
  OutcomeHasItsRows
  CirclesAreRare
PROPERTIES
  ExecutionUndisturbed
  SettledIsFinal
  LifecycleSpec
