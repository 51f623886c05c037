SPECIFICATION MarketSpec
CONSTANTS
  Readings <- ReadingsFound
  Payloads <- PayloadsOfSignals
  Populations = {0, 2600}
  Ln <- LnTable
INVARIANTS
  PursueIsMeasured
  PursueWithoutDemandIsFull
  ScoreWithinEvidence
  VerdictMatchesNumbers
PROPERTIES
  LosingEvidenceShows
  BetterEvidenceNeverHurts
  CoarserTrendNeverSurer
