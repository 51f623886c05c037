SPECIFICATION Spec
CONSTANTS
  h1 = h1
  h2 = h2
  r1 = r1
  r2 = r2
  r3 = r3
  k1 = k1
  Handlers = {h1, h2}
  Runs = {r1, r2, r3}
  Market <- MarketOf
  Keys = {k1}
  NoKey = NoKey
  Quota = 1
  Outcomes = {"complete", "failed"}
INVARIANTS
  SameKeySameRun
