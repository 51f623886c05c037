SPECIFICATION Spec
CONSTANTS
  r1 = r1
  r2 = r2
  r3 = r3
  Runs = {r1, r2, r3}
  Market <- MarketOf
  Mapped = {"mapped"}
  Files <- FilesOf
  MaxExecutions = 3
SYMMETRY RunSymmetry
INVARIANTS
  TypeOK
  ReuseIsLive
  LabelsAreHonest
  ListAgreesWithReport
