SPECIFICATION Spec
CONSTANTS
  h1 = h1
  h2 = h2
  vague = vague
  flips = flips
  plumber = plumber
  plumbing = plumbing
  electrical = electrical
  brisbane = brisbane
  vic = vic
  nsw = nsw
  Handlers = {h1, h2}
  Services = {plumbing, electrical}
  Locations = {brisbane, vic, nsw}
  SeedServices = {plumbing}
  SeedLocations = {brisbane, vic}
  SeedMarkets <- Seeded
  Inputs <- Texts
  ServiceConf <- ServiceRatios
  LocationConf <- LocationRatios
  NoAlias = NoAlias
  NoMarket = NoMarket
  MaxRequests = 3
SYMMETRY HandlerSymmetry
INVARIANTS
  TypeOK
  MarketsAreReal
PROPERTIES
  NoSilentGuess
  RefusalOffersChoice
  BookSpec
