SPECIFICATION ReadersSpec
CONSTANTS
  client = client
  Clients = {client}
  Order <- TwoSignals
  Weight <- Weights
  MayLackValue = {"customer_value"}
  MaxExecutions = 2
PROPERTIES
  DeclinedShowsNoResult
