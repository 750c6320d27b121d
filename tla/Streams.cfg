CONSTANTS
  Calls = 2
  MaxFrames = 3
  a = a
  b = b
  go = go
  or = or
  Model = {a, b}
  Provider = {go, or}
  ProviderOf <- MCProviderOf
  Priced = {go}
  Listable = {b}
  ModelsDev = ModelsDev
  MaxEvents = 2
SPECIFICATION Spec
CHECK_DEADLOCK FALSE
INVARIANTS TextArrivesWhole CallsStayApart BlocksFollowTheTurn
PROPERTIES OutagePrunesNothing CatalogConverges
