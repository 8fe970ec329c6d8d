SPECIFICATION Spec
CONSTANTS
  Unset = Unset
  ToCursor <- MCToCursor
  Family <- MCFamily
  Requests = {r1}
  Asks <- MCAsks
  Catalogs <- MCCatalogs
  Offers <- MCOffers
  OptionSets <- MCOptions
  DisplayName <- MCDisplayName
  OptionRounds = 3
  DefaultModel <- M1
  Strict = TRUE
  MaxListings = 1
INVARIANT StrictMatches
CHECK_DEADLOCK FALSE
