SPECIFICATION Spec
CONSTANTS
  Unset = Unset
  ToCursor <- MCToCursor
  Family <- MCFamily
  Requests = {r1, r2}
  Asks <- MCAsks
  Catalogs <- MCCatalogs
  Offers <- MCOffers
  OptionSets <- MCOptions
  DisplayName <- MCDisplayName
  OptionRounds = 3
  DefaultModel <- M1
  Strict = TRUE
  MaxListings = 2
INVARIANTS PromptedAsAsked EffortComesFirst
SYMMETRY Symmetry
CHECK_DEADLOCK FALSE
