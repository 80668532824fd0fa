CONSTANTS
  Comp <- MCComp
  Text <- MCText
  AllCharacters = TRUE
  Method = {"GET"}
  Path <- MCPath
  Route <- MCRoute
  RouteDef <- MCRouteDef
  Matcher <- MCMatcher
  MaxRoutes = 3
SPECIFICATION TableSpec
INVARIANT EveryLookupReturns
CHECK_DEADLOCK FALSE
