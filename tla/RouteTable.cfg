CONSTANTS
  Comp <- MCComp
  Text <- MCText
  AllCharacters = FALSE
  Method = {"GET"}
  Path <- MCPath
  Route <- MCRoute
  RouteDef <- MCRouteDef
  Matcher <- MCMatcher
  MaxRoutes = 3
SPECIFICATION TableSpec
INVARIANTS
  TableTypeOK
  DispatchSound
  DispatchComplete
  LatestRegistrationWins
  TrieSearchIsReference
CHECK_DEADLOCK FALSE
