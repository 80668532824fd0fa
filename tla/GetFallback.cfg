CONSTANTS
  o1 = o1
  o2 = o2
  o3 = o3
  o4 = o4
  q1 = q1
  q2 = q2
  Comp <- MCComp
  Text <- MCText
  AllCharacters = FALSE
  Method = {"GET", "POST", "DELETE"}
  Path <- MCPath
  Route <- MCRoute
  RouteDef <- MCRouteDef
  Matcher <- MCMatcher
  MaxRoutes = 2
  Obj <- TwoObjs
  MapId <- OneRequest
  Request <- OneRequest
  Kind <- MCKind
  Registration <- MCRegistration
  Direct = {"pair"}
  LengthFallback = TRUE
  NoObj = NoObj
SPECIFICATION Spec
INVARIANT FormPostReachesGet
CHECK_DEADLOCK FALSE
