CONSTANTS
  o1 = o1
  o2 = o2
  o3 = o3
  o4 = o4
  q1 = q1
  q2 = q2
  Comp <- MCComp
  Text <- MCText
  AllCharacters = FALSE
  Method = {"GET", "POST", "DELETE"}
  Path <- MCPath
  Route <- MCRoute
  RouteDef <- MCRouteDef
  Matcher <- MCMatcher
  MaxRoutes = 2
  Obj <- ThreeObjs
  MapId <- MCRequest
  Request <- MCRequest
  Kind <- LockKind
  Registration <- LockRegistration
  Direct = {"pair"}
  LengthFallback = TRUE
  NoObj = NoObj
SPECIFICATION FairSpec
PROPERTIES
  EveryRequestEnds
  RegistrationEnds
CHECK_DEADLOCK FALSE
