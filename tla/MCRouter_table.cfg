SPECIFICATION Spec
CONSTANTS
  Paths <- AllPaths
  Methods = {"Get", "Post"}
  Handlers = {"ok", "processing"}
  Requests <- UrlRequests
  MaxAdds = 3
  Letters = {"a", "b"}
  MaxLen = 6
CONSTRAINT Interesting
CHECK_DEADLOCK FALSE
INVARIANTS IInv RouteFollowsRegistrations PathParamsWin TestHoldsBesideOtherRoutes QueriesAreParsed
PROPERTIES UnrelatedRoutesDoNotInterfere
