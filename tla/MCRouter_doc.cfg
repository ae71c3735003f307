SPECIFICATION Spec
CONSTANTS
  Paths <- SomePaths
  Methods = {"Get", "Post"}
  Handlers = {h1}
  Requests <- UrlRequests
  MaxAdds = 2
  Letters = {"a"}
  MaxLen = 1
CHECK_DEADLOCK FALSE
INVARIANTS MatchingHandlerAnswers
