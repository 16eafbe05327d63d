SPECIFICATION Spec
CONSTANTS
  w1 = w1 w2 = w2 S1 = S1
  Workers <- TwoWorkers
  Letters = {"a", "b"}
  SessIds = {S1}
  Nul = Nul ParamSize = 6 WordMax = 6
  Requests <- Mixed
  BufSize = 5 PostLen = 2
  Free = Free None = None
INVARIANTS RouteIsOwn SessionRequired HeadIsFound BodyIsOwn EndsOnlyDotless BlocksAreHeld
CHECK_DEADLOCK FALSE
