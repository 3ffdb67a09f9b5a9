\* A cancellation arrives between a failure and the deferred delete.
SPECIFICATION FairSpec
CONSTANTS
  a1 = a1
  a2 = a2
  s1 = s1
  s2 = s2
  w0 = w0
  w1 = w1
  h1 = h1
  Request <- MixedRequests
  Window = {w0, w1}
  WindowOf <- MixedWindows
  Handler = {h1}
  NoHandler = NoHandler
  HandlerOf <- MixedHandlers
  SignOn = {s1, s2}
  NoProxy = NoProxy
  Faults = {"cancel"}
PROPERTIES
  CompletedIsFirst
CHECK_DEADLOCK FALSE
