\* One account request and two sign-on requests, one of which names a handler.
SPECIFICATION Spec
CONSTANTS
  a1 = a1
  a2 = a2
  s1 = s1
  s2 = s2
  w0 = w0
  w1 = w1
  h1 = h1
  Request <- MixedRequests
  Window = {w0, w1}
  WindowOf <- MixedWindows
  Handler = {h1}
  NoHandler = NoHandler
  HandlerOf <- MixedHandlers
  SignOn = {s1, s2}
  NoProxy = NoProxy
  Faults = {"prompt", "start", "early", "exit", "session", "cancel"}
INVARIANTS
  HeadIsServed
  NoOrphan
  AccountRequestAnsweredOnce
  UiKnowsHeldRequests
PROPERTIES
  ImplementsWindowQueues
CHECK_DEADLOCK FALSE
