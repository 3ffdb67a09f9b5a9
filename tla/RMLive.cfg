\* Two requestAccess calls, UI processes that connect: liveness under FairSpec.
SPECIFICATION FairSpec
CONSTANTS
  a1 = a1
  a2 = a2
  s1 = s1
  s2 = s2
  w0 = w0
  w1 = w1
  h1 = h1
  Request <- PairRequests
  Window = {w0}
  WindowOf <- PairWindows
  Handler = {h1}
  NoHandler = NoHandler
  HandlerOf <- PairHandlers
  SignOn = {}
  NoProxy = NoProxy
  Faults = {"prompt", "exit", "session"}
PROPERTIES
  EveryRequestAnswered
  ProxiesReclaimed
  IdleAgain
CHECK_DEADLOCK FALSE
