\* The daemon with an account request and a sign-on request.
SPECIFICATION DaemonFairSpec
CONSTANTS
  a1 = a1
  s1 = s1
  w0 = w0
  w1 = w1
  h1 = h1
  acct1 = acct1
  c1 = c1
  Request <- Requests
  Window = {w0, w1}
  WindowOf <- Windows
  Handler = {h1}
  NoHandler = NoHandler
  HandlerOf <- Handlers
  SignOn = {s1}
  NoProxy = NoProxy
  Faults = {"prompt", "exit"}
  Account = {acct1}
  Call = {c1}
  AccountOf <- Accounts
  NoCall = NoCall
  MaxData = 1
INVARIANTS
  TimerFollowsIdle
  QuitLeavesNoAccountRequest
PROPERTIES
  IdleDaemonQuits
CHECK_DEADLOCK FALSE
