\* A web page, a password dialog and the system browser, in windows of their own or in one handler.
SPECIFICATION FairSpec
CONSTANTS
  r1 = r1
  r2 = r2
  r3 = r3
  h1 = h1
  Request = {r1, r2, r3}
  Handler = {h1}
  NoHandler = NoHandler
  NoRequest = NoRequest
  HasOpenUrl <- NotTheDialog
  FinalIsLocal <- ThirdIsLocal
  MatchOf <- BothMatch
  Custom = {h1}
  InSession = TRUE
INVARIANTS
  AnsweredOnce
  HandlerFreed
  CancelIsCanceled
PROPERTIES
  FailedLoadEnds
