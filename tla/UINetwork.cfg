\* The page of a visible dialog fails to load.
SPECIFICATION Spec
CONSTANTS
  r1 = r1
  r2 = r2
  r3 = r3
  h1 = h1
  Request = {r1, r2}
  Handler = {h1}
  NoHandler = NoHandler
  NoRequest = NoRequest
  HasOpenUrl <- OneOpensUrl
  FinalIsLocal = {}
  MatchOf <- FirstMatches
  Custom = {}
  InSession = TRUE
INVARIANTS
  NetworkErrorReported
