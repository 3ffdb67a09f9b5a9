\* A handler with a web view of its own, whose cookies come late.
SPECIFICATION Spec
CONSTANTS
  r1 = r1
  r2 = r2
  r3 = r3
  h1 = h1
  Request = {r1, r2}
  Handler = {h1}
  NoHandler = NoHandler
  NoRequest = NoRequest
  HasOpenUrl <- BothOpenUrl
  FinalIsLocal <- SecondIsLocal
  MatchOf <- BothMatch
  Custom = {h1}
  InSession = TRUE
INVARIANTS
  FinalUrlNotLost
