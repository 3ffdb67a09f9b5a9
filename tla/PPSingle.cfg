\* An application has an account added to a provider that takes only one.
SPECIFICATION Spec
CONSTANTS
  a1 = a1
  a2 = a2
  s1 = s1
  s2 = s2
  NoAccount = NoAccount
  Account <- TwoAccounts
  WithCredentials <- TwoAccounts
  Service <- OneService
  Clients = {"app"}
  SingleAccount = {TRUE}
INVARIANTS
  SingleStaysSingle
CHECK_DEADLOCK FALSE
