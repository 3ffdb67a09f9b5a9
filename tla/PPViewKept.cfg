\* Is the window kept open after the answer?
SPECIFICATION Spec
CONSTANTS
  a1 = a1
  a2 = a2
  s1 = s1
  s2 = s2
  NoAccount = NoAccount
  Account <- TwoAccounts
  WithCredentials <- TwoAccounts
  Service <- OneService
  Clients = {"app"}
  SingleAccount = {FALSE}
INVARIANTS
  ViewKeptOpen
CHECK_DEADLOCK FALSE
