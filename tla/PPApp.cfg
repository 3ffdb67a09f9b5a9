\* An application with two services, two accounts that come and go.
SPECIFICATION FairSpec
CONSTANTS
  a1 = a1
  a2 = a2
  s1 = s1
  s2 = s2
  NoAccount = NoAccount
  Account <- TwoAccounts
  WithCredentials <- TwoAccounts
  Service <- TwoServices
  Clients = {"app", "settings", "unconfined"}
  SingleAccount = {FALSE, TRUE}
PROPERTIES
  AllowedIsGranted
  OnlyConsented
  CreatedIsAnswered
CHECK_DEADLOCK FALSE
