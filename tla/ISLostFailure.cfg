\* A failure reported while the account is being reauthenticated.
SPECIFICATION Spec
CONSTANTS
  acct1 = acct1
  acct2 = acct2
  c1 = c1
  c2 = c2
  c3 = c3
  Account = {acct1}
  Call = {c1, c2, c3}
  AccountOf <- SingleAccount
  NoCall = NoCall
  MaxData = 2
PROPERTY
  AllReplayed
