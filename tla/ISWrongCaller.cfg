\* Two accounts: whose result a caller is given.
SPECIFICATION Spec
CONSTANTS
  acct1 = acct1
  acct2 = acct2
  c1 = c1
  c2 = c2
  c3 = c3
  Account = {acct1, acct2}
  Call = {c1, c2, c3}
  AccountOf <- PairAccount
  NoCall = NoCall
  MaxData = 1
PROPERTY
  TrueMeansCleared
