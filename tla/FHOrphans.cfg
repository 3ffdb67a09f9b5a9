\* A run killed between the removal of a provider and that of its accounts.
SPECIFICATION Spec
CONSTANTS
  mail = mail
  web = web
  acct1 = acct1
  acct2 = acct2
  ProviderOf <- AccountProviders
  App = {mail}
  Types = {"provider"}
  Version = {1}
  Malformed = {}
  Account = {acct1}
  MaxChanges = 2
  MaxFaults = 1
INVARIANTS
  AccountsGoWithProvider
