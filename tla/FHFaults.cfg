\* A package with two files, upgraded to one that is malformed and removed, with two failures or crashes.
SPECIFICATION Spec
CONSTANTS
  mail = mail
  web = web
  acct1 = acct1
  acct2 = acct2
  ProviderOf <- AccountProviders
  App = {mail}
  Types = {"provider", "service"}
  Version = {1, 2, 3}
  Malformed <- BadService
  Account = {acct1}
  MaxChanges = 3
  MaxFaults = 2
INVARIANTS
  CompleteRunPublishes
  UpToDateIsPublished
