\* A run killed while it rewrites the file of a provider that has an account.
SPECIFICATION Spec
CONSTANTS
  mail = mail
  mailbox = mailbox
  web = web
  acct1 = acct1
  acct2 = acct2
  Provider = {mail, web}
  ServicesOf <- Services
  HasPlugin <- Plugins
  ProviderOf <- AccountProviders
  App = {mail}
  Version = {1, 2}
  Account = {acct1}
  Prefix <- OwnPrefix
  MayBeOff = {}
  MaxChanges = 3
  MaxFaults = 1
INVARIANTS
  AccountsGoWithProvider
