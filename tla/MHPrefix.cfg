\* Removal of an application whose name begins that of another.
SPECIFICATION Spec
CONSTANTS
  mail = mail
  mailbox = mailbox
  web = web
  acct1 = acct1
  acct2 = acct2
  Provider = {mail, web}
  ServicesOf <- BothHaveServices
  HasPlugin <- Plugins
  ProviderOf <- AccountProviders
  App = {mail, mailbox}
  Version = {1}
  Account = {acct1}
  Prefix <- SharedPrefix
  MayBeOff = {}
  MaxChanges = 3
  MaxFaults = 0
PROPERTIES
  OthersKeepAccess
