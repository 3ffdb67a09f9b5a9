\* An application with a plugin and one that uses it, installed, upgraded and removed, with two failures or crashes.
SPECIFICATION Spec
CONSTANTS
  mail = mail
  mailbox = mailbox
  web = web
  acct1 = acct1
  acct2 = acct2
  Provider = {mail, web}
  ServicesOf <- Services
  HasPlugin <- Plugins
  ProviderOf <- AccountProviders
  App = {mail, mailbox}
  Version = {1, 2}
  Account = {acct1, acct2}
  Prefix <- OwnPrefix
  MayBeOff = {acct1}
  MaxChanges = 3
  MaxFaults = 2
INVARIANTS
  CompleteRunPublishes
  ProcessedIsPublished
  GoneLosesAccess
  NoOrphanAccounts
PROPERTIES
  UpgradeKeepsAccess
