\* An application removed while an account is switched off.
SPECIFICATION Spec
CONSTANTS
  mail = mail
  mailbox = mailbox
  web = web
  acct1 = acct1
  acct2 = acct2
  Provider = {mail, web}
  ServicesOf <- Services
  HasPlugin <- Plugins
  ProviderOf <- AccountProviders
  App = {mailbox}
  Version = {1}
  Account = {acct2}
  Prefix <- OwnPrefix
  MayBeOff = {acct2}
  MaxChanges = 2
  MaxFaults = 0
INVARIANTS
  GoneIsDisabled
