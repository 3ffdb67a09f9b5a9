\* Two identities: may removing the data of 1 remove that of 12?
SPECIFICATION PartsSpec
CONSTANTS
  Parts = {"identity"}
  Identity = {1, 12}
  MessageSize <- Messages
  LengthSize = 2
  WelcomeSize = 2
  NoiseSize = 3
  Files = {TRUE, FALSE}
  SplitsLength = FALSE
  Garbage = {0, 1, 2}
  call1 = call1
  call2 = call2
  call3 = call3
  call4 = call4
  account1 = account1
  StoreCall = {call1, call2, call3, call4}
  StoredAccount = {account1}
  Target <- Targets
  NewAccount = NewAccount
  Intruder = {call4}
  NoCaller = NoCaller
  SharesObjects = {TRUE, FALSE}
  NewAccounts = {TRUE, FALSE}
  ClicksWhile = {"none", "failed", "authenticating", "error"}
  MaxRetries = 2
  Port = {0, 2, 3}
  PortSpace = 4
  BusyPorts = {2, 3}
  MaxAttempts = 1
  HttpConnection = 2
  Concurrent = FALSE
  MaxSettings = 3
  ProviderOf <- Providers
  google = google
  yahoo = yahoo
  OldProvider = OldProvider
  MaxLogins = 3
  NoCookies = NoCookies
  App <- Applications
  NameForm <- FileNames
  AppService = {"inbox", "search", "writer"}
  Uses <- ServicesOf
  Continues = {}
  MaxVersion = 2
PROPERTIES
  DataRemoved
CHECK_DEADLOCK FALSE
