# Verification of ubuntu-system-settings-online-accounts

TLA+ models of the Online Accounts daemon and the processes around it, the TLC
configurations that check them, and TLAPS proofs of nearly all their safety
properties for every value of the constants.  Paths below are relative to `src/`.

## 1. The system

| Part | State | Operations | Talks to |
|---|---|---|---|
| **Request** (`online-accounts-service/request.cpp`, `service.cpp`) | one per D-Bus call: delayed reply, `m_inProgress`, list `allRequests` | `requestAccess`, `fail`, `setResult`, `cancel`, `find` | RequestManager (queue), UiProxy (slots on `completed()`) |
| **RequestManager** (`request-manager.cpp`) | `m_requests`: window id -> queue; `m_proxies` | `enqueue`, `runQueue`, `onRequestCompleted`, `onProxyFinished`, `isIdle` | creates UiProxy, deletes Request and UiProxy later |
| **UiProxy** (`ui-proxy.cpp`) | status, local server and socket, process, held requests, handlers, finished timer, prompt session | `handleRequest`, `hasHandlerFor`, socket, timer and session slots, destructor | one `online-accounts-ui` process |
| **SignOnUi::Service** (`signonui-service.cpp`) | none of its own | `queryDialog`, `cancelUiRequest`, `refreshDialog`, `removeIdentityData`, `cookiesForIdentity` | RequestManager |
| **IndicatorService** (`indicator-service.cpp`) | failures, recorded client data, error status, reauthenticators, one client message | `ReportFailure`, `RemoveFailures`, `ClearErrorStatus`, `ReauthenticateAccount` | user menu (D-Bus), Reauthenticator |
| **Reauthenticator** (`reauthenticator.cpp`) | data to replay, error and response counts | `start`, `onError`, `onResponse` | signond |
| **InactivityTimer**, **main** (`inactivity-timer.cpp`, `main.cpp`) | watched objects, timer | `watchObject`, `onIdleChanged`, `onTimeout` | all watched objects; quits the daemon |
| **LibaccountsService** (`libaccounts-service.cpp`) | pending writes per account | `store`, `onAccountSynced`, `onAccountError` | libaccounts |
| **MirHelper** (`mir-helper.cpp`) | prompt sessions per client pid | `createPromptSession`, `onSessionStopped` (Mir's thread) | UiProxy |
| **UiServer** (`online-accounts-ui/ui-server.cpp`, `main.cpp`) | socket, handlers | `onDataReady`, `onRequestCompleted`, `registerHandler` | UiProxy, UI requests |
| **UI requests** (`online-accounts-ui/*-request.cpp`, `dialog.cpp`, `qml/`) | window, dialog, web view, fail timer; account and grant under way | `start`, user's answers, page loads, grant of access | UiServer, plugins, accounts database |
| **Ipc** (`online-accounts-ui/ipc.cpp`) | expected length, read buffer | `onReadyRead`, `write` | both ends of the socket |
| **AccessModel, Notification** (`online-accounts-ui/`) | list of accounts; desktop notification | model updates | QML |
| **Plugin library** (`plugins/OnlineAccountsPlugin`) | application and provider files, ACLs, request handlers, loopback server | lookups, ACL changes | QML plugins |
| **QML module** (`plugins/module`) | `OAuth.qml`'s creation of an account, loopback server | authenticate, finish, cancel | signond |
| **Click hooks** (`click-hooks`) | files under the user's data directory | install, update, remove | accounts database |
| **Client** (`client/OnlineAccountsClient`), **settings plugin** (`system-settings-plugin`) | none | one D-Bus call; pages | daemon |

The daemon is single-threaded (the Mir callback excepted): every D-Bus method,
slot and timer runs to completion in one Qt event loop.  What makes it hard is
what happens *between* the handlers: deferred deletes (`deleteLater`), queued
signals, answers that are still on the socket, UI processes that exit, prompt
sessions that end, cancellations from signond, and `completed()` re-entering
`runQueue`.  The behaviours to get right are listed, with the line each bites
at, under `hazards` in `PROJECT.json`.

What makes each part correct:

* *RequestManager, UiProxy, Request*: one panel per window at a time, in order of
  arrival; exactly one reply per call; nothing dropped when a proxy goes away;
  every process reclaimed; the daemon idle again, and not idle too early.
* *IndicatorService, Reauthenticator*: clients see the current properties; every
  call gets its own result once; failures are cleared only when they were replayed.
* *InactivityTimer*: runs exactly while all watched objects are idle.
* *LibaccountsService*: every `store` call is answered, once; *Ipc*: every message
  written is read once and whole.
* *UI requests*: one result per request, the right one whatever closes the window;
  access only to accounts the user chose, and complete before it is reported.
* *Click hooks*: after a run that completes, files, accounts and access follow the
  installed packages, whatever happened to earlier runs.
* *OAuth*: an account with its credentials, or neither.  *LoopbackServer*: listens as
  its properties say, and reports whole URLs.  *Identity data*: the cookies are those of the last
  login of that identity.
* *ApplicationManager*: an application whose services are switched off has no token in the ACL of the
  credentials.

## 2. Modules

| Module | Content |
|---|---|
| `RequestManager` | Request, RequestManager and UiProxy, with the UI process and the socket as environment |
| `WindowQueues` | abstract specification: what the broker promises to its clients |
| `RequestManagerInvariant`, `RequestManagerRefinement` | `IInv`, the inductive invariant; the refinement mapping to `WindowQueues` |
| `IndicatorService` | IndicatorService and Reauthenticator |
| `Daemon` | `RequestManager`, `IndicatorService` and InactivityTimer in one event loop |
| `UiRequests` | sign-on requests in a UI process: UiServer, Request, DialogRequest, BrowserRequest, ExternalBrowserRequest, RequestHandler |
| `ProviderPanel` | ProviderRequest with its QML pages, AccessModel and the accounts database |
| `ManifestHook`, `FileHook` | the two click hooks, `online-accounts-hooks2` with its AclUpdater, and `online-accounts-hooks` |
| `Ipc`, `MessageChannel` | framing of the messages between daemon and UI process; the reliable channel it implements |
| `LibaccountsService` | `AccountManager.store()` |
| `OAuth`, `LoopbackServer` | the page of an OAuth plugin; the HTTP server it may be redirected to |
| `IdentityData` | cookies on disk, written by BrowserRequest, read and removed by SignOnUi::Service |
| `ApplicationManager` | who is in the ACL of an account's credentials: lookup by name or profile, grants and switches |
| `*Proofs` | TLAPS proofs about the module of that name; `PartsProofs` is about the six independent modules, `LibaccountsService` to `ApplicationManager` and `Ipc` |
| `MC*` | small instances for TLC; `MCParts` is the sum of the six independent modules |

Operators named as a *mutant* are faulty variants of the operator that follows
them; no specification uses them.  They show that a property can fail: each
property is violated when one of them takes the place of the real operator.

### RequestManager

Requests are model values; a proxy is named by the request it was created for,
since `runQueue` creates one per request it serves.  `queue` and `windows` are the
values and the keys of `m_requests` (the code can leave a key with an empty
queue, and `isIdle()` looks at the keys).  `life` is the lifetime of the QObject
(`deleting` from `deleteLater()` to the destructor), `inProgress` is
`m_inProgress`, `via` the proxy whose slot is connected to `completed()`, `held`
the values of `UiProxyPrivate::m_requests`, `timer` the active finished timers,
`proxies` and `dying` the list `m_proxies` and the proxies with a deferred delete.
`inbox` is the socket from the UI process.  One action is one handler:

| Action | Code |
|---|---|
| `Enqueue`, `HandOver` | `RequestManagerPrivate::enqueue`, its two outcomes, with `runQueue` and `handleRequest` |
| `CancelUiRequest` | `ServicePrivate::cancelUiRequest`, `Request::cancel` |
| `OnNewConnection`, `OnDataReady`, `OnDisconnected`, `OnFinishedTimer` | the slots of `UiProxyPrivate` |
| `OnPromptSessionFinished` | `PromptSession::finished()` -> `UiProxy::finished()` |
| `DeleteProxy`, `DeleteRequest` | destructors run by the event loop |
| `UiAnswer`, `UiRegister`, `UiExit` | `UiServer` and the end of its process |

`RunQueue` contains the recursion of the code: a request whose `UiProxy::init`
fails is failed, `completed()` re-enters `onRequestCompleted`, which dequeues it
and runs the queue again; `k` requests in a row may fail that way, and the next
one gets a proxy.  `Completed` is everything `completed()` triggers.  `Faults`
selects the failures of the environment.  Messages arrive whole and in order:
that is what `Ipc` is shown to provide.  The UI process answers each request at
most once: that is `AnsweredOnce` of `UiRequests`.

### IndicatorService

`clientData[a]` is the number of authentications recorded for an account (0: no
key in the map); `total`, `errors` and `responses` are the counts of the account's
reauthenticator, `finished` the queued `finished(bool)` signals.  `start()` may
fail at once for any number of the authentications (identity gone).  signond
gives every session one answer.  `shown` is what PropertiesChanged last said, and
`idleSignal` whether the last handler emitted `isIdleChanged()`.  Account id 0 is
not used (libaccounts ids start at 1; `onReauthenticatorFinished` asserts it).

### Daemon

Extends `RequestManager` and instantiates `IndicatorService` on the same state.
`isIdleChanged()` is a direct connection, so `OnIdleChanged` is part of the step
that emits it: `enqueue` when the manager was idle (or becomes idle again at once,
because the request fails), `onRequestCompleted` when it has become idle, the indicator's handlers as `idleSignal` says.  The third watched
object, the version 2 API manager, is a library outside the repository; it is an
`isIdle` flag that changes and signals at any time.

### UiRequests

`req[r]` is the object of a request: `life`, `inProgress` and `sent` are those of
`Request` and of the server's answer, `dialog` and `connected` the `Dialog` and the
connection of its `finished()` signal, `timer` is `m_failTimer`, `final`
`m_responseUrl`, `page` the load state of the web view.  `slot[h]` is `m_request` of a
`RequestHandler`.  Slots that call each other within one event are functions on
this record: `SetResult` emits `completed()`, closing a visible dialog emits
`finished()`, whose slot answers (`CloseDialog`, `OnFinished`).  Actions are the
events: `OnDataReady`, `DeleteRequest` (`deleteLater()`), `NewHandler`,
`DestroyHandler`, what the user does (`CloseWindow`, `Cancel`, `Accept`), what the
page does (`LoadStarted`, `LoadFailed`, `LoadSucceeded`, `FinalUrl`,
`CookiesReady`) and `OnFailTimer`.  `event` is a history variable.

### ProviderPanel

`accounts`, `acl` and `enabled` are the database; `model` and `shown` the rows of
the two QML models, which follow it in `OnCountChanged`; `p` is the panel with the
state of its request, window and pages.  Granting access is the chain
`CredentialsSynced`, `AclSynced`, `AccountSynced`, one `sync()` each.  Other panels
and programs create and delete accounts at any moment.  `label` is the account whose name
the page shows when it has one row, read once when the page is made.  `consented` and `mistaken` are history
variables: the accounts the user chose by the name on the page, or created, and those allowed under
the name of another.

### ManifestHook and FileHook

A run of a hook is a sequence of small steps over the files on disk; `phase` says
where it is, `cur` and `todo` what it works on, and `Crash` may end it between two
steps or with a file open and truncated.  Every step that writes may fail visibly, or, on a full disk,
be cut without a sign (`Fault`): `write()` puts bytes into a buffer, and nobody looks at what `close()` did with them.
`fate` says what became of the last writing of a file (history), `nameless` are cut files that the hook still recognises as its own
although their profile is missing.  The next run starts from what is on disk.  Packages are installed,
upgraded and removed, and accounts created, only between runs; `linkTime` is the
change number of the link.  In `FileHook` a copy has the time of its link once `utime()` has
run, whole or cut, or if it was opened in the second of its link; `exposed` remembers the copies opened in that second
or cut by a full disk (history).

### The independent parts

* `Ipc`: `Write` appends the length and the bytes of a message to the stream, of
  which any prefix may arrive; `OnReadyRead` is one turn of its loop,
  `WaitWelcomeMessage` skips what a process prints first when the channels are files.
* `LibaccountsService`: `pendingWrites` is `m_pendingWrites`, keyed by Account
  object.  Whether `Manager::account()` returns an object that exists already is up to
  libaccounts-qt: `sharing` covers both.
* `OAuth`: one record with the properties of the page and of its account,
  credentials and session objects.  `ClicksWhile` are the moments of a click on Cancel or Retry.
* `LoopbackServer`: `item` is the QML wrapper, whose assignments take effect in a queued
  `update()`; `bound` the port of the server, `data` is `m_data`.
* `IdentityData`: `dirs` are the directories in the order of their modification
  times, as `rootDirForIdentity()` sorts them; the filter `id-<n>*` is a relation on numbers.
* `ApplicationManager`: a profile is `<<package, application, version>>`.  `Found` is the lookup of a client by
  the name it claims or by its profile, `Grant` and `GrantUnconfined` the end of a panel, `SwitchOn` and `SwitchOff`
  the switches of a service with `addApplicationToAcl` and `removeApplicationFromAcl`; `Install` and `Uninstall` are what the
  click hooks do to the file and the ACL: tokens are taken in accounts that are on, for services that are enabled,
  and by the second hook only (`disables`).  `missed` remembers the applications that were switched off when they had no file.  The changes of one ACL are taken one after the other: a
  Credentials item of another process with an older ACL is not considered.

## 3. What is checked

| Run | Instance | Shows |
|---|---|---|
| `rm_handlers` | 1 account request, 2 sign-on requests, 2 windows, 1 handler; all faults | `HeadIsServed`, `NoOrphan`, `AccountRequestAnsweredOnce`, `UiKnowsHeldRequests`; implements `WindowQueues` |
| `rm_live` | 2 requests for one window; prompt, exit, session | every request answered, every proxy reclaimed, manager idle again |
| `indicator_single` | 1 account, 3 calls, up to 3 recorded authentications | right, single and eventual replies, published properties, data dropped only by a replay without errors |
| `daemon_idle` | 1 account request, 1 sign-on request, 1 account; prompt, exit | timer follows idle; no quit on an account request; a daemon that stays idle quits |
| `ui_dialogs` | a web page, a password dialog, the system browser; 1 handler with a web view of its own | one answer per request, handlers freed, cancel is cancel, a failed load ends |
| `pp_app` | 2 accounts, 2 services; application, settings or unconfined client; single account or not | what is answered has been granted, only with consent; a created account is answered |
| `mh_faults` | a manifest with a plugin and one that uses its accounts; 2 versions, 2 accounts, 3 changes, 2 faults | a complete run publishes everything; what is skipped is published; an upgrade keeps accounts, services and access; no access or account is left |
| `fh_faults` | 1 package, 2 files, 3 versions, one malformed; 3 changes, 2 faults, copies made in the second of the link | a complete run has made every copy; what is skipped is whole, but for copies cut unseen |
| `parts` | see below | `Ipc` implements a reliable channel; store calls answered once; OAuth ends clean; the server listens as told; URLs are whole; cookies are the latest; access ends with the switches |

Runs that find a disagreement between the code and what the repository says of it:

| Run | Finding |
|---|---|
| `rm_stale_answer` | an answer under way when signond cancels its request fails `Q_ASSERT(request)` in `onDataReady` |
| `indicator_wrong_caller` | with two reauthentications, the first result goes to the second caller |
| `identity_prefix` | removing the data of identity 1, which has none, removes that of identity 12 |

**The run `parts`.** The six modules have no variable, message or file in common.
`MCParts` conjoins their initial states, and in a behaviour one of them runs
(`part`) with its fairness, while the others stay where they start: the run
explores the sum of the six state spaces instead of the product, and each property
speaks of one part.  `Parts.cfg` has 3 messages of 2, 0 and 3 bytes; 4 store calls
(two on one account, one that creates, one refused); new and existing
accounts with two retries; 3 port values, 2 of which may be taken, and 2 connections;
2 identities with 3 logins; 2 applications of one
package in 2 versions, one with two services and a file named after the application, the other with a file named after the package.

**Bounds.** Three requests on two windows are the least with a queue that has a
waiting request beside another window that is served, and with a proxy that has
two requests (an account request, a sign-on request with a handler) beside a third
that competes.  Each request is one call, so the number of requests bounds the number of
replies, messages and proxies.  In `IndicatorService` `MaxData` bounds the recorded
authentications: two are enough for a mixed result and for a report that arrives during a
replay.  With one account, two calls can meet in one reauthenticator; with two, the single
client message is contended.  `ui_dialogs` has a request of each class, all of which name the
one handler, so that two wait for it and get dialogs.  Two accounts let the
panel's account be deleted while another exists.  Three changes allow install, upgrade and removal,
or removal and reinstallation; two faults, a failure in a run that repairs an earlier one (`mh_faults`: about 5 million states).
A message may be empty, longer or shorter than its length; the noise is longer than the
welcome message.  Deadlock is not checked where the system may stop: all
calls made and answered, the process gone, the daemon quit, or a part at its end.

**Fairness.**
* `RequestManager!FairSpec`: the event loop handles each pending event of the
  daemon, and a UI process with requests answers one or leaves (`UiProgress`).  Calls,
  cancellations, prompt sessions and handlers are never forced.  `rm_live` excludes
  "start" and "early", where the code does not answer, and uses requests without
  handlers: with a second request in the proxy, a UI process that exits while the finished
  timer runs is not noticed (`online-accounts-service/ui-proxy.cpp:146` and `:352`), and its requests hang.
* `IndicatorService!FairSpec`: queued signals are delivered and signond ends every session.
* `DaemonFairSpec`: `main` reaches `app.exec()` and the timer of a daemon that
  stays idle fires; a client that keeps restarting it is not considered.
* `UiRequests`: deferred deletes run and an active single-shot timer fires.  Neither
  the user nor the page is forced.
* `ProviderPanel`: the models follow the database, deferred deletes run, and the
  `sync()` calls of a grant end.  The user is not forced.
* `Ipc`: the stream delivers and the event loop runs.  `LibaccountsService`:
  libaccounts ends each write in `synced()` or `error()`.  `OAuth`: signond ends a session
  that is cancelled and removes credentials; the user, the plugin and the account are not forced.

The hooks have safety properties only: a run is finite by construction.

**What holds under a condition, and the gaps behind it.** Each of these configurations
finds the code in disagreement with a line of the repository; `tlc -config X.cfg M` reproduces it.

| Configuration (module) | Property | What happens |
|---|---|---|
| `RMSecondReply` (`MCRequestManager`) | `CompletedIsFirst` | `fail()` (`request.cpp:212`) leaves `m_inProgress` set: a cancellation before the deferred delete replies again and completes a request that left its queue ("Completed request is not first in queue!", `request-manager.cpp:145`) |
| `RMPanelNeverOpens` (`MCRequestManager`) | `EveryRequestAnswered` | nothing is connected to the QProcess (`ui-proxy.cpp:328`): a UI process that exits before it connects leaves its request, and all later ones of the window, unanswered |
| `ISLostFailure` (`MCIndicatorService`) | `AllReplayed` | a failure reported during a reauthentication is cleared without being replayed (`indicator-service.cpp:274`) |
| `UINetwork` (`MCUiRequests`) | `NetworkErrorReported` | `onFailTimer()` (`browser-request.cpp:277`) closes a visible dialog first, whose slot answers with the current URL |
| `UICookies` (`MCUiRequests`) | `FinalUrlNotLost` | the fail timer fires after the final URL was reached and before the cookies come (`browser-request.cpp:272`) |
| `PPDeny` (`MCProviderPanel`) | `DenyDeliversEmptyResult` | `onWindowVisibleChanged()` disconnects itself when the window is shown: deny() "will deliver the empty result" (`provider-request.cpp:178`) to nobody |
| `PPViewKept` (`MCProviderPanel`) | `ViewKeptOpen` | "We keep the view opened" (`provider-request.cpp:199`), but the request that owns it is deleted with its answer |
| `PPSingle` (`MCProviderPanel`) | `SingleStaysSingle` | the single-account limit is checked when the page is shown (`ProviderRequest.qml:99`) |
| `PPLabel` (`MCProviderPanel`) | `OnlyNamed` | the name on the page is read once (`AuthorizationPage.qml:101`), the account in its row when "Allow" is pressed (`:132`): when the account named is deleted, another is opened under its name |
| `MHOrphans` (`MCManifestHook`) | `AccountsGoWithProvider` | a provider file truncated by a killed run (`click-hooks/accounts.cpp:479`) is no longer recognised as the hook's; its accounts stay |
| `MHOff` (`MCManifestHook`) | `GoneIsDisabled` | services are disabled in accounts that are switched on only (`click-hooks/accounts.cpp:545`) |
| `MHPrefix` (`MCManifestHook`) | `OthersKeepAccess` | ACL tokens are matched by prefix (`acl-updater.cpp:59`) |
| `IDPrefix` (`MCParts`) | `DataRemoved` | the daemon looks for directories by prefix (`signonui-service.cpp:173`): to remove the data of identity 1 can remove that of 12 |
| `FHOrphans` (`MCFileHook`) | `AccountsGoWithProvider` | the provider file is removed before its accounts (`click-hooks/main.cpp:307`) |

The following have no configuration of their own; a constant or a property of the module shows them:

* `ProcessedIsWhole` (`ManifestHook`, as an invariant of `MHOrphans.cfg`): when the disk is full `write()` succeeds into its buffer, the
  error of `close()` is not looked at (`click-hooks/accounts.cpp:482`), and the manifest is marked as processed with an empty
  or cut file.  `CompleteRunPublishes` and `ProcessedIsPublished` except files whose last writing was cut that way (`SeemsPublished`).
* `FileHook`: in the same way a copy that is cut gets the time of its link (`click-hooks/main.cpp:231`), and one that is emptied in
  the second of its link, by a kill or a failure, has it already (`:368`); both are taken for up to date until the link changes.
  `CutUnseen` excepts them from the properties.
* `AccessEndsWhenOff` (`ApplicationManager`, in place of `AccessOnlyWhenOn` in `Parts.cfg`): an application is uninstalled while its
  account is off, its service is switched off later from a page that still has it, and the token stays, since
  `removeApplicationFromAcl` no longer finds a profile.  `AccessOnlyWhenOn` excepts applications whose last switch found no file (`missed`).
* `StoreAnswered`: a store call on an account that cannot be loaded is never answered
  (`libaccounts-service.cpp:116`); nor is the first of two on a shared Account object, whose
  pending write the second replaces (`:150`).  `LoadedIsAnswered` leaves both out.
* `Ipc` with `SplitsLength = TRUE`: a length that arrives in two pieces is lost
  (`ipc.cpp:113`), with the framing of everything after it.
* `OAuth` with more moments in `ClicksWhile`: a cancellation while the credentials are stored
  leaves them behind; one while the name is looked up or the account is saved can leave an
  account without credentials; a second one finishes twice.  An answer that was under way when
  `cancel()` was called creates the account, where the comment (`OAuth.qml:202`) expects an error.
* `LoopbackServer`: `m_data` is never emptied (`loopback-server.cpp:121`), so that
  a second request is answered with the URL of the first; with `Concurrent = TRUE` the
  pieces of two requests are mixed.
* `ApplicationManager` with a service in the `Uses` of two applications: when it is switched off the token of the other
  application stays (the QML passes one application to `removeApplicationFromAcl`).  An application with two services loses
  its access when one of them is switched off.  With `Continues` not empty, switching off an application also removes the tokens
  of those whose name continues its own (`application-manager.cpp:275`), as in `MHPrefix`.
* `Daemon` with "cancel" in `Faults`: a sign-on request that is cancelled between its failure and its
  deletion empties a queue without `isIdleChanged()` (`request.cpp:212`), and the timer no longer follows.

Further assumptions: the Account and Credentials items of QML relay only the signals of
the account they hold; a service that another program switches off during a grant is not
considered; accounts without credentials never end their grant; a request for the
system browser that has no handler is not shown by anyone.  The type
invariants of all modules hold in the instances above; those of the modules with proofs
are part of an inductive invariant, or follow from one.

## 4. What is proved

Every theorem holds for all values of the constants that the `ASSUME` of its module allows: any sets of
requests, windows, accounts, applications, any bounds and any choice of faults.  What it
needs beyond that is stated in the theorem and listed here.  `theorems` in `PROJECT.json` names them.

| Module | Theorems | Hypotheses |
|---|---|---|
| `RequestManagerProofs` | `TypeOK`, `IInv`, `HeadIsServed`, `NoOrphan`, `AccountRequestAnsweredOnce`, `QueuedMeansNotIdle`, `UiKnowsHeldRequests`; implements `WindowQueues` | |
| | `NeverCrashes`, `CompletedIsFirst`, `RequestAnsweredOnce` | `"cancel" \notin Faults` |
| `DaemonProofs` | `StartedOK`, `QuitLeavesNoAccountRequest`; `TimerFollowsIdle` | `"cancel" \notin Faults` for the last |
| `IndicatorServiceProofs` | `TypeOK`, `PropertiesCurrent`, `SignalsMatchReplays`, `FinishedOnce`, `DroppedAfterSuccess`; `AnsweredAtMostOnce`, `TrueMeansCleared` | one account for the last two |
| `UiRequestsProofs` | `TypeOK`, `AnsweredOnce`, `HandlerFreed`, `CancelIsCanceled` | |
| `ProviderPanelProofs` | `TypeOK`, `OnlyConsented`, `AllowedIsGranted` | |
| `ManifestHookProofs` | `TypeOK`, `ProcessedIsPublished`, `CompleteRunPublishes`, `NoOrphanAccounts`, `GoneLosesAccess` | |
| | `GoneIsDisabled`, until the first fault | `MayBeOff = {}` |
| | `UpgradeKeepsAccess`, `OthersKeepAccess` | no name of an application continues that of another |
| `FileHookProofs` | `TypeOK`, `NoOrphanAccounts`, `UpToDateIsPublished`, `CompleteRunPublishes` | |
| `PartsProofs` | `RepliedOnce`, `ListensAsTold` | |
| | `VisitedIsWhole` | `Concurrent = FALSE` |
| | `FinishedClean` | `CarefulClicks` |
| | `AccessOnlyWhenOn` | `OwnServices` |
| | `CookiesAreLatest` | `PrefixFree`: the number of no identity continues that of another |
| | `DataRemoved` | `PrefixFree`, and no directory of an older version |
| | `Ipc` implements `MessageChannel`, without its fairness | `SplitsLength = FALSE` |

Each hypothesis marks a place where the code does not do what the property says: cancellations,
two accounts, concurrent requests to the loopback
server, clicks at the wrong moment, services shared by applications, accounts that are off (`GoneIsDisabled`), names and identities
of which one continues another, directories of older versions, and chunks that end within a
length (section 3 has what happens then).  Other properties carry their exceptions themselves: files cut by a full disk, copies made in the
second of their link, an account opened under the name of a deleted one, a switch that finds no file.  So a theorem with a hypothesis also says what a repair has to
deal with: `NeverCrashes` is violated by cancellations (`rm_stale_answer`) and, as proved, by
no other fault of the model; `DataRemoved` by prefixes (`identity_prefix`) or by old directories.

**RequestManager.**  None of its properties is inductive: that a completed request is answered
once needs to know that no second proxy holds it and that the head of
its queue is the request its proxy was created for.  `IInv` says who serves whom:

* `QueuesOk`: a queue holds living requests of its window, each once; the first is
  held by its own proxy and the others have none; the window has its key.
* `HeldOk`: a held request is alive, in progress and connected to the proxy that holds
  it, which is live; the one the proxy was created for heads its queue.
* `AliveOk`: a living request is unanswered, and waits untouched in its queue or is held.
* `FreshOk`: what has not arrived or started has no trace in proxies; lists hold
  live proxies only, and no proxy is both listed and dying.
* `AccountRequestAnsweredOnce`.

The proof separates *effects* from *causes*.  `TypeStep` proves typing action by
action.  `EffectInv` proves that any step with the shape of a completion (a
set of held requests is answered and dropped, some requests are refused, at
most one is started) preserves the invariant; `RunQueueInv` and `CompletedInv` show that
`RunQueue` and `Completed` have that shape, and one lemma each covers the steps of other
shapes (`EnqueueInv`, `HandOverInv`, `DeleteRequestInv`,
`SecondReplyInv` for the second completion of a failed sign-on request, `FrameInv`
for steps that leave these variables alone).

`UiKnowsHeldRequests` is inductive relative to `IInv`: `SendKnown` and `ReadKnown` follow a request from the
socket into the UI process, `RunQueueReady` says that what `runQueue` starts is not connected yet.

Without cancellations, `UncancelledInv` is inductive relative to `IInv`: `SocketsOk` says that an answer on
its way, and a request a UI process works on, is still held by the proxy at the other end of the socket.  It needs
that a proxy lets go of a request only when it answers it or when it disconnects (`Frees`), shown
shape by shape (`CompletedFrees`, `RunQueueFrees`, `EnqueueFrees`).  A cancellation breaks exactly this.

The refinement maps the queues to the lines of the abstract specification, the held requests to those that
are open, and those with a reply to those that are answered.  `GoneAnswered` (an object that is being deleted was answered)
is the one fact it needs beyond `IInv`.  One lemma per shape of step, as above, shows a
step of `WindowQueues` or a stutter (`EnqueueRefines`, `HandOverRefines`, `CompletedRefines`,
`SecondReplyRefines`, `FrameRefines`); `RefinementInit` and `RefinementStep` put them together.

**Daemon.**  `DaemonRunsBroker` proves `DaemonSpec => Spec`, so that every theorem of the broker holds in the
daemon, and `DaemonRunsIndicator` the same for the indicator.  `StartedOK` is the order in
which `main` watches its objects.  A quit needs all of them idle, hence no key in `m_requests`;
`AccountVia` (an account request is held by no proxy but its own, as it names no handler) with `IInv` then leaves no
account request alive.  For the timer, `BrokerIdleChange` and `IndicatorIdleChange` show that a
handler changes an idle flag only if it emits `isIdleChanged()`: the inductive `TimerOK` follows
handler by handler.  With late cancellations this is false.

**IndicatorService.**  `PropertiesCurrent` is inductive alone, handler by handler (`NotifyCurrent`).
`FinishedOnce` and `DroppedAfterSuccess` are not: that a delivered success means the data was replayed
needs to know which reauthenticator a queued signal belongs to and what it had
counted.  `SignalsMatchReplays` says that and is inductive with the types.  The start of a replay
and its two kinds of answer share one shape (`Replayed`), so `ReplayedType` and
`ReplayedSignals` are proved once for the three; `FinishedSignals` covers the delivery.  With one account,
`RepliesInv` adds that the call in `m_clientMessage` is unanswered while its reauthenticator exists.

**UiRequests.**  The slots of a request are functions on its record, and each is shown once to do
nothing (`SameRest`) or to end it (`Over`: dialog closed, one answer), so that re-entered slots compose
(`OverTwice`).  `AnswerOK` ties `m_inProgress` to the answers, `DialogOK` the dialog to its
connection, `LiveOK` timers and handlers to the object's lifetime, `EventOK` the history variable.

**ProviderPanel.**  `ChoiceOK` (the accounts of the panel are those the user allowed, by the name on the page or by
mistake, or created), `NameOK` (a mistake needs that the account named has left the database), `DatabaseOK`
and `GrantingOK` (in the last `sync()` of a grant the ACL has the application and the missing services are
about to be stored) are kept by every step, `Opens` and `Quiet` say what a step may add
to the database and tell the client.  `ShapeSteps` covers the steps that change pages, views and lifetimes only.
That an account deleted during a grant does not come back with the same ID (`IsNew`) is needed for `GrantingOK` and `NameOK`.

**ManifestHook, FileHook.**  What a later run skips must have been finished by an earlier one, whatever
happened since.  `TimesOK` says that no timestamp is newer than the last change; `CurOK`, `TodoOK` and `WrittenOK`
what a run has written for the link it works on; `SweptOK` and `DoneOK` what is already removed
and published, which gives `CompleteRunPublishes` at the end of the run.  In `ManifestHook`, `FateOK` ties broken files to
the last writing of theirs; `ProviderKept` (a provider with accounts has its file unless its last writing went wrong) gives
`NoOrphanAccounts`, and `AccessKept` (until the first fault) `GoneLosesAccess`; `EnabledKept` (a service is
enabled in an account that is on only while its file is there) gives `GoneIsDisabled`.
`CurOK` knows that the ACL is cleared for applications that are gone only, hence `OthersKeepAccess`, and with
`AccountsKept` and `EnabledStays` the rest of `UpgradeKeepsAccess`.  In `FileHook`, a copy that is being made has no time or is `exposed`,
and gets the link's time when it is whole or `CutUnseen` (`CurOK`); `ProviderKept` holds until the first fault.

**The parts.**  *LibaccountsService*: a shared object emits its signal to several connections, and what
keeps the second from answering is that the first has taken the call out of `m_pendingWrites`: `WaitsOnce`,
`NotBefore`, and `WritersAllowed` (only calls that passed the access check are written).
*LoopbackServer*: `OneUpdate` ties `m_updateQueued` to the event in the queue; `InSync` says that without
a queued update the server does what its property says, on a port of the window of its `port` property;
`FirstFreeTried` is the search for a port.  `VisitedInv` follows the pieces of the first request line into
`m_data`.  *OAuth*: `PageInv` says which of credentials, session, name dialog and writes can be under way together while the
page is shown, and that it is `Clean` when it has finished.  *ApplicationManager*: a token is left
over only by the two steps that find no profile to compare with or no account that is on; `missed` follows them, and
`AccessOnlyWhenOn` is inductive with the types.

*IdentityData*: nothing sorts the directories for the proof; only a login moves one to the front, that of
its own identity, so the directory the logins write to comes before any that an older version left
(`OwnFirst`) and has the last cookies (`LatestKept`).  When there are none of an older version, an identity has one
directory (`OneDirectoryEach`, kept by a removal through `OthersLeft` and by a login through `OneInFront`), so
the one that `RootDirForIdentity` finds is all there is to remove.
*Ipc*: a byte tells which byte may follow it (`Follows`), so a stream in which each follows the one before
(`Chain`), and which ends with the next byte that would be written, is determined by its first; and that is the one the reader
is at (`Expected`).  `BufferOK` says what has been read of the message under way, `WholeLengths` that no length
is cut.  `Along`, that a message's bytes come in their order, is an induction by a least counterexample (`WFMin`).

**Only model-checked.**  Liveness and ENABLED, which are beyond the prover: the fairness of `MessageChannel`
with them.  The properties above outside their hypotheses, where they do not hold.

## 5. Not modelled

* Teardown after `app.exec()` (where `delete service` deletes requests that proxies
  still point to); `DaemonTimeout = 0`, which disables the inactivity timer; a daemon without
  the version 2 library, which passes a null object to `watchObject`.
* `MirHelper`: the sharing of a prompt session by proxies of one client, and its callback on Mir's
  thread, a data race with the main thread whose outcomes depend on the layout of `QHash`.
* `refreshDialog` (a TODO in the code), the conversion of cookies, contents of messages,
  parameters of dialogs, process arguments.
* In the hooks: templates, settings and translations of the generated files, the libertine and
  trust-store helpers; packages that change while a run is under way.
* The lists of providers and of their plugins in `ApplicationManager`, and `AccountManager`: lookups of files and
  objects, without behaviour of their own over time.
* The `Setup` client (one D-Bus call), the system settings plugin (pages over the database), the
  service utilities (string and map helpers), layout in QML, and the single-instance check of the UI process.

## 6. Plan

1. `MirHelper`: shared sessions and weak pointers, in the main thread.
2. The composition of `UiRequests` with `RequestManager` in place of its environment actions, which
   would turn the assumption that a UI process answers each request once into a theorem.
3. The `Setup` client, with the loss of the daemon during its call.
4. Proofs: the invariants of the modules of 1 to 3; `AnsweredAtMostOnce` with several accounts for the calls that
   do not overlap.
