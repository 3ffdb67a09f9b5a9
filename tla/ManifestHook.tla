---------------------------- MODULE ManifestHook ----------------------------
(***************************************************************************)
(* online-accounts-hooks2 (click-hooks/accounts.cpp) and the AclUpdater    *)
(* it uses.  Click keeps a link <app>_<version>.accounts to the manifest   *)
(* of every installed application and runs the program after a change and  *)
(* at login.  A run removes what gone applications left, then writes the   *)
(* files libaccounts reads for every manifest that has no .processed file  *)
(* with the time of its link.  A run may be killed between any two steps,  *)
(* or while a file is open, and starts again from what is on disk.         *)
(*                                                                         *)
(* Applications are named by their application ID without the version.  An *)
(* application that has a plugin provides accounts of its own, and is then *)
(* the name of that provider.                                              *)
(***************************************************************************)
EXTENDS Naturals, FiniteSets

CONSTANTS
  App,          \* short application IDs, <package>_<application>
  Provider,     \* the providers of accounts, applications with a plugin too
  Version,      \* versions of the packages: 1, 2...
  ServicesOf,   \* <<app, version>> -> the providers its manifest has services for
  HasPlugin,    \* <<app, version>> -> does its manifest have a plugin?
  Account,      \* account IDs
  ProviderOf,   \* account -> provider
  Prefix,       \* app -> the applications whose name starts with its name
  MayBeOff,     \* accounts the user may switch off altogether
  MaxChanges,   \* bound on the packages installed and removed
  MaxFaults     \* bound on the failures and crashes

ASSUME HookAssumption ==
  /\ Version \subseteq Nat \ {0}
  /\ ServicesOf \in [App \X Version -> SUBSET Provider]
  /\ HasPlugin \in [App \X Version -> BOOLEAN]
  /\ ProviderOf \in [Account -> Provider]
  /\ Prefix \in [App -> SUBSET App] /\ \A app \in App : app \in Prefix[app]
  /\ MayBeOff \subseteq Account
  /\ MaxChanges \in Nat /\ MaxFaults \in Nat

ServiceFile == [type : {"service"}, app : App, provider : Provider]
OtherFile == [type : {"provider", "application"}, app : App]
File == ServiceFile \union OtherFile

VARIABLES
  hooks,      \* app -> version of its link in the hooks directory, 0 if none
  linkTime,   \* app -> modification time of that link
  processed,  \* <<app, version>> -> time of its .processed file, 0 if none
  files,      \* file -> version in its <profile>, 0 if it has none
  broken,     \* files that are not whole, nothing to libaccounts
  nameless,   \* those of them that are ours to createdByUs(), of no profile
  fate,       \* file -> what became of its last writing (history)
  links,      \* applications with a link in qml-plugins/
  accounts,   \* accounts in the database
  off,        \* accounts that are not enabled
  enabled,    \* <<account, app>>: the service of the app is enabled
  acl,        \* <<account, app>>: the app is in the ACL of the credentials
  phase,      \* what a run is doing
  cur,        \* what it does it for: <<app, account>>, or <<app>>, or <<>>
  todo,       \* the links it has not looked at: applications
  left,       \* services of cur it has not written
  ok,         \* the result of writeFiles so far
  changes, faults,
  clean       \* the last run began after the last change, and had no fault

fileVars == <<files, broken, nameless, fate>>
diskVars == <<fileVars, links>>
dbVars   == <<accounts, off, enabled, acl>>
runVars  == <<cur, todo, left, ok>>
hookVars == <<hooks, linkTime>>
envVars  == <<changes, faults, clean>>
vars == <<hookVars, processed, diskVars, dbVars, phase, runVars, envVars>>

Init ==
  /\ hooks = [app \in App |-> 0] /\ linkTime = [app \in App |-> 0]
  /\ processed = [h \in App \X Version |-> 0]
  /\ files = [f \in File |-> 0] /\ broken = {} /\ nameless = {}
  /\ fate = [f \in File |-> "whole"] /\ links = {}
  /\ accounts = {} /\ off = {} /\ enabled = {} /\ acl = {}
  /\ phase = "idle" /\ cur = <<>> /\ todo = {} /\ left = {} /\ ok = TRUE
  /\ changes = 0 /\ faults = 0 /\ clean = FALSE

Goto(p) == phase' = p
Fault == faults < MaxFaults /\ faults' = faults + 1 /\ clean' = FALSE
NoFault == UNCHANGED <<faults, clean>>

\* The file f goes, whatever it was.
Unlink(f) ==
  /\ files' = [files EXCEPT ![f] = 0] /\ broken' = broken \ {f} /\ nameless' = nameless \ {f}

\* The content of the file f becomes that of version v.
Write(f, v) ==
  /\ files' = [files EXCEPT ![f] = v] /\ broken' = broken \ {f} /\ nameless' = nameless \ {f}
  /\ fate' = [fate EXCEPT ![f] = "whole"]

\* Of the outcomes of a writeXmlFile that fails: the file could not be opened
\* and is as it was, or it could not be written and is removed.
WriteFails(f) ==
  \/ UNCHANGED fileVars
  \/ Unlink(f) /\ fate' = [fate EXCEPT ![f] = "failed"]

\* What is left of a file that is not written to its end: nothing, or its
\* first nodes, the comment createdByUs() looks for and perhaps the profile.
CutShort(f, v) ==
  /\ broken' = broken \union {f}
  /\ \/ files' = [files EXCEPT ![f] = 0] /\ nameless' \in {nameless \ {f}, nameless \union {f}}
     \/ files' = [files EXCEPT ![f] = v] /\ nameless' = nameless \ {f}

\* The disk is full: some bytes went to QFile's buffer, which is all that
\* writeXmlFile looks at, and close() could not write them out.
WriteIsCut(f, v) == CutShort(f, v) /\ fate' = [fate EXCEPT ![f] = "cut"]

IsService(f) == f.type = "service"
Types == <<"service", "provider", "application">>

-----------------------------------------------------------------------------
(***************************************************************************)
(* Click, and the user in the accounts panel, between two runs.            *)
(***************************************************************************)
Install(app, v) ==
  /\ phase = "idle" /\ changes < MaxChanges
  /\ hooks[app] # v
  /\ hooks' = [hooks EXCEPT ![app] = v]
  /\ linkTime' = [linkTime EXCEPT ![app] = changes + 1]
  /\ changes' = changes + 1 /\ clean' = FALSE
  /\ UNCHANGED <<processed, diskVars, dbVars, phase, runVars, faults>>

Remove(app) ==
  /\ phase = "idle" /\ changes < MaxChanges
  /\ hooks[app] # 0
  /\ hooks' = [hooks EXCEPT ![app] = 0]
  /\ changes' = changes + 1 /\ clean' = FALSE
  /\ UNCHANGED <<linkTime, processed, diskVars, dbVars, phase, runVars, faults>>

\* Providers that are not applications are installed for good.
HasProvider(p) ==
  p \in App => LET f == [type |-> "provider", app |-> p] IN files[f] # 0 /\ f \notin broken

CreateAccount(a) ==
  /\ phase = "idle" /\ a \notin accounts /\ HasProvider(ProviderOf[a])
  /\ accounts' = accounts \union {a}
  /\ acl' = {t \in acl : t[1] # a}
  /\ UNCHANGED <<hookVars, processed, diskVars, off, enabled, phase, runVars, envVars>>

EnableService(a, app) ==
  /\ phase = "idle" /\ a \in accounts
  /\ LET f == [type |-> "service", app |-> app, provider |-> ProviderOf[a]]
     IN  files[f] # 0 /\ f \notin broken
  /\ enabled' = enabled \union {<<a, app>>}
  /\ acl' = acl \union {<<a, app>>}
  /\ UNCHANGED <<hookVars, processed, diskVars, accounts, off, phase, runVars, envVars>>

SwitchOnOff(a) ==
  /\ phase = "idle" /\ a \in MayBeOff \intersect accounts
  /\ off' = IF a \in off THEN off \ {a} ELSE off \union {a}
  /\ UNCHANGED <<hookVars, processed, diskVars, accounts, enabled, acl, phase, runVars, envVars>>

-----------------------------------------------------------------------------
(***************************************************************************)
(* A run: removeStaleFiles and removeStaleTimestampFiles.                  *)
(***************************************************************************)
StartRun ==
  /\ phase = "idle"
  /\ Goto("service") /\ clean' = TRUE
  /\ UNCHANGED <<hookVars, processed, diskVars, dbVars, runVars, changes, faults>>

\* A mutant of IsStale: the link of the same version is looked for.
IsNotCurrent(f) == files[f] # 0 /\ hooks[f.app] # files[f]

\* No link is that of the application the profile names; none is "_*".
IsStale(f) == (files[f] # 0 /\ hooks[f.app] = 0) \/ f \in nameless

\* The stale files of the directory being walked.
Stale(f) == f.type = phase /\ IsStale(f)

\* The accounts disableService must switch off, if it can load the service.
UsersOf(f) ==
  {a \in accounts \ off : f \notin broken /\ ProviderOf[a] = f.provider /\ <<a, f.app>> \in enabled}

DisableService(f, a) ==
  /\ IsService(f) /\ Stale(f) /\ a \in UsersOf(f)
  /\ enabled' = enabled \ {<<a, f.app>>}
  /\ Goto("acl") /\ cur' = <<f.app, a>>
  /\ UNCHANGED <<hookVars, processed, diskVars, accounts, off, acl, todo, left, ok, envVars>>

\* A mutant of TokensOf: no credentials, the service was selected first.
NoTokens(a, app) == {}

\* AclUpdater::removeApp drops every token that starts with the name.
TokensOf(a, app) == {a} \X Prefix[app]

RemoveApp ==
  /\ phase = "acl"
  /\ \/ acl' = acl \ TokensOf(cur[2], cur[1]) /\ NoFault
     \/ Fault /\ UNCHANGED acl
  /\ Goto("service") /\ cur' = <<>>
  /\ UNCHANGED <<hookVars, processed, diskVars, accounts, off, enabled, todo, left, ok, changes>>

\* A mutant of AccountsOf: only the accounts that are enabled.
EnabledAccountsOf(f) == {a \in accounts \ off : ProviderOf[a] = f.app}

AccountsOf(f) == {a \in accounts : ProviderOf[a] = f.app}

RemoveAccount(f, a) ==
  /\ f.type = "provider" /\ Stale(f) /\ a \in AccountsOf(f)
  /\ accounts' = accounts \ {a} /\ off' = off \ {a}
  /\ enabled' = {e \in enabled : e[1] # a}
  /\ UNCHANGED <<hookVars, processed, diskVars, acl, phase, runVars, envVars>>

InUse(f) == CASE IsService(f) -> UsersOf(f) # {}
              [] f.type = "provider" -> AccountsOf(f) # {}
              [] OTHER -> FALSE

RemoveStaleFile(f) ==
  /\ Stale(f) /\ ~InUse(f)
  /\ Unlink(f)
  /\ UNCHANGED <<hookVars, processed, fate, links, dbVars, phase, runVars, envVars>>

NextDirectory ==
  /\ phase \in {"service", "provider", "application"} /\ ~\E f \in File : Stale(f)
  /\ Goto(CASE phase = "service" -> "provider"
            [] phase = "provider" -> "application"
            [] phase = "application" -> "timestamps")
  /\ UNCHANGED <<hookVars, processed, diskVars, dbVars, runVars, envVars>>

StaleTimestamps == {h \in App \X Version : processed[h] # 0 /\ hooks[h[1]] # h[2]}

RemoveStaleTimestamp(h) ==
  /\ phase = "timestamps" /\ h \in StaleTimestamps
  /\ processed' = [processed EXCEPT ![h] = 0]
  /\ UNCHANGED <<hookVars, diskVars, dbVars, phase, runVars, envVars>>

ListHooks ==
  /\ phase = "timestamps" /\ StaleTimestamps = {}
  /\ Goto("hooks") /\ todo' = {app \in App : hooks[app] # 0}
  /\ UNCHANGED <<hookVars, processed, diskVars, dbVars, cur, left, ok, envVars>>

-----------------------------------------------------------------------------
(***************************************************************************)
(* A run: the links in the hooks directory.                                *)
(***************************************************************************)
Hook(app) == <<app, hooks[app]>>
IsValid(h) == ServicesOf[h] # {} \/ HasPlugin[h]
\* A mutant of UpToDate: the time of the .processed file is not looked at.
IsProcessed(app) == processed[Hook(app)] # 0

UpToDate(app) == processed[Hook(app)] = linkTime[app]

SkipHook(app) ==
  /\ phase = "hooks" /\ app \in todo
  /\ UpToDate(app) \/ ~IsValid(Hook(app))
  /\ todo' = todo \ {app}
  /\ UNCHANGED <<hookVars, processed, diskVars, dbVars, phase, cur, left, ok, envVars>>

WriteFiles(app) ==
  /\ phase = "hooks" /\ app \in todo
  /\ ~UpToDate(app) /\ IsValid(Hook(app))
  /\ Goto("services") /\ cur' = <<app>> /\ todo' = todo \ {app}
  /\ left' = ServicesOf[Hook(app)] /\ ok' = TRUE
  /\ UNCHANGED <<hookVars, processed, diskVars, dbVars, envVars>>

WriteServiceFile(p) ==
  LET f == [type |-> "service", app |-> cur[1], provider |-> p]
  IN  /\ phase = "services" /\ p \in left
      /\ \/ Write(f, hooks[cur[1]]) /\ left' = left \ {p} /\ NoFault /\ UNCHANGED ok
         \/ WriteIsCut(f, hooks[cur[1]]) /\ left' = left \ {p} /\ Fault /\ UNCHANGED ok
         \/ WriteFails(f) /\ left' = {} /\ ok' = FALSE /\ Fault
      /\ UNCHANGED <<hookVars, processed, links, dbVars, phase, cur, todo, changes>>

ServicesWritten ==
  /\ phase = "services" /\ left = {}
  /\ Goto(IF HasPlugin[Hook(cur[1])] THEN "plugin" ELSE "main")
  /\ UNCHANGED <<hookVars, processed, diskVars, dbVars, runVars, envVars>>

\* The link is replaced first, then the provider file is written.  Keys or
\* files that the manifest lacks make it fail before, or between the two.
WritePlugins ==
  LET f == [type |-> "provider", app |-> cur[1]]
  IN  /\ phase = "plugin"
      /\ \/ links' = links \union {cur[1]} /\ Write(f, hooks[cur[1]]) /\ NoFault /\ UNCHANGED ok
         \/ links' = links \union {cur[1]} /\ WriteIsCut(f, hooks[cur[1]]) /\ Fault /\ UNCHANGED ok
         \/ links' = links \union {cur[1]} /\ WriteFails(f) /\ ok' = FALSE /\ Fault
         \/ links' \in {links, links \ {cur[1]}} /\ ok' = FALSE /\ Fault
            /\ UNCHANGED fileVars
      /\ Goto("main")
      /\ UNCHANGED <<hookVars, processed, dbVars, cur, todo, left, changes>>

WriteApplicationFile ==
  LET f == [type |-> "application", app |-> cur[1]]
      written == ok /\ ServicesOf[Hook(cur[1])] # {}
  IN  /\ phase = "main"
      /\ \/ written /\ Write(f, hooks[cur[1]]) /\ NoFault /\ UNCHANGED ok
         \/ written /\ WriteIsCut(f, hooks[cur[1]]) /\ Fault /\ UNCHANGED ok
         \/ written /\ WriteFails(f) /\ ok' = FALSE /\ Fault
         \/ ~written /\ NoFault /\ UNCHANGED <<fileVars, ok>>
      /\ Goto("mark")
      /\ UNCHANGED <<hookVars, processed, links, dbVars, cur, todo, left, changes>>

\* A mutant of Marked: the result of writeFiles is not looked at.
AlwaysMarked == TRUE

Marked == ok

\* The .processed file, with the time of the link; it may fail to open.
MarkProcessed ==
  /\ phase = "mark"
  /\ \/ Marked /\ processed' = [processed EXCEPT ![Hook(cur[1])] = linkTime[cur[1]]] /\ NoFault
     \/ Marked /\ Fault /\ UNCHANGED processed
     \/ ~Marked /\ NoFault /\ UNCHANGED processed
  /\ Goto("hooks") /\ cur' = <<>>
  /\ UNCHANGED <<hookVars, diskVars, dbVars, todo, left, ok, changes>>

EndRun ==
  /\ phase = "hooks" /\ todo = {}
  /\ Goto("idle")
  /\ UNCHANGED <<hookVars, processed, diskVars, dbVars, runVars, envVars>>

\* The file that writeXmlFile may have open.
OpenFiles ==
  CASE phase = "services" -> {[type |-> "service", app |-> cur[1], provider |-> p] : p \in left}
    [] phase = "plugin" -> {[type |-> "provider", app |-> cur[1]]}
    [] phase = "main" -> {[type |-> "application", app |-> cur[1]]}
    [] OTHER -> {}

\* The process is killed, between two steps or with a file open.
Crash ==
  /\ phase # "idle" /\ Fault
  /\ \/ UNCHANGED fileVars
        /\ links' \in {links} \union (IF phase = "plugin" THEN {links \ {cur[1]}} ELSE {})
     \/ /\ \E f \in OpenFiles :
             CutShort(f, hooks[cur[1]]) /\ fate' = [fate EXCEPT ![f] = "failed"]
        /\ links' = IF phase = "plugin" THEN links \union {cur[1]} ELSE links
  /\ Goto("idle") /\ cur' = <<>> /\ todo' = {} /\ left' = {} /\ ok' = TRUE
  /\ UNCHANGED <<hookVars, processed, dbVars, changes>>

Environment ==
  \/ \E app \in App : Remove(app) \/ \E v \in Version : Install(app, v)
  \/ \E a \in Account : CreateAccount(a) \/ SwitchOnOff(a) \/ \E app \in App : EnableService(a, app)

RemoveStale ==
  \/ \E f \in File : RemoveStaleFile(f) \/ \E a \in Account : DisableService(f, a) \/ RemoveAccount(f, a)
  \/ RemoveApp \/ NextDirectory \/ ListHooks
  \/ \E h \in App \X Version : RemoveStaleTimestamp(h)

Publish ==
  \/ \E app \in App : SkipHook(app) \/ WriteFiles(app)
  \/ \E p \in Provider : WriteServiceFile(p)
  \/ ServicesWritten \/ WritePlugins \/ WriteApplicationFile \/ MarkProcessed

Next == Environment \/ StartRun \/ RemoveStale \/ Publish \/ EndRun \/ Crash

Spec == Init /\ [][Next]_vars

-----------------------------------------------------------------------------
(***************************************************************************)
(* Properties.                                                             *)
(***************************************************************************)

\* Type invariant of the files, the database and the run.
TypeOK ==
  /\ hooks \in [App -> Version \union {0}] /\ linkTime \in [App -> 0..MaxChanges]
  /\ processed \in [App \X Version -> 0..MaxChanges]
  /\ files \in [File -> Version \union {0}] /\ broken \subseteq File /\ nameless \subseteq broken
  /\ fate \in [File -> {"whole", "cut", "failed"}] /\ links \subseteq App
  /\ accounts \subseteq Account /\ off \subseteq accounts
  /\ enabled \subseteq accounts \X App /\ acl \subseteq Account \X App
  /\ phase \in {"idle", "service", "acl", "provider", "application", "timestamps",
                "hooks", "services", "plugin", "main", "mark"}
  /\ cur \in {<<>>} \union {<<app>> : app \in App} \union (App \X Account) /\ todo \subseteq App
  /\ left \subseteq Provider /\ ok \in BOOLEAN /\ clean \in BOOLEAN
  /\ changes \in 0..MaxChanges /\ faults \in 0..MaxFaults

\* The files a manifest stands for.
FilesOf(h) ==
  {[type |-> "service", app |-> h[1], provider |-> p] : p \in ServicesOf[h]}
  \union (IF HasPlugin[h] THEN {[type |-> "provider", app |-> h[1]]} ELSE {})
  \union (IF ServicesOf[h] # {} THEN {[type |-> "application", app |-> h[1]]} ELSE {})

ProviderFile(app) == [type |-> "provider", app |-> app]

\* The whole file of the application's version.
IsPublished(f) == files[f] = hooks[f.app] /\ f \notin broken

\* So it seems to the hook when the disk is full.
SeemsPublished(f) == IsPublished(f) \/ fate[f] = "cut"

Published(app) ==
  /\ \A f \in FilesOf(Hook(app)) : SeemsPublished(f)
  /\ HasPlugin[Hook(app)] => app \in links

\* However the runs before it failed or were killed, a run that completes has
\* published every manifest, but for the files a full disk cut unnoticed, and
\* removed the files of every application that is gone.
CompleteRunPublishes ==
  (phase = "idle" /\ clean) =>
    \A app \in App : IF hooks[app] # 0 THEN Published(app)
                                       ELSE \A f \in File : f.app = app => files[f] = 0

\* A link that a run skips as processed has its files on disk, of its version
\* and whole, whatever was killed or failed in the meantime; but for the files
\* a full disk cut unnoticed.
ProcessedIsPublished ==
  \A app \in App : (hooks[app] # 0 /\ UpToDate(app)) => Published(app)

\* What writeFiles() is for and a full disk breaks: a manifest that is marked
\* as processed has all its files.
ProcessedIsWhole ==
  \A app \in App : (hooks[app] # 0 /\ UpToDate(app)) =>
    \A f \in FilesOf(Hook(app)) : IsPublished(f)

\* A run takes nothing from an application that has a link, one that is being
\* upgraded for instance: not the accounts of its plugin, unless the file of
\* the provider was cut or removed by a failure; no service that is enabled in
\* an account that stays; no place in the ACL of an account.
UpgradeKeepsAccess ==
  [][phase # "idle" =>
       /\ \A a \in accounts \ accounts' :
            /\ ProviderOf[a] \in App
            /\ hooks[ProviderOf[a]] = 0 \/ fate[ProviderFile(ProviderOf[a])] # "whole"
       /\ \A e \in enabled \ enabled' : e[1] \in accounts' => hooks[e[2]] = 0
       /\ \A t \in acl \ acl' : hooks[t[2]] = 0]_vars

\* No account of an application's plugin outlives it by a complete run...
AccountsGoWithProvider ==
  (phase = "idle" /\ clean) => \A a \in accounts : ProviderOf[a] \in App => hooks[ProviderOf[a]] # 0

\* ...unless the last writing of the provider's file failed, was cut or was
\* killed; a removal may be killed between any two of its accounts.
NoOrphanAccounts ==
  (phase = "idle" /\ clean) =>
    \A a \in accounts : (ProviderOf[a] \in App /\ fate[ProviderFile(ProviderOf[a])] = "whole") =>
      hooks[ProviderOf[a]] # 0

\* Unless signond failed or a run was killed, a gone application is no longer
\* in the ACL of any account, switched off ones excepted.
GoneLosesAccess ==
  (phase = "idle" /\ clean /\ faults = 0) =>
    \A a \in accounts \ MayBeOff, app \in App : <<a, app>> \in acl => hooks[app] # 0

\* What the comments and tests say that the code does not always do, with
\* AccountsGoWithProvider: after a complete run no service of an application
\* that is gone is enabled in any account,
GoneIsDisabled ==
  (phase = "idle" /\ clean) => \A e \in enabled : hooks[e[2]] # 0

\* and the other applications keep their access.
OthersKeepAccess ==
  [][\A t \in acl \ acl' : phase = "acl" => hooks[t[2]] = 0]_vars

=============================================================================
