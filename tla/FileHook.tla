------------------------------ MODULE FileHook ------------------------------
(***************************************************************************)
(* online-accounts-hooks (click-hooks/main.cpp), the first version of the  *)
(* hook: click links the files <app>_<version>.<type> of a package in one  *)
(* directory, and a run copies each, with its profile, to                  *)
(* accounts/<type>s/<app>.<type>.  There is no .processed file: the copy   *)
(* is given the time of the link, and is up to date when the times agree.  *)
(* Times are in seconds.  A run may be killed between any two steps.  The  *)
(* mark that makes a copy ours is the last thing in it: one that is cut is *)
(* ignored like an empty one.                                              *)
(***************************************************************************)
EXTENDS Naturals

CONSTANTS
  App,          \* short application IDs; a provider file makes it a provider
  Types,        \* the file types in use, of "provider", "service"...
  Version,      \* versions of the packages: 1, 2...
  Malformed,    \* <<file, version>> whose file is not valid XML
  Account,      \* account IDs
  ProviderOf,   \* account -> app
  MaxChanges,   \* bound on the links made and removed
  MaxFaults     \* bound on the failures and crashes

ASSUME FileHookAssumption ==
  /\ Types \subseteq {"provider", "service", "service-type", "application"}
  /\ "provider" \in Types
  /\ Version \subseteq Nat \ {0}
  /\ ProviderOf \in [Account -> App]
  /\ MaxChanges \in Nat /\ MaxFaults \in Nat

File == [type : Types, app : App]

VARIABLES
  hooks,      \* file -> version of its link, 0 if there is none
  linkTime,   \* file -> modification time of that link
  files,      \* file -> version in the <profile> of its copy, 0 if it has none
  broken,     \* copies that are empty or cut
  fileTime,   \* file -> modification time of its copy, 0 if another second
  accounts,   \* accounts in the database
  phase, cur, \* what a run does, and for which file
  todo,       \* links it has not looked at
  changes, faults,
  exposed,    \* copies opened in the second of their link, or cut by a full disk
  clean       \* the last run began after the last change, and had no fault

diskVars == <<files, broken, fileTime, exposed>>
hookVars == <<hooks, linkTime>>
vars == <<hookVars, diskVars, accounts, phase, cur, todo, changes, faults, clean>>

Init ==
  /\ hooks = [f \in File |-> 0] /\ linkTime = [f \in File |-> 0]
  /\ files = [f \in File |-> 0] /\ broken = {} /\ fileTime = [f \in File |-> 0]
  /\ exposed = {}
  /\ accounts = {} /\ phase = "idle" /\ cur = {} /\ todo = {}
  /\ changes = 0 /\ faults = 0 /\ clean = FALSE

Exists(f) == files[f] # 0 \/ f \in broken
Fault == faults < MaxFaults /\ faults' = faults + 1 /\ clean' = FALSE
Delete(f) == files' = [files EXCEPT ![f] = 0] /\ broken' = broken \ {f}

-----------------------------------------------------------------------------
(***************************************************************************)
(* Click, and the user, between two runs.                                  *)
(***************************************************************************)
Link(f, v) ==
  /\ phase = "idle" /\ changes < MaxChanges
  /\ hooks[f] # v
  /\ hooks' = [hooks EXCEPT ![f] = v]
  /\ linkTime' = [linkTime EXCEPT ![f] = changes + 1]
  /\ changes' = changes + 1 /\ clean' = FALSE
  /\ UNCHANGED <<diskVars, accounts, phase, cur, todo, faults>>

CreateAccount(a) ==
  /\ phase = "idle" /\ a \notin accounts
  /\ files[[type |-> "provider", app |-> ProviderOf[a]]] # 0
  /\ accounts' = accounts \union {a}
  /\ UNCHANGED <<hookVars, diskVars, phase, cur, todo, changes, faults, clean>>

-----------------------------------------------------------------------------
(***************************************************************************)
(* A run: removeStaleFiles.                                                *)
(***************************************************************************)
StartRun ==
  /\ phase = "idle"
  /\ phase' = "stale" /\ clean' = TRUE
  /\ UNCHANGED <<hookVars, diskVars, accounts, cur, todo, changes, faults>>

\* A mutant of Stale: any file of the application keeps all of its copies.
AppIsGone(f) == files[f] # 0 /\ \A g \in File : g.app = f.app => hooks[g] = 0

\* A copy that is not ours to createdByUs(), an empty one too, is ignored.
Stale(f) == files[f] # 0 /\ hooks[f] = 0

\* Providers are the first directory: their files go before any other.
RemoveStaleFile(f) ==
  /\ phase = "stale" /\ Stale(f)
  /\ f.type # "provider" => ~\E g \in File : g.type = "provider" /\ Stale(g)
  /\ Delete(f)
  /\ IF f.type = "provider" THEN phase' = "accounts" /\ cur' = {f}
                            ELSE UNCHANGED <<phase, cur>>
  /\ UNCHANGED <<hookVars, fileTime, exposed, accounts, todo, changes, faults, clean>>

AccountsOfCur == {a \in accounts : \E f \in cur : ProviderOf[a] = f.app}

RemoveStaleAccounts ==
  /\ phase = "accounts"
  /\ \/ \E a \in AccountsOfCur : accounts' = accounts \ {a} /\ UNCHANGED <<phase, cur>>
     \/ AccountsOfCur = {} /\ phase' = "stale" /\ cur' = {} /\ UNCHANGED accounts
  /\ UNCHANGED <<hookVars, diskVars, todo, changes, faults, clean>>

ListHooks ==
  /\ phase = "stale" /\ ~\E f \in File : Stale(f)
  /\ phase' = "hooks" /\ todo' = {f \in File : hooks[f] # 0}
  /\ UNCHANGED <<hookVars, diskVars, accounts, cur, changes, faults, clean>>

-----------------------------------------------------------------------------
(***************************************************************************)
(* A run: the links.                                                       *)
(***************************************************************************)
\* A mutant of UpToDate: a copy made from an older link will do.
JustExists(f) == Exists(f)

UpToDate(f) == Exists(f) /\ fileTime[f] = linkTime[f]

IsMalformed(f) == <<f, hooks[f]>> \in Malformed

SkipHook(f) ==
  /\ phase = "hooks" /\ f \in todo
  /\ UpToDate(f) \/ IsMalformed(f)
  /\ todo' = todo \ {f}
  /\ UNCHANGED <<hookVars, diskVars, accounts, phase, cur, changes, faults, clean>>

\* writeTo() opens the copy, which empties it, or cannot; it may do so in the
\* second in which the link was made.
Open(f) ==
  /\ phase = "hooks" /\ f \in todo
  /\ ~UpToDate(f) /\ ~IsMalformed(f)
  /\ todo' = todo \ {f}
  /\ \/ /\ files' = [files EXCEPT ![f] = 0] /\ broken' = broken \union {f}
        /\ \/ fileTime' = [fileTime EXCEPT ![f] = 0] /\ exposed' = exposed \ {f}
           \/ fileTime' = [fileTime EXCEPT ![f] = linkTime[f]] /\ exposed' = exposed \union {f}
        /\ phase' = "write" /\ cur' = {f} /\ UNCHANGED <<faults, clean>>
     \/ Fault /\ UNCHANGED <<diskVars, phase, cur>>
  /\ UNCHANGED <<hookVars, accounts, changes>>

\* It is written and closed; or write() itself fails and the copy is removed;
\* or the disk is full, which neither write() > 0 nor the close() that nobody
\* looks at tells: the copy is cut, and is given the time of a whole one.
WriteTo(f) ==
  /\ phase = "write" /\ cur = {f}
  /\ \/ /\ files' = [files EXCEPT ![f] = hooks[f]] /\ broken' = broken \ {f}
        /\ phase' = "utime" /\ UNCHANGED <<cur, exposed, faults, clean>>
     \/ Delete(f) /\ phase' = "hooks" /\ cur' = {} /\ Fault /\ UNCHANGED exposed
     \/ exposed' = exposed \union {f} /\ phase' = "utime" /\ Fault /\ UNCHANGED <<files, broken, cur>>
  /\ UNCHANGED <<hookVars, fileTime, accounts, todo, changes>>

SetTime(f) ==
  /\ phase = "utime" /\ cur = {f}
  /\ fileTime' = [fileTime EXCEPT ![f] = linkTime[f]]
  /\ phase' = "hooks" /\ cur' = {}
  /\ UNCHANGED <<hookVars, files, broken, exposed, accounts, todo, changes, faults, clean>>

EndRun ==
  /\ phase = "hooks" /\ todo = {}
  /\ phase' = "idle"
  /\ UNCHANGED <<hookVars, diskVars, accounts, cur, todo, changes, faults, clean>>

Crash ==
  /\ phase # "idle" /\ Fault
  /\ phase' = "idle" /\ cur' = {} /\ todo' = {}
  /\ UNCHANGED <<hookVars, diskVars, accounts, changes>>

Next ==
  \/ \E f \in File : RemoveStaleFile(f) \/ SkipHook(f) \/ Open(f) \/ WriteTo(f) \/ SetTime(f)
  \/ \E f \in File, v \in Version \union {0} : Link(f, v)
  \/ \E a \in Account : CreateAccount(a)
  \/ StartRun \/ RemoveStaleAccounts \/ ListHooks \/ EndRun \/ Crash

Spec == Init /\ [][Next]_vars

-----------------------------------------------------------------------------
(***************************************************************************)
(* Properties.                                                             *)
(***************************************************************************)

\* Type invariant; a run that writes works on one file, and only an account
\* of its own may be written while a file is.
TypeOK ==
  /\ hooks \in [File -> Version \union {0}] /\ linkTime \in [File -> 0..MaxChanges]
  /\ files \in [File -> Version \union {0}] /\ broken \subseteq File /\ exposed \subseteq File
  /\ fileTime \in [File -> 0..MaxChanges] /\ accounts \subseteq Account
  /\ phase \in {"idle", "stale", "accounts", "hooks", "write", "utime"}
  /\ cur \in SUBSET File /\ todo \subseteq File /\ clean \in BOOLEAN
  /\ (phase \in {"accounts", "write", "utime"}) = (cur # {})
  /\ changes \in 0..MaxChanges /\ faults \in 0..MaxFaults

\* A copy that a later run would take for a whole one, although it is not: it
\* was emptied in the second of its link, or cut by a full disk.
CutUnseen(f) == f \in broken \intersect exposed

\* However earlier runs failed, a run that completes has made every copy from
\* its present link, and removed the copies that have none: it leaves out the
\* malformed files, and the copies that an earlier run cut unseen.
CompleteRunPublishes ==
  (phase = "idle" /\ clean) =>
    \A f \in File : files[f] = hooks[f] \/ IsMalformed(f) \/ (hooks[f] # 0 /\ CutUnseen(f))

\* A copy that a run takes for up to date is whole and of the right version,
\* unless an earlier run cut it unseen: nothing else that fails, or is killed
\* before the time is set, makes a copy look like its link.
UpToDateIsPublished ==
  \A f \in File :
    (hooks[f] # 0 /\ UpToDate(f) /\ f \notin cur) => files[f] = hooks[f] \/ CutUnseen(f)

\* No account of a provider outlives it by a complete run...
AccountsGoWithProvider ==
  (phase = "idle" /\ clean) =>
    \A a \in accounts : hooks[[type |-> "provider", app |-> ProviderOf[a]]] # 0

\* ...as long as no write failed and no run was killed.
NoOrphanAccounts == faults = 0 => AccountsGoWithProvider

=============================================================================
