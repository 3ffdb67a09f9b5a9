------------------------- MODULE ManifestHookProofs -------------------------
(***************************************************************************)
(* Machine-checked proofs about ManifestHook, for every set of             *)
(* applications, providers, versions and accounts, and any number of       *)
(* changes, failures and crashes: what a completed run leaves on disk and  *)
(* in the database, and what it never takes.                               *)
(***************************************************************************)
EXTENDS ManifestHook, TLAPS

ServiceOf(app, p) == [type |-> "service", app |-> app, provider |-> p]
OtherOf(t, app) == [type |-> t, app |-> app]

\* writeFiles is at work for the application in cur.
Writing == phase \in {"services", "plugin", "main", "mark"}

\* removeStaleFiles is done with the files of type t.
Passed(t) == \/ phase \in {"timestamps", "hooks"}
             \/ phase = "application" /\ t # "application"
             \/ phase = "provider" /\ t = "service"

(***************************************************************************)
(* The inductive invariant, part by part.                                  *)
(***************************************************************************)
\* A .processed file is never newer than the last change, and every link has
\* the time of a change: a link just installed is not up to date.
TimesOK ==
  /\ \A h \in App \X Version : processed[h] <= changes
  /\ \A app \in App : hooks[app] # 0 => linkTime[app] >= 1 /\ linkTime[app] <= changes

\* The links still to look at are there, and only a run has any.
TodoOK ==
  \A app \in todo : hooks[app] # 0 /\ (phase = "hooks" \/ Writing)

\* writeFiles works for a link that is not up to date, and an application is
\* taken from an ACL because it is gone.
CurOK ==
  /\ Writing => \E app \in App : cur = <<app>> /\ hooks[app] # 0 /\ ~UpToDate(app)
  /\ phase = "acl" => \E app \in App, a \in Account : cur = <<app, a>> /\ hooks[app] = 0

\* What writeFiles has written so far, if nothing failed.
WrittenOK ==
  (Writing /\ ok) =>
    LET app == cur[1]  h == Hook(app)
    IN  /\ \A p \in ServicesOf[h] :
             (phase = "services" => p \notin left) => SeemsPublished(ServiceOf(app, p))
        /\ (HasPlugin[h] /\ phase \in {"main", "mark"}) =>
             SeemsPublished(OtherOf("provider", app)) /\ app \in links
        /\ (ServicesOf[h] # {} /\ phase = "mark") =>
             SeemsPublished(OtherOf("application", app))

\* Only a writing that failed, was cut or was killed leaves a broken file, and
\* without a fault there was none.
FateOK ==
  /\ \A f \in broken : fate[f] # "whole"
  /\ faults = 0 => \A f \in File : fate[f] = "whole"

\* The files of the applications that are gone are gone.
SweptOK ==
  \A f \in File :
    (hooks[f.app] = 0 /\ (Passed(f.type) \/ Writing \/ (phase = "idle" /\ clean)))
      => files[f] = 0

\* A run without a fault has published every link it is done with.
DoneOK ==
  /\ (clean /\ Writing) => ok
  /\ clean =>
       \A app \in App \ todo :
         (hooks[app] # 0 /\ (phase \in {"idle", "hooks"} \/ (Writing /\ app # cur[1])))
           => Published(app)

\* A provider that has accounts keeps its file, unless a writing of it failed,
\* was cut or was killed.
ProviderKept ==
  \A a \in accounts : ProviderOf[a] \in App =>
    LET f == OtherOf("provider", ProviderOf[a]) IN files[f] # 0 \/ fate[f] # "whole"

\* Without a fault, who is in an ACL has its service enabled and on disk, or
\* is about to be removed from it.
AccessKept ==
  /\ off \subseteq MayBeOff
  /\ faults = 0 =>
       \A a \in accounts \ MayBeOff, app \in App :
         <<a, app>> \in acl =>
           \/ <<a, app>> \in enabled /\ files[ServiceOf(app, ProviderOf[a])] # 0
           \/ phase = "acl" /\ cur = <<app, a>>

IInv ==
  /\ TypeOK /\ TimesOK /\ TodoOK /\ CurOK /\ FateOK /\ WrittenOK /\ SweptOK /\ DoneOK
  /\ ProcessedIsPublished /\ ProviderKept /\ AccessKept

-----------------------------------------------------------------------------
(***************************************************************************)
(* The kinds of files, and the steps.                                      *)
(***************************************************************************)
LEMMA FileKinds ==
  /\ \A app \in App, p \in Provider :
       /\ ServiceOf(app, p) \in File /\ ServiceOf(app, p).type = "service"
       /\ ServiceOf(app, p).app = app /\ ServiceOf(app, p).provider = p
  /\ \A t \in {"provider", "application"}, app \in App :
       OtherOf(t, app) \in File /\ OtherOf(t, app).type = t /\ OtherOf(t, app).app = app
  /\ \A f \in File :
       /\ f.app \in App /\ f.type \in {"service", "provider", "application"}
       /\ f.type = "service" => f.provider \in Provider /\ f = ServiceOf(f.app, f.provider)
       /\ f.type # "service" => f = OtherOf(f.type, f.app)
  BY DEF File, ServiceFile, OtherFile, ServiceOf, OtherOf

-----------------------------------------------------------------------------
(***************************************************************************)
(* Type correctness.                                                       *)
(***************************************************************************)
HookType ==
  /\ hooks \in [App -> Version \union {0}] /\ linkTime \in [App -> 0..MaxChanges]
  /\ processed \in [App \X Version -> 0..MaxChanges] /\ changes \in 0..MaxChanges

DiskType ==
  /\ files \in [File -> Version \union {0}] /\ broken \subseteq File /\ nameless \subseteq broken
  /\ fate \in [File -> {"whole", "cut", "failed"}] /\ links \subseteq App

DbType ==
  /\ accounts \subseteq Account /\ off \subseteq accounts
  /\ enabled \subseteq accounts \X App /\ acl \subseteq Account \X App

RunType ==
  /\ phase \in {"idle", "service", "acl", "provider", "application", "timestamps",
                "hooks", "services", "plugin", "main", "mark"}
  /\ cur \in {<<>>} \union {<<app>> : app \in App} \union (App \X Account) /\ todo \subseteq App
  /\ left \subseteq Provider /\ ok \in BOOLEAN

FaultType == clean \in BOOLEAN /\ faults \in 0..MaxFaults

LEMMA TypeSplit ==
  /\ TypeOK <=> HookType /\ DiskType /\ DbType /\ RunType /\ FaultType
  /\ TypeOK' <=> HookType' /\ DiskType' /\ DbType' /\ RunType' /\ FaultType'
  BY DEF TypeOK, HookType, DiskType, DbType, RunType, FaultType

\* A failure is counted; without one nothing is.
LEMMA FaultCounted ==
  ASSUME FaultType
  PROVE  /\ (Fault \/ NoFault) => FaultType'
         /\ Fault => faults' # 0 /\ clean' = FALSE
<1>1. Fault => faults' \in 0..MaxFaults /\ faults' # 0
  BY HookAssumption DEF FaultType, Fault
<1>2. Fault => clean' = FALSE
  BY DEF Fault
<1>3. NoFault => faults' = faults /\ clean' = clean
  BY DEF NoFault
<1> QED
  BY <1>1, <1>2, <1>3, Zenon DEF FaultType

\* The ways in which a step touches a file.
Touched(f, v) ==
  \/ Write(f, v) \/ WriteFails(f) \/ WriteIsCut(f, v)
  \/ Unlink(f) /\ fate' = fate
  \/ CutShort(f, v) /\ fate' = [fate EXCEPT ![f] = "failed"]

\* A step that leaves the file g as it is.
Same(g) ==
  /\ files'[g] = files[g] /\ fate'[g] = fate[g]
  /\ (g \in broken' <=> g \in broken) /\ (g \in nameless' <=> g \in nameless)

\* A file that is touched, and the others.
LEMMA FileWritten ==
  ASSUME DiskType, NEW f \in File, NEW v \in Version \union {0}, Touched(f, v),
         links' \subseteq App
  PROVE  /\ DiskType'
         /\ \A g \in File : g # f => Same(g)
         /\ Write(f, v) => files'[f] = v /\ f \notin broken' /\ fate'[f] = "whole"
         /\ WriteIsCut(f, v) => fate'[f] = "cut"
         /\ WriteFails(f) => Same(f) \/ fate'[f] = "failed"
         /\ fate' = [fate EXCEPT ![f] = "failed"] => fate'[f] = "failed"
<1> DEFINE Others == \A g \in File : g # f => Same(g)
<1>1. ASSUME CutShort(f, v)
      PROVE  /\ files' \in [File -> Version \union {0}]
             /\ broken' \subseteq File /\ nameless' \subseteq broken'
             /\ \A g \in File : g # f => /\ files'[g] = files[g]
                                      /\ (g \in broken' <=> g \in broken)
                                      /\ (g \in nameless' <=> g \in nameless)
  BY <1>1 DEF CutShort, DiskType
<1>2. ASSUME Unlink(f)
      PROVE  /\ files' \in [File -> Version \union {0}]
             /\ broken' \subseteq File /\ nameless' \subseteq broken'
             /\ \A g \in File : g # f => /\ files'[g] = files[g]
                                      /\ (g \in broken' <=> g \in broken)
                                      /\ (g \in nameless' <=> g \in nameless)
  BY <1>2 DEF Unlink, DiskType
<1>3. ASSUME NEW r \in {"whole", "cut", "failed"}, fate' = [fate EXCEPT ![f] = r]
      PROVE  /\ fate' \in [File -> {"whole", "cut", "failed"}] /\ fate'[f] = r
             /\ \A g \in File : g # f => fate'[g] = fate[g]
  BY <1>3 DEF DiskType
<1>4. CASE Write(f, v)
  <2>1. DiskType' /\ Others /\ files'[f] = v /\ f \notin broken' /\ fate'[f] = "whole"
    BY <1>4 DEF Write, DiskType, Same
  <2>2. WriteIsCut(f, v) => fate'[f] = "cut"
    BY <1>3 DEF WriteIsCut
  <2>3. WriteFails(f) => Same(f) \/ fate'[f] = "failed"
    BY <1>3 DEF WriteFails, fileVars, Same
  <2> QED
    BY <1>3, <2>1, <2>2, <2>3
<1>5. CASE UNCHANGED fileVars
  BY <1>5 DEF fileVars, DiskType, Same, Write, WriteIsCut
<1>6. CASE CutShort(f, v) /\ fate' = [fate EXCEPT ![f] = "cut"]
  BY <1>1, <1>3, <1>6 DEF DiskType, Same, Write, WriteIsCut, WriteFails, fileVars
<1>7. CASE CutShort(f, v) /\ fate' = [fate EXCEPT ![f] = "failed"]
  BY <1>1, <1>3, <1>7 DEF DiskType, Same, Write, WriteIsCut, WriteFails, fileVars
<1>8. CASE Unlink(f) /\ fate' = [fate EXCEPT ![f] = "failed"]
  BY <1>2, <1>3, <1>8 DEF DiskType, Same, Write, WriteIsCut, WriteFails, fileVars
<1>9. CASE Unlink(f) /\ fate' = fate
  BY <1>2, <1>3, <1>9 DEF DiskType, Same, Write, WriteIsCut, WriteFails, fileVars
<1> QED
  BY <1>4, <1>5, <1>6, <1>7, <1>8, <1>9 DEF Touched, WriteIsCut, WriteFails

\* writeFiles works for an application, at a version.
LEMMA CurIsHook ==
  ASSUME HookType, CurOK, Writing
  PROVE  /\ cur[1] \in App /\ cur = <<cur[1]>>
         /\ hooks[cur[1]] \in Version /\ hooks[cur[1]] # 0
         /\ Hook(cur[1]) \in App \X Version /\ ~UpToDate(cur[1])
  BY DEF HookType, CurOK, Hook

\* A file is open when writeFiles is at work for its application.
LEMMA OpenIsWritten ==
  ASSUME HookType, RunType, CurOK, NEW f \in OpenFiles
  PROVE  f \in File /\ f.app = cur[1] /\ Writing
<1>1. CASE Writing
  BY <1>1, CurIsHook, FileKinds DEF OpenFiles, ServiceOf, OtherOf, RunType
<1>2. CASE ~Writing
  BY <1>2 DEF OpenFiles, Writing
<1> QED
  BY <1>1, <1>2

\* Every step keeps the types.
LEMMA TypeStep ==
  ASSUME HookType, DiskType, DbType, RunType, FaultType, CurOK, TodoOK, [Next]_vars
  PROVE  (HookType /\ DiskType /\ DbType /\ RunType /\ FaultType)'
<1>1. ASSUME NEW app \in App, NEW v \in Version, Install(app, v)
      PROVE  (HookType /\ DiskType /\ DbType /\ RunType /\ FaultType)'
  <2>1. DiskType' /\ DbType' /\ RunType'
    BY <1>1
    DEF Install, DiskType, DbType, RunType, hookVars, diskVars, fileVars, dbVars, runVars, envVars
  <2>2. HookType'
    BY <1>1, HookAssumption DEF Install, HookType
  <2>3. FaultType'
    BY <1>1 DEF Install, FaultType
  <2> QED
    BY <2>1, <2>2, <2>3
<1>2. ASSUME NEW app \in App, Remove(app)
      PROVE  (HookType /\ DiskType /\ DbType /\ RunType /\ FaultType)'
  <2>1. DiskType' /\ DbType' /\ RunType'
    BY <1>2
    DEF Remove, DiskType, DbType, RunType, hookVars, diskVars, fileVars, dbVars, runVars, envVars
  <2>2. HookType'
    BY <1>2, HookAssumption DEF Remove, HookType
  <2>3. FaultType'
    BY <1>2 DEF Remove, FaultType
  <2> QED
    BY <2>1, <2>2, <2>3
<1>3. ASSUME NEW a \in Account, CreateAccount(a)
      PROVE  (HookType /\ DiskType /\ DbType /\ RunType /\ FaultType)'
  BY <1>3, HookAssumption, FileKinds
  DEF CreateAccount, Goto, Writing, Hook, HookType, DiskType, DbType, RunType, FaultType,
     hookVars, diskVars, fileVars, dbVars, runVars, envVars
<1>4. ASSUME NEW a \in Account, NEW app \in App, EnableService(a, app)
      PROVE  (HookType /\ DiskType /\ DbType /\ RunType /\ FaultType)'
  BY <1>4, HookAssumption, FileKinds
  DEF EnableService, Goto, Writing, Hook, HookType, DiskType, DbType, RunType, FaultType,
     hookVars, diskVars, fileVars, dbVars, runVars, envVars
<1>5. ASSUME NEW a \in Account, SwitchOnOff(a)
      PROVE  (HookType /\ DiskType /\ DbType /\ RunType /\ FaultType)'
  BY <1>5, HookAssumption, FileKinds
  DEF SwitchOnOff, Goto, Writing, Hook, HookType, DiskType, DbType, RunType, FaultType,
     hookVars, diskVars, fileVars, dbVars, runVars, envVars
<1>6. CASE StartRun
  <2>1. HookType' /\ DiskType' /\ DbType'
    BY <1>6
    DEF StartRun, HookType, DiskType, DbType, hookVars, diskVars, fileVars, dbVars, runVars, envVars
  <2>2. RunType'
    BY <1>6 DEF StartRun, Goto, RunType, runVars
  <2>3. FaultType'
    BY <1>6 DEF StartRun, FaultType
  <2> QED
    BY <2>1, <2>2, <2>3
<1>7. ASSUME NEW f \in File, NEW a \in Account, DisableService(f, a)
      PROVE  (HookType /\ DiskType /\ DbType /\ RunType /\ FaultType)'
  <2>1. HookType' /\ DiskType' /\ FaultType'
    BY <1>7
    DEF DisableService, HookType, DiskType, FaultType, hookVars, diskVars, fileVars, dbVars,
       runVars, envVars
  <2>2. DbType'
    BY <1>7, HookAssumption
    DEF DisableService, DbType, dbVars, Stale, IsService, UsersOf, TokensOf
  <2>3. RunType'
    BY <1>7, FileKinds DEF DisableService, Goto, RunType, Stale
  <2> QED
    BY <2>1, <2>2, <2>3
<1>8. CASE RemoveApp
  <2>1. HookType' /\ DiskType'
    BY <1>8
    DEF RemoveApp, HookType, DiskType, hookVars, diskVars, fileVars, dbVars, runVars,
       envVars
  <2>2. DbType'
    BY <1>8, HookAssumption
    DEF RemoveApp, DbType, dbVars, Stale, IsService, UsersOf, TokensOf
  <2>3. RunType'
    BY <1>8, HookAssumption DEF RemoveApp, Goto, RunType, Hook
  <2>4. FaultType'
    BY <1>8, FaultCounted DEF RemoveApp, envVars
  <2> QED
    BY <2>1, <2>2, <2>3, <2>4
<1>9. ASSUME NEW f \in File, NEW a \in Account, RemoveAccount(f, a)
      PROVE  (HookType /\ DiskType /\ DbType /\ RunType /\ FaultType)'
  BY <1>9, HookAssumption, FileKinds
  DEF RemoveAccount, Goto, Writing, Hook, HookType, DiskType, DbType, RunType, FaultType,
     hookVars, diskVars, fileVars, dbVars, runVars, envVars
<1>10. ASSUME NEW f \in File, RemoveStaleFile(f)
      PROVE  (HookType /\ DiskType /\ DbType /\ RunType /\ FaultType)'
  <2>1. HookType' /\ DbType' /\ RunType' /\ FaultType'
    BY <1>10
    DEF RemoveStaleFile, HookType, DbType, RunType, FaultType, hookVars, diskVars, fileVars,
       dbVars, runVars, envVars
  <2>2. DiskType'
    <3>1. links' \subseteq App /\ 0 \in Version \union {0} /\ Touched(f, 0)
      BY <1>10 DEF RemoveStaleFile, DiskType, Touched
    <3> QED
      BY <3>1, FileWritten
  <2> QED
    BY <2>1, <2>2
<1>11. CASE NextDirectory
  BY <1>11, HookAssumption, FileKinds
  DEF NextDirectory, Goto, Writing, Hook, HookType, DiskType, DbType, RunType, FaultType,
     hookVars, diskVars, fileVars, dbVars, runVars, envVars
<1>12. ASSUME NEW h \in App \X Version, RemoveStaleTimestamp(h)
      PROVE  (HookType /\ DiskType /\ DbType /\ RunType /\ FaultType)'
  BY <1>12, HookAssumption, FileKinds
  DEF RemoveStaleTimestamp, Goto, Writing, Hook, HookType, DiskType, DbType, RunType,
     FaultType, hookVars, diskVars, fileVars, dbVars, runVars, envVars
<1>13. CASE ListHooks
  BY <1>13, HookAssumption, FileKinds
  DEF ListHooks, Goto, Writing, Hook, HookType, DiskType, DbType, RunType, FaultType,
     hookVars, diskVars, fileVars, dbVars, runVars, envVars
<1>14. ASSUME NEW app \in App, SkipHook(app)
      PROVE  (HookType /\ DiskType /\ DbType /\ RunType /\ FaultType)'
  BY <1>14, HookAssumption, FileKinds
  DEF SkipHook, Goto, Writing, Hook, HookType, DiskType, DbType, RunType, FaultType,
     hookVars, diskVars, fileVars, dbVars, runVars, envVars
<1>15. ASSUME NEW app \in App, WriteFiles(app)
      PROVE  (HookType /\ DiskType /\ DbType /\ RunType /\ FaultType)'
  <2>1. HookType' /\ DiskType' /\ DbType' /\ FaultType'
    BY <1>15
    DEF WriteFiles, HookType, DiskType, DbType, FaultType, hookVars, diskVars, fileVars, dbVars,
       runVars, envVars
  <2>2. RunType'
    <3>1. Hook(app) \in App \X Version
      BY <1>15 DEF WriteFiles, HookType, TodoOK, Hook
    <3> QED
      BY <1>15, <3>1, HookAssumption DEF WriteFiles, Goto, RunType
  <2> QED
    BY <2>1, <2>2
<1>16. ASSUME NEW p \in Provider, WriteServiceFile(p)
      PROVE  (HookType /\ DiskType /\ DbType /\ RunType /\ FaultType)'
  <2>1. HookType' /\ DbType'
    BY <1>16
    DEF WriteServiceFile, HookType, DbType, hookVars, diskVars, fileVars, dbVars, runVars, envVars
  <2>2. DiskType'
    <3>1. /\ ServiceOf(cur[1], p) \in File /\ links' \subseteq App
          /\ hooks[cur[1]] \in Version \union {0}
      BY <1>16, CurIsHook, FileKinds DEF WriteServiceFile, Writing, DiskType
    <3>2. \/ Touched(ServiceOf(cur[1], p), hooks[cur[1]])
          \/ UNCHANGED fileVars
      BY <1>16 DEF WriteServiceFile, Touched, ServiceOf
    <3>3. UNCHANGED fileVars => DiskType'
      BY <3>1 DEF fileVars, DiskType
    <3> QED
      BY <3>1, <3>2, <3>3, FileWritten
  <2>3. RunType'
    BY <1>16, HookAssumption DEF WriteServiceFile, Goto, RunType, Hook
  <2>4. FaultType'
    BY <1>16, FaultCounted DEF WriteServiceFile, envVars
  <2> QED
    BY <2>1, <2>2, <2>3, <2>4
<1>17. CASE ServicesWritten
  BY <1>17, HookAssumption, FileKinds
  DEF ServicesWritten, Goto, Writing, Hook, HookType, DiskType, DbType, RunType,
     FaultType, hookVars, diskVars, fileVars, dbVars, runVars, envVars
<1>18. CASE WritePlugins
  <2>1. HookType' /\ DbType'
    BY <1>18
    DEF WritePlugins, HookType, DbType, hookVars, diskVars, fileVars, dbVars, runVars, envVars
  <2>2. DiskType'
    <3>1. /\ OtherOf("provider", cur[1]) \in File /\ links' \subseteq App
          /\ hooks[cur[1]] \in Version \union {0}
      BY <1>18, CurIsHook, FileKinds DEF WritePlugins, Writing, DiskType
    <3>2. \/ Touched(OtherOf("provider", cur[1]), hooks[cur[1]])
          \/ UNCHANGED fileVars
      BY <1>18 DEF WritePlugins, Touched, OtherOf
    <3>3. UNCHANGED fileVars => DiskType'
      BY <3>1 DEF fileVars, DiskType
    <3> QED
      BY <3>1, <3>2, <3>3, FileWritten
  <2>3. RunType'
    BY <1>18, HookAssumption DEF WritePlugins, Goto, RunType, Hook
  <2>4. FaultType'
    BY <1>18, FaultCounted DEF WritePlugins, envVars
  <2> QED
    BY <2>1, <2>2, <2>3, <2>4
<1>19. CASE WriteApplicationFile
  <2>1. HookType' /\ DbType'
    BY <1>19
    DEF WriteApplicationFile, HookType, DbType, hookVars, diskVars, fileVars, dbVars, runVars,
       envVars
  <2>2. DiskType'
    <3>1. /\ OtherOf("application", cur[1]) \in File /\ links' \subseteq App
          /\ hooks[cur[1]] \in Version \union {0}
      BY <1>19, CurIsHook, FileKinds DEF WriteApplicationFile, Writing, DiskType
    <3>2. \/ Touched(OtherOf("application", cur[1]), hooks[cur[1]])
          \/ UNCHANGED fileVars
      BY <1>19 DEF WriteApplicationFile, Touched, OtherOf
    <3>3. UNCHANGED fileVars => DiskType'
      BY <3>1 DEF fileVars, DiskType
    <3> QED
      BY <3>1, <3>2, <3>3, FileWritten
  <2>3. RunType'
    BY <1>19, HookAssumption DEF WriteApplicationFile, Goto, RunType, Hook
  <2>4. FaultType'
    BY <1>19, FaultCounted DEF WriteApplicationFile, envVars
  <2> QED
    BY <2>1, <2>2, <2>3, <2>4
<1>20. CASE MarkProcessed
  <2>1. DiskType' /\ DbType'
    BY <1>20
    DEF MarkProcessed, DiskType, DbType, hookVars, diskVars, fileVars, dbVars, runVars, envVars
  <2>2. HookType'
    <3>1. Hook(cur[1]) \in App \X Version /\ linkTime[cur[1]] \in 0..MaxChanges
      BY <1>20, CurIsHook DEF MarkProcessed, Writing, HookType
    <3> QED
      BY <1>20, <3>1 DEF MarkProcessed, HookType, hookVars
  <2>3. RunType'
    BY <1>20, HookAssumption DEF MarkProcessed, Goto, RunType, Hook
  <2>4. FaultType'
    BY <1>20, FaultCounted DEF MarkProcessed, envVars
  <2> QED
    BY <2>1, <2>2, <2>3, <2>4
<1>21. CASE EndRun
  BY <1>21, HookAssumption, FileKinds
  DEF EndRun, Goto, Writing, Hook, HookType, DiskType, DbType, RunType, FaultType,
     hookVars, diskVars, fileVars, dbVars, runVars, envVars
<1>22. CASE Crash
  <2>1. HookType' /\ DbType'
    BY <1>22
    DEF Crash, HookType, DbType, hookVars, diskVars, fileVars, dbVars, runVars, envVars
  <2>2. DiskType'
    <3>1. links' \subseteq App
      BY <1>22, CurIsHook DEF Crash, DiskType, Writing
    <3>2. CASE UNCHANGED fileVars
      BY <3>1, <3>2 DEF fileVars, DiskType
    <3>3. ASSUME NEW f \in OpenFiles, CutShort(f, hooks[cur[1]]),
                 fate' = [fate EXCEPT ![f] = "failed"]
          PROVE  DiskType'
      <4>1. f \in File /\ hooks[cur[1]] \in Version \union {0}
        BY <3>3, OpenIsWritten, CurIsHook
      <4> QED
        BY <3>1, <3>3, <4>1, FileWritten DEF Touched
    <3> QED
      BY <1>22, <3>2, <3>3 DEF Crash
  <2>3. RunType'
    BY <1>22, HookAssumption DEF Crash, Goto, RunType, Hook
  <2>4. FaultType'
    BY <1>22, FaultCounted DEF Crash, envVars
  <2> QED
    BY <2>1, <2>2, <2>3, <2>4
<1>23. CASE UNCHANGED vars
  BY <1>23
  DEF HookType, DiskType, DbType, RunType, FaultType, hookVars, diskVars, fileVars, dbVars,
     runVars, envVars, vars
<1> QED
  BY <1>1, <1>2, <1>3, <1>4, <1>5, <1>6, <1>7, <1>8, <1>9, <1>10, <1>11, <1>12, <1>13,
     <1>14, <1>15, <1>16, <1>17, <1>18, <1>19, <1>20, <1>21, <1>22, <1>23
  DEF Next, Environment, RemoveStale, Publish

-----------------------------------------------------------------------------
(***************************************************************************)
(* The links and the times of their .processed files.                      *)
(***************************************************************************)
\* A link gets the time of a change that no .processed file has.
LEMMA TimesStep ==
  ASSUME HookType, CurOK, TimesOK, [Next]_vars
  PROVE  TimesOK'
<1>1. ASSUME NEW app \in App, NEW v \in Version, Install(app, v)
      PROVE  TimesOK'
  BY <1>1 DEF Install, TimesOK, HookType
<1>2. ASSUME NEW app \in App, Remove(app)
      PROVE  TimesOK'
  BY <1>2 DEF Remove, TimesOK, HookType
<1>3. ASSUME NEW a \in Account, CreateAccount(a)
      PROVE  TimesOK'
  BY <1>3 DEF CreateAccount, TimesOK, hookVars, envVars
<1>4. ASSUME NEW a \in Account, NEW app \in App, EnableService(a, app)
      PROVE  TimesOK'
  BY <1>4 DEF EnableService, TimesOK, hookVars, envVars
<1>5. ASSUME NEW a \in Account, SwitchOnOff(a)
      PROVE  TimesOK'
  BY <1>5 DEF SwitchOnOff, TimesOK, hookVars, envVars
<1>6. CASE StartRun
  BY <1>6 DEF StartRun, TimesOK, hookVars, envVars
<1>7. ASSUME NEW f \in File, NEW a \in Account, DisableService(f, a)
      PROVE  TimesOK'
  BY <1>7 DEF DisableService, TimesOK, hookVars, envVars
<1>8. CASE RemoveApp
  BY <1>8 DEF RemoveApp, TimesOK, hookVars, envVars
<1>9. ASSUME NEW f \in File, NEW a \in Account, RemoveAccount(f, a)
      PROVE  TimesOK'
  BY <1>9 DEF RemoveAccount, TimesOK, hookVars, envVars
<1>10. ASSUME NEW f \in File, RemoveStaleFile(f)
      PROVE  TimesOK'
  BY <1>10 DEF RemoveStaleFile, TimesOK, hookVars, envVars
<1>11. CASE NextDirectory
  BY <1>11 DEF NextDirectory, TimesOK, hookVars, envVars
<1>12. ASSUME NEW h \in App \X Version, RemoveStaleTimestamp(h)
      PROVE  TimesOK'
  BY <1>12 DEF RemoveStaleTimestamp, TimesOK, HookType, hookVars, envVars
<1>13. CASE ListHooks
  BY <1>13 DEF ListHooks, TimesOK, hookVars, envVars
<1>14. ASSUME NEW app \in App, SkipHook(app)
      PROVE  TimesOK'
  BY <1>14 DEF SkipHook, TimesOK, hookVars, envVars
<1>15. ASSUME NEW app \in App, WriteFiles(app)
      PROVE  TimesOK'
  BY <1>15 DEF WriteFiles, TimesOK, hookVars, envVars
<1>16. ASSUME NEW p \in Provider, WriteServiceFile(p)
      PROVE  TimesOK'
  BY <1>16 DEF WriteServiceFile, TimesOK, hookVars, envVars
<1>17. CASE ServicesWritten
  BY <1>17 DEF ServicesWritten, TimesOK, hookVars, envVars
<1>18. CASE WritePlugins
  BY <1>18 DEF WritePlugins, TimesOK, hookVars, envVars
<1>19. CASE WriteApplicationFile
  BY <1>19 DEF WriteApplicationFile, TimesOK, hookVars, envVars
<1>20. CASE MarkProcessed
  <2>1. Hook(cur[1]) \in App \X Version /\ hooks[cur[1]] # 0 /\ cur[1] \in App
    BY <1>20, CurIsHook DEF MarkProcessed, Writing
  <2> QED
    BY <1>20, <2>1 DEF MarkProcessed, HookType, TimesOK, hookVars
<1>21. CASE EndRun
  BY <1>21 DEF EndRun, TimesOK, hookVars, envVars
<1>22. CASE Crash
  BY <1>22 DEF Crash, TimesOK, hookVars, envVars
<1>23. CASE UNCHANGED vars
  BY <1>23 DEF TimesOK, vars, hookVars, envVars
<1> QED
  BY <1>1, <1>2, <1>3, <1>4, <1>5, <1>6, <1>7, <1>8, <1>9, <1>10, <1>11, <1>12, <1>13,
     <1>14, <1>15, <1>16, <1>17, <1>18, <1>19, <1>20, <1>21, <1>22, <1>23
  DEF Next, Environment, RemoveStale, Publish

\* Links are only removed between the runs.
LEMMA TodoStep ==
  ASSUME RunType, TodoOK, [Next]_vars
  PROVE  TodoOK'
<1>1. ASSUME NEW app \in App, NEW v \in Version, Install(app, v)
      PROVE  TodoOK'
  BY <1>1 DEF Install, TodoOK, Writing, runVars
<1>2. ASSUME NEW app \in App, Remove(app)
      PROVE  TodoOK'
  BY <1>2 DEF Remove, TodoOK, Writing, runVars
<1>3. ASSUME NEW a \in Account, CreateAccount(a)
      PROVE  TodoOK'
  BY <1>3 DEF CreateAccount, TodoOK, Writing, hookVars, runVars
<1>4. ASSUME NEW a \in Account, NEW app \in App, EnableService(a, app)
      PROVE  TodoOK'
  BY <1>4 DEF EnableService, TodoOK, Writing, hookVars, runVars
<1>5. ASSUME NEW a \in Account, SwitchOnOff(a)
      PROVE  TodoOK'
  BY <1>5 DEF SwitchOnOff, TodoOK, Writing, hookVars, runVars
<1>6. CASE StartRun
  BY <1>6 DEF StartRun, TodoOK, Writing, hookVars, runVars, Goto
<1>7. ASSUME NEW f \in File, NEW a \in Account, DisableService(f, a)
      PROVE  TodoOK'
  BY <1>7 DEF DisableService, TodoOK, Writing, hookVars, runVars, Goto, Stale, IsService
<1>8. CASE RemoveApp
  BY <1>8 DEF RemoveApp, TodoOK, Writing, hookVars, runVars, Goto
<1>9. ASSUME NEW f \in File, NEW a \in Account, RemoveAccount(f, a)
      PROVE  TodoOK'
  BY <1>9 DEF RemoveAccount, TodoOK, Writing, hookVars, runVars, Goto
<1>10. ASSUME NEW f \in File, RemoveStaleFile(f)
      PROVE  TodoOK'
  BY <1>10 DEF RemoveStaleFile, TodoOK, Writing, hookVars, runVars, Goto
<1>11. CASE NextDirectory
  BY <1>11 DEF NextDirectory, TodoOK, Writing, hookVars, runVars, Goto
<1>12. ASSUME NEW h \in App \X Version, RemoveStaleTimestamp(h)
      PROVE  TodoOK'
  BY <1>12 DEF RemoveStaleTimestamp, TodoOK, Writing, hookVars, runVars, Goto
<1>13. CASE ListHooks
  BY <1>13 DEF ListHooks, TodoOK, Writing, hookVars, runVars, Goto
<1>14. ASSUME NEW app \in App, SkipHook(app)
      PROVE  TodoOK'
  BY <1>14 DEF SkipHook, TodoOK, Writing, hookVars, runVars, Goto
<1>15. ASSUME NEW app \in App, WriteFiles(app)
      PROVE  TodoOK'
  BY <1>15 DEF WriteFiles, TodoOK, Writing, hookVars, runVars, Goto
<1>16. ASSUME NEW p \in Provider, WriteServiceFile(p)
      PROVE  TodoOK'
  BY <1>16 DEF WriteServiceFile, TodoOK, Writing, hookVars, runVars, Goto
<1>17. CASE ServicesWritten
  BY <1>17 DEF ServicesWritten, TodoOK, Writing, hookVars, runVars, Goto
<1>18. CASE WritePlugins
  BY <1>18 DEF WritePlugins, TodoOK, Writing, hookVars, runVars, Goto
<1>19. CASE WriteApplicationFile
  BY <1>19 DEF WriteApplicationFile, TodoOK, Writing, hookVars, runVars, Goto
<1>20. CASE MarkProcessed
  BY <1>20 DEF MarkProcessed, TodoOK, Writing, hookVars, runVars, Goto
<1>21. CASE EndRun
  BY <1>21 DEF EndRun, TodoOK, Writing, hookVars, runVars, Goto
<1>22. CASE Crash
  BY <1>22 DEF Crash, TodoOK, Writing, hookVars, runVars, Goto
<1>23. CASE UNCHANGED vars
  BY <1>23 DEF TodoOK, Writing, vars, hookVars, runVars
<1> QED
  BY <1>1, <1>2, <1>3, <1>4, <1>5, <1>6, <1>7, <1>8, <1>9, <1>10, <1>11, <1>12, <1>13,
     <1>14, <1>15, <1>16, <1>17, <1>18, <1>19, <1>20, <1>21, <1>22, <1>23
  DEF Next, Environment, RemoveStale, Publish

\* The .processed file is written last.
LEMMA CurStep ==
  ASSUME DiskType, RunType, TodoOK, CurOK, [Next]_vars
  PROVE  CurOK'
<1>1. ASSUME NEW app \in App, NEW v \in Version, Install(app, v)
      PROVE  CurOK'
  BY <1>1 DEF Install, CurOK, Writing, UpToDate, Hook, Goto, hookVars, runVars
<1>2. ASSUME NEW app \in App, Remove(app)
      PROVE  CurOK'
  BY <1>2 DEF Remove, CurOK, Writing, UpToDate, Hook, Goto, hookVars, runVars
<1>3. ASSUME NEW a \in Account, CreateAccount(a)
      PROVE  CurOK'
  BY <1>3 DEF CreateAccount, CurOK, Writing, UpToDate, Hook, Goto, hookVars, runVars
<1>4. ASSUME NEW a \in Account, NEW app \in App, EnableService(a, app)
      PROVE  CurOK'
  BY <1>4 DEF EnableService, CurOK, Writing, UpToDate, Hook, Goto, hookVars, runVars
<1>5. ASSUME NEW a \in Account, SwitchOnOff(a)
      PROVE  CurOK'
  BY <1>5 DEF SwitchOnOff, CurOK, Writing, UpToDate, Hook, Goto, hookVars, runVars
<1>6. CASE StartRun
  BY <1>6 DEF StartRun, CurOK, Writing, UpToDate, Hook, Goto, hookVars, runVars
<1>7. ASSUME NEW f \in File, NEW a \in Account, DisableService(f, a)
      PROVE  CurOK'
  <2>1. hooks[f.app] = 0 /\ f.app \in App
    BY <1>7, FileKinds DEF DisableService, Stale, IsStale, UsersOf, DiskType
  <2> QED
    BY <1>7, <2>1 DEF DisableService, CurOK, Writing, Goto, hookVars
<1>8. CASE RemoveApp
  BY <1>8 DEF RemoveApp, CurOK, Writing, UpToDate, Hook, Goto, hookVars, runVars
<1>9. ASSUME NEW f \in File, NEW a \in Account, RemoveAccount(f, a)
      PROVE  CurOK'
  BY <1>9 DEF RemoveAccount, CurOK, Writing, UpToDate, Hook, Goto, hookVars, runVars
<1>10. ASSUME NEW f \in File, RemoveStaleFile(f)
      PROVE  CurOK'
  BY <1>10 DEF RemoveStaleFile, CurOK, Writing, UpToDate, Hook, Goto, hookVars, runVars
<1>11. CASE NextDirectory
  BY <1>11 DEF NextDirectory, CurOK, Writing, UpToDate, Hook, Goto, hookVars, runVars
<1>12. ASSUME NEW h \in App \X Version, RemoveStaleTimestamp(h)
      PROVE  CurOK'
  BY <1>12 DEF RemoveStaleTimestamp, CurOK, Writing, hookVars
<1>13. CASE ListHooks
  BY <1>13 DEF ListHooks, CurOK, Writing, UpToDate, Hook, Goto, hookVars, runVars
<1>14. ASSUME NEW app \in App, SkipHook(app)
      PROVE  CurOK'
  BY <1>14 DEF SkipHook, CurOK, Writing, UpToDate, Hook, Goto, hookVars, runVars
<1>15. ASSUME NEW app \in App, WriteFiles(app)
      PROVE  CurOK'
  BY <1>15 DEF WriteFiles, CurOK, Writing, UpToDate, Hook, Goto, hookVars, TodoOK
<1>16. ASSUME NEW p \in Provider, WriteServiceFile(p)
      PROVE  CurOK'
  BY <1>16 DEF WriteServiceFile, CurOK, Writing, UpToDate, Hook, Goto, hookVars, runVars
<1>17. CASE ServicesWritten
  BY <1>17 DEF ServicesWritten, CurOK, Writing, UpToDate, Hook, Goto, hookVars, runVars
<1>18. CASE WritePlugins
  BY <1>18 DEF WritePlugins, CurOK, Writing, UpToDate, Hook, Goto, hookVars, runVars
<1>19. CASE WriteApplicationFile
  BY <1>19 DEF WriteApplicationFile, CurOK, Writing, UpToDate, Hook, Goto, hookVars, runVars
<1>20. CASE MarkProcessed
  BY <1>20 DEF MarkProcessed, CurOK, Writing, UpToDate, Hook, Goto, hookVars, runVars
<1>21. CASE EndRun
  BY <1>21 DEF EndRun, CurOK, Writing, UpToDate, Hook, Goto, hookVars, runVars
<1>22. CASE Crash
  BY <1>22 DEF Crash, CurOK, Writing, UpToDate, Hook, Goto, hookVars, runVars
<1>23. CASE UNCHANGED vars
  BY <1>23 DEF CurOK, Writing, UpToDate, Hook, vars, hookVars, runVars
<1> QED
  BY <1>1, <1>2, <1>3, <1>4, <1>5, <1>6, <1>7, <1>8, <1>9, <1>10, <1>11, <1>12, <1>13,
     <1>14, <1>15, <1>16, <1>17, <1>18, <1>19, <1>20, <1>21, <1>22, <1>23
  DEF Next, Environment, RemoveStale, Publish

-----------------------------------------------------------------------------
(***************************************************************************)
(* What the steps do to the files.                                         *)
(***************************************************************************)
LEMMA FilesOfHook ==
  ASSUME NEW h \in App \X Version, NEW f \in FilesOf(h)
  PROVE  f \in File /\ f.app = h[1]
<1>1. ServicesOf[h] \subseteq Provider
  BY HookAssumption
<1> QED
  BY <1>1, FileKinds DEF FilesOf, ServiceOf, OtherOf

FileChange(f) ==
  \/ Same(f)
  \/ RemoveStaleFile(f)
  \/ /\ Writing /\ f.app = cur[1] /\ hooks' = hooks
     /\ \/ files'[f] = hooks[cur[1]] /\ f \notin broken' /\ fate'[f] = "whole"
        \/ faults' # 0 /\ fate'[f] # "whole"

\* Files are removed by removeStaleFiles and written for the link in cur.
LEMMA FilesChange ==
  ASSUME HookType, DiskType, RunType, FaultType, CurOK, NEW f \in File, [Next]_vars
  PROVE  FileChange(f)
<1>1. ASSUME NEW app \in App, NEW v \in Version, Install(app, v)
      PROVE  FileChange(f)
  BY <1>1 DEF FileChange, Same, Install, diskVars, fileVars
<1>2. ASSUME NEW app \in App, Remove(app)
      PROVE  FileChange(f)
  BY <1>2 DEF FileChange, Same, Remove, diskVars, fileVars
<1>3. ASSUME NEW a \in Account, CreateAccount(a)
      PROVE  FileChange(f)
  BY <1>3 DEF FileChange, Same, CreateAccount, diskVars, fileVars
<1>4. ASSUME NEW a \in Account, NEW app \in App, EnableService(a, app)
      PROVE  FileChange(f)
  BY <1>4 DEF FileChange, Same, EnableService, diskVars, fileVars
<1>5. ASSUME NEW a \in Account, SwitchOnOff(a)
      PROVE  FileChange(f)
  BY <1>5 DEF FileChange, Same, SwitchOnOff, diskVars, fileVars
<1>6. CASE StartRun
  BY <1>6 DEF FileChange, Same, StartRun, diskVars, fileVars
<1>7. ASSUME NEW r \in File, NEW a \in Account, DisableService(r, a)
      PROVE  FileChange(f)
  BY <1>7 DEF FileChange, Same, DisableService, diskVars, fileVars
<1>8. CASE RemoveApp
  BY <1>8 DEF FileChange, Same, RemoveApp, diskVars, fileVars
<1>9. ASSUME NEW r \in File, NEW a \in Account, RemoveAccount(r, a)
      PROVE  FileChange(f)
  BY <1>9 DEF FileChange, Same, RemoveAccount, diskVars, fileVars
<1>10. ASSUME NEW r \in File, RemoveStaleFile(r)
      PROVE  FileChange(f)
  <2>1. links' \subseteq App /\ 0 \in Version \union {0} /\ Touched(r, 0)
    BY <1>10 DEF RemoveStaleFile, DiskType, Touched
  <2>2. \A g \in File : g # r => Same(g)
    BY <2>1, FileWritten
  <2> QED
    BY <1>10, <2>2 DEF FileChange
<1>11. CASE NextDirectory
  BY <1>11 DEF FileChange, Same, NextDirectory, diskVars, fileVars
<1>12. ASSUME NEW h \in App \X Version, RemoveStaleTimestamp(h)
      PROVE  FileChange(f)
  BY <1>12 DEF FileChange, Same, RemoveStaleTimestamp, diskVars, fileVars
<1>13. CASE ListHooks
  BY <1>13 DEF FileChange, Same, ListHooks, diskVars, fileVars
<1>14. ASSUME NEW app \in App, SkipHook(app)
      PROVE  FileChange(f)
  BY <1>14 DEF FileChange, Same, SkipHook, diskVars, fileVars
<1>15. ASSUME NEW app \in App, WriteFiles(app)
      PROVE  FileChange(f)
  BY <1>15 DEF FileChange, Same, WriteFiles, diskVars, fileVars
<1>16. ASSUME NEW p \in Provider, WriteServiceFile(p)
      PROVE  FileChange(f)
  <2> DEFINE w == ServiceOf(cur[1], p)
  <2>1. /\ w \in File /\ w.app = cur[1] /\ links' \subseteq App /\ hooks' = hooks
        /\ hooks[cur[1]] \in Version \union {0} /\ Writing
    BY <1>16, CurIsHook, FileKinds DEF WriteServiceFile, Writing, DiskType, hookVars
  <2>2. \/ Write(w, hooks[cur[1]])
        \/ Fault /\ (WriteIsCut(w, hooks[cur[1]]) \/ WriteFails(w))
        \/ UNCHANGED fileVars
    BY <1>16 DEF WriteServiceFile, ServiceOf
  <2> HIDE DEF w
  <2>3. CASE Write(w, hooks[cur[1]])
    BY <2>1, <2>3, FileWritten DEF Touched, FileChange
  <2>4. CASE Fault /\ WriteIsCut(w, hooks[cur[1]])
    BY <2>1, <2>4, FileWritten, FaultCounted DEF Touched, FileChange
  <2>5. CASE Fault /\ WriteFails(w)
    BY <2>1, <2>5, FileWritten, FaultCounted DEF Touched, FileChange
  <2>6. CASE UNCHANGED fileVars
    BY <2>6 DEF FileChange, Same, fileVars
  <2> QED
    BY <2>2, <2>3, <2>4, <2>5, <2>6
<1>17. CASE ServicesWritten
  BY <1>17 DEF FileChange, Same, ServicesWritten, diskVars, fileVars
<1>18. CASE WritePlugins
  <2> DEFINE w == OtherOf("provider", cur[1])
  <2>1. /\ w \in File /\ w.app = cur[1] /\ links' \subseteq App /\ hooks' = hooks
        /\ hooks[cur[1]] \in Version \union {0} /\ Writing
    BY <1>18, CurIsHook, FileKinds DEF WritePlugins, Writing, DiskType, hookVars
  <2>2. \/ Write(w, hooks[cur[1]])
        \/ Fault /\ (WriteIsCut(w, hooks[cur[1]]) \/ WriteFails(w))
        \/ UNCHANGED fileVars
    BY <1>18 DEF WritePlugins, OtherOf
  <2> HIDE DEF w
  <2>3. CASE Write(w, hooks[cur[1]])
    BY <2>1, <2>3, FileWritten DEF Touched, FileChange
  <2>4. CASE Fault /\ WriteIsCut(w, hooks[cur[1]])
    BY <2>1, <2>4, FileWritten, FaultCounted DEF Touched, FileChange
  <2>5. CASE Fault /\ WriteFails(w)
    BY <2>1, <2>5, FileWritten, FaultCounted DEF Touched, FileChange
  <2>6. CASE UNCHANGED fileVars
    BY <2>6 DEF FileChange, Same, fileVars
  <2> QED
    BY <2>2, <2>3, <2>4, <2>5, <2>6
<1>19. CASE WriteApplicationFile
  <2> DEFINE w == OtherOf("application", cur[1])
  <2>1. /\ w \in File /\ w.app = cur[1] /\ links' \subseteq App /\ hooks' = hooks
        /\ hooks[cur[1]] \in Version \union {0} /\ Writing
    BY <1>19, CurIsHook, FileKinds DEF WriteApplicationFile, Writing, DiskType, hookVars
  <2>2. \/ Write(w, hooks[cur[1]])
        \/ Fault /\ (WriteIsCut(w, hooks[cur[1]]) \/ WriteFails(w))
        \/ UNCHANGED fileVars
    BY <1>19 DEF WriteApplicationFile, OtherOf
  <2> HIDE DEF w
  <2>3. CASE Write(w, hooks[cur[1]])
    BY <2>1, <2>3, FileWritten DEF Touched, FileChange
  <2>4. CASE Fault /\ WriteIsCut(w, hooks[cur[1]])
    BY <2>1, <2>4, FileWritten, FaultCounted DEF Touched, FileChange
  <2>5. CASE Fault /\ WriteFails(w)
    BY <2>1, <2>5, FileWritten, FaultCounted DEF Touched, FileChange
  <2>6. CASE UNCHANGED fileVars
    BY <2>6 DEF FileChange, Same, fileVars
  <2> QED
    BY <2>2, <2>3, <2>4, <2>5, <2>6
<1>20. CASE MarkProcessed
  BY <1>20 DEF FileChange, Same, MarkProcessed, diskVars, fileVars
<1>21. CASE EndRun
  BY <1>21 DEF FileChange, Same, EndRun, diskVars, fileVars
<1>22. CASE Crash
  <2>1. faults' # 0 /\ hooks' = hooks /\ links' \subseteq App
    BY <1>22, FaultCounted, CurIsHook DEF Crash, hookVars, DiskType, Writing
  <2>2. CASE UNCHANGED fileVars
    BY <2>2 DEF FileChange, Same, fileVars
  <2>3. ASSUME NEW w \in OpenFiles, CutShort(w, hooks[cur[1]]),
               fate' = [fate EXCEPT ![w] = "failed"]
        PROVE  FileChange(f)
    <3>1. w \in File /\ w.app = cur[1] /\ Writing /\ hooks[cur[1]] \in Version \union {0}
      BY <2>3, OpenIsWritten, CurIsHook
    <3> QED
      BY <2>1, <2>3, <3>1, FileWritten DEF Touched, FileChange
  <2> QED
    BY <1>22, <2>2, <2>3 DEF Crash
<1>23. CASE UNCHANGED vars
  BY <1>23 DEF FileChange, Same, vars, diskVars, fileVars
<1> QED
  BY <1>1, <1>2, <1>3, <1>4, <1>5, <1>6, <1>7, <1>8, <1>9, <1>10, <1>11, <1>12, <1>13,
     <1>14, <1>15, <1>16, <1>17, <1>18, <1>19, <1>20, <1>21, <1>22, <1>23
  DEF Next, Environment, RemoveStale, Publish

\* So are the links to the plugins.
LEMMA LinksChange ==
  ASSUME NEW q \in links, ~(Writing /\ q = cur[1]), [Next]_vars
  PROVE  q \in links'
<1>1. ASSUME NEW app \in App, NEW v \in Version, Install(app, v)
      PROVE  q \in links'
  BY <1>1 DEF Install, diskVars, fileVars
<1>2. ASSUME NEW app \in App, Remove(app)
      PROVE  q \in links'
  BY <1>2 DEF Remove, diskVars, fileVars
<1>3. ASSUME NEW a \in Account, CreateAccount(a)
      PROVE  q \in links'
  BY <1>3 DEF CreateAccount, diskVars, fileVars
<1>4. ASSUME NEW a \in Account, NEW app \in App, EnableService(a, app)
      PROVE  q \in links'
  BY <1>4 DEF EnableService, diskVars, fileVars
<1>5. ASSUME NEW a \in Account, SwitchOnOff(a)
      PROVE  q \in links'
  BY <1>5 DEF SwitchOnOff, diskVars, fileVars
<1>6. CASE StartRun
  BY <1>6 DEF StartRun, diskVars, fileVars
<1>7. ASSUME NEW f \in File, NEW a \in Account, DisableService(f, a)
      PROVE  q \in links'
  BY <1>7 DEF DisableService, diskVars, fileVars
<1>8. CASE RemoveApp
  BY <1>8 DEF RemoveApp, diskVars, fileVars
<1>9. ASSUME NEW f \in File, NEW a \in Account, RemoveAccount(f, a)
      PROVE  q \in links'
  BY <1>9 DEF RemoveAccount, diskVars, fileVars
<1>10. ASSUME NEW f \in File, RemoveStaleFile(f)
      PROVE  q \in links'
  BY <1>10 DEF RemoveStaleFile
<1>11. CASE NextDirectory
  BY <1>11 DEF NextDirectory, diskVars, fileVars
<1>12. ASSUME NEW h \in App \X Version, RemoveStaleTimestamp(h)
      PROVE  q \in links'
  BY <1>12 DEF RemoveStaleTimestamp, diskVars, fileVars
<1>13. CASE ListHooks
  BY <1>13 DEF ListHooks, diskVars, fileVars
<1>14. ASSUME NEW app \in App, SkipHook(app)
      PROVE  q \in links'
  BY <1>14 DEF SkipHook, diskVars, fileVars
<1>15. ASSUME NEW app \in App, WriteFiles(app)
      PROVE  q \in links'
  BY <1>15 DEF WriteFiles, diskVars, fileVars
<1>16. ASSUME NEW p \in Provider, WriteServiceFile(p)
      PROVE  q \in links'
  BY <1>16 DEF WriteServiceFile
<1>17. CASE ServicesWritten
  BY <1>17 DEF ServicesWritten, diskVars, fileVars
<1>18. CASE WritePlugins
  BY <1>18 DEF WritePlugins, Writing
<1>19. CASE WriteApplicationFile
  BY <1>19 DEF WriteApplicationFile
<1>20. CASE MarkProcessed
  BY <1>20 DEF MarkProcessed, diskVars, fileVars
<1>21. CASE EndRun
  BY <1>21 DEF EndRun, diskVars, fileVars
<1>22. CASE Crash
  BY <1>22 DEF Crash, Writing
<1>23. CASE UNCHANGED vars
  BY <1>23 DEF vars, diskVars, fileVars
<1> QED
  BY <1>1, <1>2, <1>3, <1>4, <1>5, <1>6, <1>7, <1>8, <1>9, <1>10, <1>11, <1>12, <1>13,
     <1>14, <1>15, <1>16, <1>17, <1>18, <1>19, <1>20, <1>21, <1>22, <1>23
  DEF Next, Environment, RemoveStale, Publish

LEMMA PublishedKept ==
  ASSUME HookType, DiskType, RunType, FaultType, CurOK, [Next]_vars,
         NEW app \in App, hooks[app] # 0, hooks'[app] = hooks[app],
         ~(Writing /\ cur[1] = app), Published(app)
  PROVE  Published(app)'
<1>1. Hook(app) \in App \X Version /\ Hook(app)[1] = app /\ Hook(app)' = Hook(app)
  BY DEF Hook, HookType
<1>2. ASSUME NEW f \in FilesOf(Hook(app))
      PROVE  SeemsPublished(f)'
  <2>1. f \in File /\ f.app = app
    BY <1>1, FilesOfHook
  <2>2. FileChange(f) /\ SeemsPublished(f)
    BY <2>1, FilesChange DEF Published
  <2>3. CASE Same(f)
    BY <2>1, <2>2, <2>3 DEF Same, SeemsPublished, IsPublished
  <2>4. CASE RemoveStaleFile(f)
    <3>1. f \in nameless /\ fate'[f] = fate[f]
      BY <2>1, <2>4 DEF RemoveStaleFile, Stale, IsStale
    <3> QED
      BY <2>2, <3>1 DEF SeemsPublished, IsPublished, DiskType
  <2> QED
    BY <2>1, <2>2, <2>3, <2>4 DEF FileChange
<1>3. app \in links => app \in links'
  BY LinksChange
<1>4. FilesOf(Hook(app))' = FilesOf(Hook(app))
  BY <1>1 DEF FilesOf
<1> QED
  BY <1>1, <1>2, <1>3, <1>4 DEF Published

-----------------------------------------------------------------------------
(***************************************************************************)
(* What writeFiles has written.                                            *)
(***************************************************************************)
\* An action that is none of writeFiles does not lead into it, or changes
\* nothing that it goes by.
Unwritten ==
  \/ ~Writing'
  \/ UNCHANGED <<phase, hooks, cur, left, ok, fileVars, links>>

LEMMA UnwrittenOK ==
  ASSUME WrittenOK, Unwritten
  PROVE  WrittenOK'
<1>1. CASE ~Writing'
  BY <1>1 DEF WrittenOK
<1>2. CASE UNCHANGED <<phase, hooks, cur, left, ok, fileVars, links>>
  BY <1>2 DEF WrittenOK, Writing, Hook, SeemsPublished, IsPublished, fileVars
<1> QED
  BY <1>1, <1>2 DEF Unwritten

\* writeXmlFile says that it wrote the file: it did, or a full disk cut it.
WritesOut(f) == Write(f, hooks[cur[1]]) \/ WriteIsCut(f, hooks[cur[1]])

LEMMA WrittenOut ==
  ASSUME HookType, DiskType, CurOK, Writing, NEW f \in File, f.app = cur[1], WritesOut(f),
         hooks' = hooks, links' \subseteq App
  PROVE  SeemsPublished(f)' /\ \A g \in File : g # f => Same(g)
<1>1. hooks[cur[1]] \in Version \union {0}
  BY CurIsHook
<1> QED
  BY <1>1, FileWritten DEF WritesOut, Touched, SeemsPublished, IsPublished

\* A file that stays as it is stays published.
LEMMA SameSeems ==
  ASSUME NEW f \in File, Same(f), hooks' = hooks, SeemsPublished(f)
  PROVE  SeemsPublished(f)'
  BY DEF Same, SeemsPublished, IsPublished

\* writeFiles goes on only as long as nothing has failed.
LEMMA WrittenStep ==
  ASSUME HookType, DiskType, RunType, CurOK, WrittenOK, [Next]_vars
  PROVE  WrittenOK'
<1>1. ASSUME NEW app \in App, NEW v \in Version, Install(app, v)
      PROVE  WrittenOK'
  BY <1>1, UnwrittenOK
  DEF Install, Unwritten, Writing, Goto, hookVars, diskVars, fileVars, runVars
<1>2. ASSUME NEW app \in App, Remove(app)
      PROVE  WrittenOK'
  BY <1>2, UnwrittenOK
  DEF Remove, Unwritten, Writing, Goto, hookVars, diskVars, fileVars, runVars
<1>3. ASSUME NEW a \in Account, CreateAccount(a)
      PROVE  WrittenOK'
  BY <1>3, UnwrittenOK
  DEF CreateAccount, Unwritten, Writing, Goto, hookVars, diskVars, fileVars, runVars
<1>4. ASSUME NEW a \in Account, NEW app \in App, EnableService(a, app)
      PROVE  WrittenOK'
  BY <1>4, UnwrittenOK
  DEF EnableService, Unwritten, Writing, Goto, hookVars, diskVars, fileVars, runVars
<1>5. ASSUME NEW a \in Account, SwitchOnOff(a)
      PROVE  WrittenOK'
  BY <1>5, UnwrittenOK
  DEF SwitchOnOff, Unwritten, Writing, Goto, hookVars, diskVars, fileVars, runVars
<1>6. CASE StartRun
  BY <1>6, UnwrittenOK
  DEF StartRun, Unwritten, Writing, Goto, hookVars, diskVars, fileVars, runVars
<1>7. ASSUME NEW f \in File, NEW a \in Account, DisableService(f, a)
      PROVE  WrittenOK'
  BY <1>7, UnwrittenOK, FileKinds
  DEF DisableService, Unwritten, Writing, Stale, Goto, IsService, runVars
<1>8. CASE RemoveApp
  BY <1>8, UnwrittenOK, FileKinds
  DEF RemoveApp, Unwritten, Writing, Stale, Goto, IsService, runVars
<1>9. ASSUME NEW f \in File, NEW a \in Account, RemoveAccount(f, a)
      PROVE  WrittenOK'
  BY <1>9, UnwrittenOK, FileKinds
  DEF RemoveAccount, Unwritten, Writing, Stale, Goto, IsService, runVars
<1>10. ASSUME NEW f \in File, RemoveStaleFile(f)
      PROVE  WrittenOK'
  BY <1>10, UnwrittenOK, FileKinds
  DEF RemoveStaleFile, Unwritten, Writing, Stale, Goto, IsService, runVars
<1>11. CASE NextDirectory
  BY <1>11, UnwrittenOK
  DEF NextDirectory, Unwritten, Writing, Goto, hookVars, diskVars, fileVars, runVars
<1>12. ASSUME NEW h \in App \X Version, RemoveStaleTimestamp(h)
      PROVE  WrittenOK'
  BY <1>12, UnwrittenOK
  DEF RemoveStaleTimestamp, Unwritten, Writing, Goto, hookVars, diskVars, fileVars, runVars
<1>13. CASE ListHooks
  BY <1>13, UnwrittenOK
  DEF ListHooks, Unwritten, Writing, Goto, hookVars, diskVars, fileVars, runVars
<1>14. ASSUME NEW app \in App, SkipHook(app)
      PROVE  WrittenOK'
  BY <1>14, UnwrittenOK
  DEF SkipHook, Unwritten, Writing, Goto, hookVars, diskVars, fileVars, runVars
<1>15. ASSUME NEW app \in App, WriteFiles(app)
      PROVE  WrittenOK'
  BY <1>15 DEF WriteFiles, WrittenOK, Writing, Hook, Goto, hookVars, diskVars, fileVars
<1>16. ASSUME NEW p \in Provider, WriteServiceFile(p)
      PROVE  WrittenOK'
  <2>1. PICK app \in App : cur = <<app>> /\ Hook(app) \in App \X Version
    BY <1>16, CurIsHook DEF WriteServiceFile, Writing
  <2> DEFINE w == ServiceOf(app, p)
  <2>2. w \in File /\ w.app = cur[1] /\ links' \subseteq App /\ Writing
    BY <1>16, <2>1, FileKinds DEF WriteServiceFile, Writing, DiskType
  <2>3. CASE ~ok'
    BY <2>3 DEF WrittenOK
  <2>4. ASSUME ok'
        PROVE  /\ WritesOut(w) /\ left' = left \ {p} /\ ok' = ok /\ phase = "services"
               /\ UNCHANGED <<phase, hooks, cur, links>>
    BY <1>16, <2>1, <2>4 DEF WriteServiceFile, ServiceOf, WritesOut, hookVars
  <2>5. ASSUME ok', NEW q \in ServicesOf[Hook(app)], q \notin left'
        PROVE  SeemsPublished(ServiceOf(app, q))'
    <3>1. q \in Provider /\ ServiceOf(app, q) \in File
      BY <2>1, HookAssumption, FileKinds
    <3>2. CASE q = p
      BY <2>2, <2>4, <2>5, <3>2, WrittenOut
    <3>3. CASE q # p
      <4>1. ServiceOf(app, q) # w
        BY <3>3 DEF ServiceOf
      <4>2. q \notin left /\ SeemsPublished(ServiceOf(app, q))
        BY <2>1, <2>2, <2>4, <2>5, <3>3 DEF WrittenOK
      <4>3. Same(ServiceOf(app, q))
        BY <2>2, <2>4, <2>5, <3>1, <4>1, WrittenOut
      <4> QED
        BY <2>4, <2>5, <3>1, <4>2, <4>3, SameSeems
    <3> QED
      BY <3>2, <3>3
  <2> QED
    BY <2>1, <2>3, <2>4, <2>5 DEF WrittenOK, Hook
<1>17. CASE ServicesWritten
  <2>1. PICK app \in App : cur = <<app>> /\ Hook(app) \in App \X Version
    BY <1>17, CurIsHook DEF ServicesWritten, Writing
  <2>2. /\ phase = "services" /\ left = {} /\ phase' \in {"plugin", "main"} /\ Writing
        /\ HasPlugin[Hook(app)] => phase' = "plugin"
        /\ UNCHANGED <<hooks, cur, left, ok, fileVars, links>>
    BY <1>17, <2>1 DEF ServicesWritten, Goto, Writing, hookVars, diskVars, runVars
  <2>3. ASSUME ok, NEW q \in ServicesOf[Hook(app)]
        PROVE  SeemsPublished(ServiceOf(app, q))'
    <3>1. ServiceOf(app, q) \in File /\ Same(ServiceOf(app, q))
      BY <2>1, <2>2, HookAssumption, FileKinds DEF Same, fileVars
    <3>2. SeemsPublished(ServiceOf(app, q))
      BY <2>1, <2>2, <2>3 DEF WrittenOK
    <3> QED
      BY <2>2, <3>1, <3>2, SameSeems
  <2> QED
    BY <2>1, <2>2, <2>3 DEF WrittenOK, Hook
<1>18. CASE WritePlugins
  <2>1. PICK app \in App : cur = <<app>> /\ Hook(app) \in App \X Version
    BY <1>18, CurIsHook DEF WritePlugins, Writing
  <2> DEFINE w == OtherOf("provider", app)
  <2>2. w \in File /\ w.app = cur[1] /\ links' \subseteq App /\ Writing
    BY <1>18, <2>1, FileKinds DEF WritePlugins, Writing, DiskType
  <2>3. CASE ~ok'
    BY <2>3 DEF WrittenOK
  <2>4. ASSUME ok'
        PROVE  /\ WritesOut(w) /\ app \in links' /\ ok' = ok
               /\ UNCHANGED <<hooks, cur>> /\ phase = "plugin" /\ phase' = "main"
    BY <1>18, <2>1, <2>4 DEF WritePlugins, Goto, OtherOf, WritesOut, hookVars
  <2>5. ASSUME ok', NEW q \in ServicesOf[Hook(app)]
        PROVE  SeemsPublished(ServiceOf(app, q))'
    <3>1. q \in Provider /\ ServiceOf(app, q) \in File
      BY <2>1, HookAssumption, FileKinds
    <3>2. ServiceOf(app, q) # w
      BY <3>1, FileKinds
    <3>3. SeemsPublished(ServiceOf(app, q))
      BY <2>1, <2>2, <2>4, <2>5 DEF WrittenOK
    <3>4. Same(ServiceOf(app, q))
      BY <2>2, <2>4, <2>5, <3>1, <3>2, WrittenOut
    <3> QED
      BY <2>4, <2>5, <3>1, <3>3, <3>4, SameSeems
  <2>6. ok' => SeemsPublished(w)'
    BY <2>2, <2>4, WrittenOut
  <2> QED
    BY <2>1, <2>3, <2>4, <2>5, <2>6 DEF WrittenOK, Hook
<1>19. CASE WriteApplicationFile
  <2>1. PICK app \in App : cur = <<app>> /\ Hook(app) \in App \X Version
    BY <1>19, CurIsHook DEF WriteApplicationFile, Writing
  <2> DEFINE w == OtherOf("application", app)
  <2>2. w \in File /\ w.app = cur[1] /\ links' \subseteq App /\ Writing
    BY <1>19, <2>1, FileKinds DEF WriteApplicationFile, Writing, DiskType
  <2>3. CASE ~ok'
    BY <2>3 DEF WrittenOK
  <2>4. ASSUME ok'
        PROVE  /\ \/ WritesOut(w)
                  \/ ServicesOf[Hook(app)] = {} /\ UNCHANGED fileVars
               /\ ok' = ok /\ UNCHANGED <<hooks, cur, links>>
               /\ phase = "main" /\ phase' = "mark"
    BY <1>19, <2>1, <2>4 DEF WriteApplicationFile, Goto, OtherOf, WritesOut, hookVars
  <2>5. ASSUME ok', NEW g \in File, g # w, SeemsPublished(g)
        PROVE  SeemsPublished(g)'
    <3>1. CASE UNCHANGED fileVars
      BY <2>4, <2>5, <3>1, SameSeems DEF Same, fileVars
    <3>2. CASE WritesOut(w)
      BY <2>2, <2>4, <2>5, <3>2, WrittenOut, SameSeems
    <3> QED
      BY <2>4, <2>5, <3>1, <3>2
  <2>6. ASSUME ok', NEW q \in ServicesOf[Hook(app)]
        PROVE  SeemsPublished(ServiceOf(app, q))'
    <3>1. q \in Provider /\ ServiceOf(app, q) \in File
      BY <2>1, HookAssumption, FileKinds
    <3>2. ServiceOf(app, q) # w
      BY <3>1, FileKinds
    <3>3. SeemsPublished(ServiceOf(app, q))
      BY <2>1, <2>2, <2>4, <2>6 DEF WrittenOK
    <3> QED
      BY <2>5, <2>6, <3>1, <3>2, <3>3
  <2>7. ASSUME ok', HasPlugin[Hook(app)]
        PROVE  SeemsPublished(OtherOf("provider", app))' /\ app \in links'
    <3>1. OtherOf("provider", app) \in File /\ OtherOf("provider", app) # w
      BY FileKinds
    <3>2. SeemsPublished(OtherOf("provider", app)) /\ app \in links
      BY <2>1, <2>2, <2>4, <2>7 DEF WrittenOK
    <3> QED
      BY <2>4, <2>5, <2>7, <3>1, <3>2
  <2>8. ok' /\ ServicesOf[Hook(app)] # {} => SeemsPublished(w)'
    BY <2>2, <2>4, WrittenOut
  <2> QED
    BY <2>1, <2>3, <2>4, <2>6, <2>7, <2>8 DEF WrittenOK, Hook
<1>20. CASE MarkProcessed
  BY <1>20, UnwrittenOK
  DEF MarkProcessed, Unwritten, Writing, Goto, hookVars, diskVars, fileVars, runVars
<1>21. CASE EndRun
  BY <1>21, UnwrittenOK
  DEF EndRun, Unwritten, Writing, Goto, hookVars, diskVars, fileVars, runVars
<1>22. CASE Crash
  BY <1>22, UnwrittenOK
  DEF Crash, Unwritten, Writing, Goto, hookVars, diskVars, fileVars, runVars
<1>23. CASE UNCHANGED vars
  BY <1>23, UnwrittenOK DEF Unwritten, vars, hookVars, diskVars, fileVars, runVars
<1> QED
  BY <1>1, <1>2, <1>3, <1>4, <1>5, <1>6, <1>7, <1>8, <1>9, <1>10, <1>11, <1>12, <1>13,
     <1>14, <1>15, <1>16, <1>17, <1>18, <1>19, <1>20, <1>21, <1>22, <1>23
  DEF Next, Environment, RemoveStale, Publish

\* The last step of writeFiles, if nothing has failed, has all the files.
LEMMA WrittenIsPublished ==
  ASSUME HookType, CurOK, WrittenOK, phase = "mark", ok
  PROVE  Published(cur[1])
  BY CurIsHook DEF WrittenOK, Published, FilesOf, Writing, ServiceOf, OtherOf, Hook

-----------------------------------------------------------------------------
(***************************************************************************)
(* What is marked as processed is published.                               *)
(***************************************************************************)
\* A link that is up to date was so before, or writeFiles has just written it.
UpToDateBefore(app) ==
  \/ hooks[app] # 0 /\ hooks'[app] = hooks[app] /\ UpToDate(app)
  \/ MarkProcessed /\ Marked /\ app = cur[1]

\* Only MarkProcessed makes a link up to date; the time of a new one is new.
LEMMA UpToDateStep ==
  ASSUME HookType, TimesOK, CurOK, NEW q \in App, hooks'[q] # 0, UpToDate(q)', [Next]_vars
  PROVE  UpToDateBefore(q)
<1>1. ASSUME NEW app \in App, NEW v \in Version, Install(app, v)
      PROVE  UpToDateBefore(q)
  <2>1. processed[<<app, v>>] <= changes /\ changes \in Nat
        /\ processed[<<app, v>>] \in Nat
    BY <1>1 DEF TimesOK, HookType
  <2>2. q # app
    BY <1>1, <2>1 DEF Install, UpToDate, Hook, HookType
  <2> QED
    BY <1>1, <2>2 DEF Install, UpToDate, UpToDateBefore, Hook, HookType
<1>2. ASSUME NEW app \in App, Remove(app)
      PROVE  UpToDateBefore(q)
  BY <1>2 DEF Remove, UpToDate, UpToDateBefore, Hook, HookType
<1>3. ASSUME NEW a \in Account, CreateAccount(a)
      PROVE  UpToDateBefore(q)
  BY <1>3 DEF CreateAccount, hookVars, UpToDate, UpToDateBefore, Hook
<1>4. ASSUME NEW a \in Account, NEW app \in App, EnableService(a, app)
      PROVE  UpToDateBefore(q)
  BY <1>4 DEF EnableService, hookVars, UpToDate, UpToDateBefore, Hook
<1>5. ASSUME NEW a \in Account, SwitchOnOff(a)
      PROVE  UpToDateBefore(q)
  BY <1>5 DEF SwitchOnOff, hookVars, UpToDate, UpToDateBefore, Hook
<1>6. CASE StartRun
  BY <1>6 DEF StartRun, hookVars, UpToDate, UpToDateBefore, Hook
<1>7. ASSUME NEW f \in File, NEW a \in Account, DisableService(f, a)
      PROVE  UpToDateBefore(q)
  BY <1>7 DEF DisableService, hookVars, UpToDate, UpToDateBefore, Hook
<1>8. CASE RemoveApp
  BY <1>8 DEF RemoveApp, hookVars, UpToDate, UpToDateBefore, Hook
<1>9. ASSUME NEW f \in File, NEW a \in Account, RemoveAccount(f, a)
      PROVE  UpToDateBefore(q)
  BY <1>9 DEF RemoveAccount, hookVars, UpToDate, UpToDateBefore, Hook
<1>10. ASSUME NEW f \in File, RemoveStaleFile(f)
      PROVE  UpToDateBefore(q)
  BY <1>10 DEF RemoveStaleFile, hookVars, UpToDate, UpToDateBefore, Hook
<1>11. CASE NextDirectory
  BY <1>11 DEF NextDirectory, hookVars, UpToDate, UpToDateBefore, Hook
<1>12. ASSUME NEW h \in App \X Version, RemoveStaleTimestamp(h)
      PROVE  UpToDateBefore(q)
  BY <1>12
  DEF RemoveStaleTimestamp, StaleTimestamps, hookVars, UpToDate, UpToDateBefore, Hook,
     HookType
<1>13. CASE ListHooks
  BY <1>13 DEF ListHooks, hookVars, UpToDate, UpToDateBefore, Hook
<1>14. ASSUME NEW app \in App, SkipHook(app)
      PROVE  UpToDateBefore(q)
  BY <1>14 DEF SkipHook, hookVars, UpToDate, UpToDateBefore, Hook
<1>15. ASSUME NEW app \in App, WriteFiles(app)
      PROVE  UpToDateBefore(q)
  BY <1>15 DEF WriteFiles, hookVars, UpToDate, UpToDateBefore, Hook
<1>16. ASSUME NEW p \in Provider, WriteServiceFile(p)
      PROVE  UpToDateBefore(q)
  BY <1>16 DEF WriteServiceFile, hookVars, UpToDate, UpToDateBefore, Hook
<1>17. CASE ServicesWritten
  BY <1>17 DEF ServicesWritten, hookVars, UpToDate, UpToDateBefore, Hook
<1>18. CASE WritePlugins
  BY <1>18 DEF WritePlugins, hookVars, UpToDate, UpToDateBefore, Hook
<1>19. CASE WriteApplicationFile
  BY <1>19 DEF WriteApplicationFile, hookVars, UpToDate, UpToDateBefore, Hook
<1>20. CASE MarkProcessed
  <2>1. Hook(cur[1]) \in App \X Version /\ cur[1] \in App
    BY <1>20, CurIsHook DEF MarkProcessed, Writing
  <2>2. CASE q = cur[1] /\ Marked
    BY <1>20, <2>2 DEF UpToDateBefore
  <2>3. CASE ~(q = cur[1] /\ Marked)
    BY <1>20, <2>1, <2>3, CurIsHook
    DEF MarkProcessed, Writing, hookVars, UpToDate, UpToDateBefore, Hook, HookType
  <2> QED
    BY <2>2, <2>3
<1>21. CASE EndRun
  BY <1>21 DEF EndRun, hookVars, UpToDate, UpToDateBefore, Hook
<1>22. CASE Crash
  BY <1>22 DEF Crash, hookVars, UpToDate, UpToDateBefore, Hook
<1>23. CASE UNCHANGED vars
  BY <1>23 DEF vars, hookVars, UpToDate, UpToDateBefore, Hook
<1> QED
  BY <1>1, <1>2, <1>3, <1>4, <1>5, <1>6, <1>7, <1>8, <1>9, <1>10, <1>11, <1>12, <1>13,
     <1>14, <1>15, <1>16, <1>17, <1>18, <1>19, <1>20, <1>21, <1>22, <1>23
  DEF Next, Environment, RemoveStale, Publish

LEMMA ProcessedStep ==
  ASSUME HookType, DiskType, RunType, FaultType, TimesOK, CurOK, WrittenOK,
         ProcessedIsPublished, [Next]_vars
  PROVE  ProcessedIsPublished'
<1> SUFFICES ASSUME NEW app \in App, hooks'[app] # 0, UpToDate(app)'
             PROVE  Published(app)'
  BY DEF ProcessedIsPublished
<1>1. UpToDateBefore(app)
  BY UpToDateStep
<1>2. ASSUME hooks[app] # 0, hooks'[app] = hooks[app], UpToDate(app)
      PROVE  Published(app)'
  BY <1>2, CurIsHook, PublishedKept DEF ProcessedIsPublished
<1>3. ASSUME MarkProcessed, Marked, app = cur[1]
      PROVE  Published(app)'
  <2>1. Published(app)
    BY <1>3, WrittenIsPublished DEF MarkProcessed, Marked
  <2> QED
    BY <1>3, <2>1
    DEF MarkProcessed, Published, SeemsPublished, IsPublished, FilesOf, Hook, hookVars,
        diskVars, fileVars
<1> QED
  BY <1>1, <1>2, <1>3 DEF UpToDateBefore

-----------------------------------------------------------------------------
(***************************************************************************)
(* What a run has removed and published.                                   *)
(***************************************************************************)
\* What SweptOK says of a file whose application is gone.
SweptFrom(f) == Passed(f.type) \/ Writing \/ (phase = "idle" /\ clean)
WasSwept(f) == \/ hooks[f.app] = 0 /\ SweptFrom(f)
               \/ files[f] = 0 /\ files' = files

\* removeStaleFiles goes on when a directory has no stale file.
LEMMA SweptBefore ==
  ASSUME HookType, RunType, FaultType, NEW g \in File, hooks'[g.app] = 0, SweptFrom(g)',
         [Next]_vars
  PROVE  WasSwept(g)
<1>1. ASSUME NEW app \in App, NEW v \in Version, Install(app, v)
      PROVE  WasSwept(g)
  BY <1>1 DEF Install, WasSwept, SweptFrom, Passed, Writing
<1>2. ASSUME NEW app \in App, Remove(app)
      PROVE  WasSwept(g)
  BY <1>2 DEF Remove, WasSwept, SweptFrom, Passed, Writing
<1>3. ASSUME NEW a \in Account, CreateAccount(a)
      PROVE  WasSwept(g)
  BY <1>3
  DEF CreateAccount, Goto, hookVars, envVars, runVars, WasSwept, SweptFrom, Passed,
     Writing
<1>4. ASSUME NEW a \in Account, NEW app \in App, EnableService(a, app)
      PROVE  WasSwept(g)
  BY <1>4
  DEF EnableService, Goto, hookVars, envVars, runVars, WasSwept, SweptFrom, Passed,
     Writing
<1>5. ASSUME NEW a \in Account, SwitchOnOff(a)
      PROVE  WasSwept(g)
  BY <1>5
  DEF SwitchOnOff, Goto, hookVars, envVars, runVars, WasSwept, SweptFrom, Passed, Writing
<1>6. CASE StartRun
  BY <1>6
  DEF StartRun, Goto, hookVars, envVars, runVars, WasSwept, SweptFrom, Passed, Writing
<1>7. ASSUME NEW f \in File, NEW a \in Account, DisableService(f, a)
      PROVE  WasSwept(g)
  BY <1>7
  DEF DisableService, Goto, hookVars, envVars, runVars, WasSwept, SweptFrom, Passed,
     Writing
<1>8. CASE RemoveApp
  BY <1>8, FaultCounted
  DEF RemoveApp, Goto, NoFault, hookVars, WasSwept, SweptFrom, Passed, Writing
<1>9. ASSUME NEW f \in File, NEW a \in Account, RemoveAccount(f, a)
      PROVE  WasSwept(g)
  BY <1>9
  DEF RemoveAccount, Goto, hookVars, envVars, runVars, WasSwept, SweptFrom, Passed,
     Writing
<1>10. ASSUME NEW f \in File, RemoveStaleFile(f)
      PROVE  WasSwept(g)
  BY <1>10
  DEF RemoveStaleFile, Goto, hookVars, envVars, runVars, WasSwept, SweptFrom, Passed,
     Writing
<1>11. CASE NextDirectory
  <2>1. /\ hooks' = hooks /\ files' = files /\ clean' = clean
        /\ \/ phase = "service" /\ phase' = "provider"
           \/ phase = "provider" /\ phase' = "application"
           \/ phase = "application" /\ phase' = "timestamps"
    BY <1>11 DEF NextDirectory, hookVars, diskVars, fileVars, envVars, Goto
  <2>2. g.type = phase => files[g] = 0
    BY <1>11, <2>1 DEF NextDirectory, Stale, IsStale
  <2> QED
    BY <2>1, <2>2, FileKinds DEF WasSwept, SweptFrom, Passed, Writing
<1>12. ASSUME NEW h \in App \X Version, RemoveStaleTimestamp(h)
      PROVE  WasSwept(g)
  BY <1>12
  DEF RemoveStaleTimestamp, Goto, hookVars, envVars, runVars, WasSwept, SweptFrom,
     Passed, Writing
<1>13. CASE ListHooks
  BY <1>13
  DEF ListHooks, Goto, hookVars, envVars, runVars, WasSwept, SweptFrom, Passed, Writing
<1>14. ASSUME NEW app \in App, SkipHook(app)
      PROVE  WasSwept(g)
  BY <1>14
  DEF SkipHook, Goto, hookVars, envVars, runVars, WasSwept, SweptFrom, Passed, Writing
<1>15. ASSUME NEW app \in App, WriteFiles(app)
      PROVE  WasSwept(g)
  BY <1>15
  DEF WriteFiles, Goto, hookVars, envVars, runVars, WasSwept, SweptFrom, Passed, Writing
<1>16. ASSUME NEW p \in Provider, WriteServiceFile(p)
      PROVE  WasSwept(g)
  BY <1>16, FaultCounted
  DEF WriteServiceFile, Goto, NoFault, hookVars, WasSwept, SweptFrom, Passed, Writing
<1>17. CASE ServicesWritten
  BY <1>17
  DEF ServicesWritten, Goto, hookVars, envVars, runVars, WasSwept, SweptFrom, Passed,
     Writing
<1>18. CASE WritePlugins
  BY <1>18, FaultCounted
  DEF WritePlugins, Goto, NoFault, hookVars, WasSwept, SweptFrom, Passed, Writing
<1>19. CASE WriteApplicationFile
  BY <1>19, FaultCounted
  DEF WriteApplicationFile, Goto, NoFault, hookVars, WasSwept, SweptFrom, Passed, Writing
<1>20. CASE MarkProcessed
  BY <1>20, FaultCounted
  DEF MarkProcessed, Goto, NoFault, hookVars, WasSwept, SweptFrom, Passed, Writing
<1>21. CASE EndRun
  BY <1>21
  DEF EndRun, Goto, hookVars, envVars, runVars, WasSwept, SweptFrom, Passed, Writing
<1>22. CASE Crash
  BY <1>22, FaultCounted
  DEF Crash, Goto, NoFault, hookVars, WasSwept, SweptFrom, Passed, Writing
<1>23. CASE UNCHANGED vars
  BY <1>23 DEF vars, hookVars, runVars, envVars, WasSwept, SweptFrom, Passed, Writing
<1> QED
  BY <1>1, <1>2, <1>3, <1>4, <1>5, <1>6, <1>7, <1>8, <1>9, <1>10, <1>11, <1>12, <1>13,
     <1>14, <1>15, <1>16, <1>17, <1>18, <1>19, <1>20, <1>21, <1>22, <1>23
  DEF Next, Environment, RemoveStale, Publish

LEMMA SweptStep ==
  ASSUME HookType, DiskType, RunType, FaultType, CurOK, SweptOK, [Next]_vars
  PROVE  SweptOK'
<1> SUFFICES ASSUME NEW g \in File, hooks'[g.app] = 0, SweptFrom(g)'
             PROVE  files'[g] = 0
  BY DEF SweptOK, SweptFrom
<1>1. CASE files[g] = 0 /\ files' = files
  BY <1>1
<1>2. CASE hooks[g.app] = 0 /\ SweptFrom(g)
  <2>1. files[g] = 0
    BY <1>2 DEF SweptOK, SweptFrom
  <2>2. FileChange(g)
    BY FilesChange
  <2> QED
    BY <1>2, <2>1, <2>2, CurIsHook DEF FileChange, Same, RemoveStaleFile, Unlink, DiskType
<1> QED
  BY <1>1, <1>2, SweptBefore DEF WasSwept

\* A run without a fault: what DoneOK says of a link.
DoneWith(app) ==
  /\ app \notin todo /\ hooks[app] # 0
  /\ phase \in {"idle", "hooks"} \/ (Writing /\ app # cur[1])
WasDone(app) ==
  \/ clean /\ DoneWith(app) /\ hooks'[app] = hooks[app] /\ ~(Writing /\ cur[1] = app)
  \/ SkipHook(app)
  \/ MarkProcessed /\ Marked /\ app = cur[1]

\* A run is done with a link that it skips or marks.
LEMMA DoneBefore ==
  ASSUME HookType, RunType, FaultType, TodoOK, CurOK, DoneOK, NEW q \in App, clean',
         DoneWith(q)', [Next]_vars
  PROVE  WasDone(q)
<1>1. ASSUME NEW app \in App, NEW v \in Version, Install(app, v)
      PROVE  WasDone(q)
  BY <1>1 DEF Install, Goto, hookVars, envVars, runVars, WasDone, DoneWith, Writing
<1>2. ASSUME NEW app \in App, Remove(app)
      PROVE  WasDone(q)
  BY <1>2 DEF Remove, Goto, hookVars, envVars, runVars, WasDone, DoneWith, Writing
<1>3. ASSUME NEW a \in Account, CreateAccount(a)
      PROVE  WasDone(q)
  BY <1>3 DEF CreateAccount, Goto, hookVars, envVars, runVars, WasDone, DoneWith, Writing
<1>4. ASSUME NEW a \in Account, NEW app \in App, EnableService(a, app)
      PROVE  WasDone(q)
  BY <1>4 DEF EnableService, Goto, hookVars, envVars, runVars, WasDone, DoneWith, Writing
<1>5. ASSUME NEW a \in Account, SwitchOnOff(a)
      PROVE  WasDone(q)
  BY <1>5 DEF SwitchOnOff, Goto, hookVars, envVars, runVars, WasDone, DoneWith, Writing
<1>6. CASE StartRun
  BY <1>6 DEF StartRun, Goto, hookVars, envVars, runVars, WasDone, DoneWith, Writing
<1>7. ASSUME NEW f \in File, NEW a \in Account, DisableService(f, a)
      PROVE  WasDone(q)
  BY <1>7, FileKinds
  DEF DisableService, Goto, Stale, hookVars, envVars, runVars, WasDone, DoneWith, Writing
<1>8. CASE RemoveApp
  BY <1>8, FaultCounted DEF RemoveApp, Goto, NoFault, hookVars, WasDone, DoneWith, Writing
<1>9. ASSUME NEW f \in File, NEW a \in Account, RemoveAccount(f, a)
      PROVE  WasDone(q)
  BY <1>9, FileKinds
  DEF RemoveAccount, Goto, Stale, hookVars, envVars, runVars, WasDone, DoneWith, Writing
<1>10. ASSUME NEW f \in File, RemoveStaleFile(f)
      PROVE  WasDone(q)
  BY <1>10, FileKinds
  DEF RemoveStaleFile, Goto, Stale, hookVars, envVars, runVars, WasDone, DoneWith, Writing
<1>11. CASE NextDirectory
  BY <1>11 DEF NextDirectory, Goto, hookVars, envVars, runVars, WasDone, DoneWith, Writing
<1>12. ASSUME NEW h \in App \X Version, RemoveStaleTimestamp(h)
      PROVE  WasDone(q)
  BY <1>12
  DEF RemoveStaleTimestamp, Goto, hookVars, envVars, runVars, WasDone, DoneWith, Writing
<1>13. CASE ListHooks
  BY <1>13 DEF ListHooks, Goto, hookVars, envVars, runVars, WasDone, DoneWith, Writing
<1>14. ASSUME NEW app \in App, SkipHook(app)
      PROVE  WasDone(q)
  <2>1. CASE app = q
    BY <1>14, <2>1 DEF WasDone
  <2>2. CASE app # q
    BY <1>14, <2>2 DEF SkipHook, hookVars, envVars, WasDone, DoneWith, Writing
  <2> QED
    BY <2>1, <2>2
<1>15. ASSUME NEW app \in App, WriteFiles(app)
      PROVE  WasDone(q)
  <2>1. q # app /\ cur'[1] = app /\ phase = "hooks"
    BY <1>15 DEF WriteFiles, DoneWith, Writing, Goto
  <2> QED
    BY <1>15, <2>1 DEF WriteFiles, hookVars, envVars, WasDone, DoneWith, Writing
<1>16. ASSUME NEW p \in Provider, WriteServiceFile(p)
      PROVE  WasDone(q)
  BY <1>16, FaultCounted
  DEF WriteServiceFile, Goto, NoFault, hookVars, WasDone, DoneWith, Writing
<1>17. CASE ServicesWritten
  BY <1>17 DEF ServicesWritten, Goto, hookVars, envVars, runVars, WasDone, DoneWith, Writing
<1>18. CASE WritePlugins
  BY <1>18, FaultCounted
  DEF WritePlugins, Goto, NoFault, hookVars, WasDone, DoneWith, Writing
<1>19. CASE WriteApplicationFile
  BY <1>19, FaultCounted
  DEF WriteApplicationFile, Goto, NoFault, hookVars, WasDone, DoneWith, Writing
<1>20. CASE MarkProcessed
  <2>1. Writing /\ ok /\ clean /\ hooks' = hooks /\ todo' = todo
    BY <1>20, FaultCounted DEF MarkProcessed, Marked, NoFault, Writing, DoneOK, hookVars
  <2>2. CASE q = cur[1]
    BY <1>20, <2>1, <2>2 DEF WasDone, Marked
  <2>3. CASE q # cur[1]
    BY <2>1, <2>3 DEF WasDone, DoneWith
  <2> QED
    BY <2>2, <2>3
<1>21. CASE EndRun
  BY <1>21 DEF EndRun, Goto, hookVars, envVars, runVars, WasDone, DoneWith, Writing
<1>22. CASE Crash
  BY <1>22, FaultCounted DEF Crash, Goto, NoFault, hookVars, WasDone, DoneWith, Writing
<1>23. CASE UNCHANGED vars
  BY <1>23 DEF vars, hookVars, runVars, envVars, WasDone, DoneWith, Writing
<1> QED
  BY <1>1, <1>2, <1>3, <1>4, <1>5, <1>6, <1>7, <1>8, <1>9, <1>10, <1>11, <1>12, <1>13,
     <1>14, <1>15, <1>16, <1>17, <1>18, <1>19, <1>20, <1>21, <1>22, <1>23
  DEF Next, Environment, RemoveStale, Publish

\* In a run without a fault writeFiles has not failed.
LEMMA NothingFailed ==
  ASSUME RunType, FaultType, DoneOK, clean', Writing', [Next]_vars
  PROVE  ok'
<1>1. ASSUME NEW app \in App, NEW v \in Version, Install(app, v)
      PROVE  ok'
  BY <1>1 DEF Install, Writing, Goto
<1>2. ASSUME NEW app \in App, Remove(app)
      PROVE  ok'
  BY <1>2 DEF Remove, Writing, Goto
<1>3. ASSUME NEW a \in Account, CreateAccount(a)
      PROVE  ok'
  BY <1>3 DEF CreateAccount, DoneOK, runVars, envVars, Goto, Writing
<1>4. ASSUME NEW a \in Account, NEW app \in App, EnableService(a, app)
      PROVE  ok'
  BY <1>4 DEF EnableService, DoneOK, runVars, envVars, Goto, Writing
<1>5. ASSUME NEW a \in Account, SwitchOnOff(a)
      PROVE  ok'
  BY <1>5 DEF SwitchOnOff, DoneOK, runVars, envVars, Goto, Writing
<1>6. CASE StartRun
  BY <1>6 DEF StartRun, Writing, Goto
<1>7. ASSUME NEW f \in File, NEW a \in Account, DisableService(f, a)
      PROVE  ok'
  BY <1>7, FileKinds DEF DisableService, Goto, Stale, Writing
<1>8. CASE RemoveApp
  BY <1>8 DEF RemoveApp, Goto, Writing
<1>9. ASSUME NEW f \in File, NEW a \in Account, RemoveAccount(f, a)
      PROVE  ok'
  BY <1>9, FileKinds DEF RemoveAccount, Goto, Stale, Writing
<1>10. ASSUME NEW f \in File, RemoveStaleFile(f)
      PROVE  ok'
  BY <1>10, FileKinds DEF RemoveStaleFile, Goto, Stale, Writing
<1>11. CASE NextDirectory
  BY <1>11 DEF NextDirectory, Writing, Goto
<1>12. ASSUME NEW h \in App \X Version, RemoveStaleTimestamp(h)
      PROVE  ok'
  BY <1>12 DEF RemoveStaleTimestamp, DoneOK, runVars, envVars, Goto, Writing
<1>13. CASE ListHooks
  BY <1>13 DEF ListHooks, Writing, Goto
<1>14. ASSUME NEW app \in App, SkipHook(app)
      PROVE  ok'
  BY <1>14 DEF SkipHook, DoneOK, runVars, envVars, Goto, Writing
<1>15. ASSUME NEW app \in App, WriteFiles(app)
      PROVE  ok'
  BY <1>15 DEF WriteFiles
<1>16. ASSUME NEW p \in Provider, WriteServiceFile(p)
      PROVE  ok'
  <2>1. clean => ok
    BY <1>16 DEF WriteServiceFile, DoneOK, Writing
  <2>2. CASE Fault
    BY <2>2, FaultCounted
  <2>3. CASE NoFault /\ ok' = ok
    BY <2>1, <2>3, Zenon DEF NoFault
  <2> QED
    BY <1>16, <2>2, <2>3 DEF WriteServiceFile
<1>17. CASE ServicesWritten
  BY <1>17 DEF ServicesWritten, DoneOK, runVars, envVars, Goto, Writing
<1>18. CASE WritePlugins
  <2>1. clean => ok
    BY <1>18 DEF WritePlugins, DoneOK, Writing
  <2>2. CASE Fault
    BY <2>2, FaultCounted
  <2>3. CASE NoFault /\ ok' = ok
    BY <2>1, <2>3, Zenon DEF NoFault
  <2> QED
    BY <1>18, <2>2, <2>3 DEF WritePlugins
<1>19. CASE WriteApplicationFile
  <2>1. clean => ok
    BY <1>19 DEF WriteApplicationFile, DoneOK, Writing
  <2>2. CASE Fault
    BY <2>2, FaultCounted
  <2>3. CASE NoFault /\ ok' = ok
    BY <2>1, <2>3, Zenon DEF NoFault
  <2> QED
    BY <1>19, <2>2, <2>3 DEF WriteApplicationFile
<1>20. CASE MarkProcessed
  BY <1>20 DEF MarkProcessed, Goto, Writing
<1>21. CASE EndRun
  BY <1>21 DEF EndRun, DoneOK, runVars, envVars, Goto, Writing
<1>22. CASE Crash
  BY <1>22 DEF Crash, Goto, Writing
<1>23. CASE UNCHANGED vars
  BY <1>23 DEF DoneOK, vars, runVars, envVars, Writing
<1> QED
  BY <1>1, <1>2, <1>3, <1>4, <1>5, <1>6, <1>7, <1>8, <1>9, <1>10, <1>11, <1>12, <1>13,
     <1>14, <1>15, <1>16, <1>17, <1>18, <1>19, <1>20, <1>21, <1>22, <1>23
  DEF Next, Environment, RemoveStale, Publish

LEMMA DoneStep ==
  ASSUME HookType, DiskType, RunType, FaultType, TodoOK, CurOK, WrittenOK, DoneOK,
         ProcessedIsPublished, [Next]_vars
  PROVE  DoneOK'
<1>1. clean' /\ Writing' => ok'
  BY NothingFailed
<1>2. ASSUME clean', NEW app \in App, DoneWith(app)'
      PROVE  Published(app)'
  <2>1. WasDone(app)
    BY <1>2, DoneBefore
  <2>2. ASSUME clean, DoneWith(app), hooks'[app] = hooks[app], ~(Writing /\ cur[1] = app)
        PROVE  Published(app)'
    BY <2>2, PublishedKept DEF DoneOK, DoneWith
  <2>3. ASSUME SkipHook(app)
        PROVE  Published(app)'
    <3>1. hooks[app] # 0
      BY <2>3 DEF SkipHook, TodoOK
    <3>2. Published(app)
      <4>1. CASE UpToDate(app)
        BY <3>1, <4>1 DEF ProcessedIsPublished
      <4>2. CASE ~IsValid(Hook(app))
        BY <4>2 DEF IsValid, Published, FilesOf
      <4> QED
        BY <2>3, <4>1, <4>2 DEF SkipHook
    <3> QED
      BY <2>3, <3>2
      DEF SkipHook, Published, SeemsPublished, IsPublished, FilesOf, Hook, hookVars,
        diskVars, fileVars
  <2>4. ASSUME MarkProcessed, Marked, app = cur[1]
        PROVE  Published(app)'
    <3>1. Published(app)
      BY <2>4, WrittenIsPublished DEF MarkProcessed, Marked
    <3> QED
      BY <2>4, <3>1
      DEF MarkProcessed, Published, SeemsPublished, IsPublished, FilesOf, Hook, hookVars,
        diskVars, fileVars
  <2> QED
    BY <2>1, <2>2, <2>3, <2>4 DEF WasDone
<1> QED
  BY <1>1, <1>2 DEF DoneOK, DoneWith

-----------------------------------------------------------------------------
(***************************************************************************)
(* The accounts of a provider, and the access of an application, without   *)
(* a fault.                                                                *)
(***************************************************************************)
\* Nothing but a fault takes the file of a provider that has accounts, or of
\* a service that one of them uses.
LEMMA UsedFileKept ==
  ASSUME HookType, DiskType, RunType, FaultType, CurOK, [Next]_vars, faults' = 0,
         NEW f \in File, files[f] # 0, InUse(f)
  PROVE  files'[f] # 0
  BY FilesChange, CurIsHook DEF FileChange, Same, RemoveStaleFile

\* Faults are counted.
LEMMA NoFaultBefore ==
  ASSUME FaultType, faults' = 0, [Next]_vars
  PROVE  faults = 0
<1>1. ASSUME NEW app \in App, NEW v \in Version, Install(app, v)
      PROVE  faults = 0
  BY <1>1 DEF Install, dbVars
<1>2. ASSUME NEW app \in App, Remove(app)
      PROVE  faults = 0
  BY <1>2 DEF Remove, dbVars
<1>3. ASSUME NEW a \in Account, CreateAccount(a)
      PROVE  faults = 0
  BY <1>3 DEF CreateAccount, dbVars, envVars
<1>4. ASSUME NEW a \in Account, NEW app \in App, EnableService(a, app)
      PROVE  faults = 0
  BY <1>4 DEF EnableService, dbVars, envVars
<1>5. ASSUME NEW a \in Account, SwitchOnOff(a)
      PROVE  faults = 0
  BY <1>5 DEF SwitchOnOff, dbVars, envVars
<1>6. CASE StartRun
  BY <1>6 DEF StartRun, dbVars, envVars
<1>7. ASSUME NEW f \in File, NEW a \in Account, DisableService(f, a)
      PROVE  faults = 0
  BY <1>7 DEF DisableService, dbVars, envVars
<1>8. CASE RemoveApp
  BY <1>8, FaultCounted DEF RemoveApp, NoFault, dbVars
<1>9. ASSUME NEW f \in File, NEW a \in Account, RemoveAccount(f, a)
      PROVE  faults = 0
  BY <1>9 DEF RemoveAccount, dbVars, envVars
<1>10. ASSUME NEW f \in File, RemoveStaleFile(f)
      PROVE  faults = 0
  BY <1>10 DEF RemoveStaleFile, dbVars, envVars
<1>11. CASE NextDirectory
  BY <1>11 DEF NextDirectory, dbVars, envVars
<1>12. ASSUME NEW h \in App \X Version, RemoveStaleTimestamp(h)
      PROVE  faults = 0
  BY <1>12 DEF RemoveStaleTimestamp, dbVars, envVars
<1>13. CASE ListHooks
  BY <1>13 DEF ListHooks, dbVars, envVars
<1>14. ASSUME NEW app \in App, SkipHook(app)
      PROVE  faults = 0
  BY <1>14 DEF SkipHook, dbVars, envVars
<1>15. ASSUME NEW app \in App, WriteFiles(app)
      PROVE  faults = 0
  BY <1>15 DEF WriteFiles, dbVars, envVars
<1>16. ASSUME NEW p \in Provider, WriteServiceFile(p)
      PROVE  faults = 0
  BY <1>16, FaultCounted DEF WriteServiceFile, NoFault, dbVars
<1>17. CASE ServicesWritten
  BY <1>17 DEF ServicesWritten, dbVars, envVars
<1>18. CASE WritePlugins
  BY <1>18, FaultCounted DEF WritePlugins, NoFault, dbVars
<1>19. CASE WriteApplicationFile
  BY <1>19, FaultCounted DEF WriteApplicationFile, NoFault, dbVars
<1>20. CASE MarkProcessed
  BY <1>20, FaultCounted DEF MarkProcessed, NoFault, dbVars
<1>21. CASE EndRun
  BY <1>21 DEF EndRun, dbVars, envVars
<1>22. CASE Crash
  BY <1>22, FaultCounted DEF Crash, NoFault, dbVars
<1>23. CASE UNCHANGED vars
  BY <1>23 DEF vars, dbVars, envVars
<1> QED
  BY <1>1, <1>2, <1>3, <1>4, <1>5, <1>6, <1>7, <1>8, <1>9, <1>10, <1>11, <1>12, <1>13,
     <1>14, <1>15, <1>16, <1>17, <1>18, <1>19, <1>20, <1>21, <1>22, <1>23
  DEF Next, Environment, RemoveStale, Publish

\* What is left behind by a writing that does not end is known for it.
LEMMA FateStep ==
  ASSUME HookType, DiskType, RunType, FaultType, CurOK, FateOK, [Next]_vars,
         broken' \subseteq File
  PROVE  FateOK'
<1>1. ASSUME NEW f \in broken'
      PROVE  fate'[f] # "whole"
  <2>1. f \in File /\ FileChange(f)
    BY <1>1, FilesChange
  <2> QED
    BY <1>1, <2>1 DEF FileChange, Same, RemoveStaleFile, Unlink, FateOK
<1>2. ASSUME faults' = 0, NEW f \in File
      PROVE  fate'[f] = "whole"
  <2>1. fate[f] = "whole" /\ FileChange(f)
    BY <1>2, NoFaultBefore, FilesChange DEF FateOK
  <2> QED
    BY <1>2, <2>1 DEF FileChange, Same, RemoveStaleFile
<1> QED
  BY <1>1, <1>2 DEF FateOK

AccountsBefore(a) ==
  \/ a \in accounts
  \/ HasProvider(ProviderOf[a]) /\ files' = files

\* An account that is created has a provider.
LEMMA AccountsStep ==
  ASSUME NEW b \in Account, b \in accounts', [Next]_vars
  PROVE  AccountsBefore(b)
<1>1. ASSUME NEW app \in App, NEW v \in Version, Install(app, v)
      PROVE  AccountsBefore(b)
  BY <1>1 DEF Install, AccountsBefore, dbVars
<1>2. ASSUME NEW app \in App, Remove(app)
      PROVE  AccountsBefore(b)
  BY <1>2 DEF Remove, AccountsBefore, dbVars
<1>3. ASSUME NEW a \in Account, CreateAccount(a)
      PROVE  AccountsBefore(b)
  BY <1>3 DEF CreateAccount, AccountsBefore, diskVars, fileVars
<1>4. ASSUME NEW a \in Account, NEW app \in App, EnableService(a, app)
      PROVE  AccountsBefore(b)
  BY <1>4 DEF EnableService, AccountsBefore
<1>5. ASSUME NEW a \in Account, SwitchOnOff(a)
      PROVE  AccountsBefore(b)
  BY <1>5 DEF SwitchOnOff, AccountsBefore
<1>6. CASE StartRun
  BY <1>6 DEF StartRun, AccountsBefore, dbVars
<1>7. ASSUME NEW f \in File, NEW a \in Account, DisableService(f, a)
      PROVE  AccountsBefore(b)
  BY <1>7 DEF DisableService, AccountsBefore
<1>8. CASE RemoveApp
  BY <1>8 DEF RemoveApp, AccountsBefore
<1>9. ASSUME NEW f \in File, NEW a \in Account, RemoveAccount(f, a)
      PROVE  AccountsBefore(b)
  BY <1>9 DEF RemoveAccount, AccountsBefore, diskVars, fileVars
<1>10. ASSUME NEW f \in File, RemoveStaleFile(f)
      PROVE  AccountsBefore(b)
  BY <1>10 DEF RemoveStaleFile, AccountsBefore, dbVars
<1>11. CASE NextDirectory
  BY <1>11 DEF NextDirectory, AccountsBefore, dbVars
<1>12. ASSUME NEW h \in App \X Version, RemoveStaleTimestamp(h)
      PROVE  AccountsBefore(b)
  BY <1>12 DEF RemoveStaleTimestamp, AccountsBefore, dbVars
<1>13. CASE ListHooks
  BY <1>13 DEF ListHooks, AccountsBefore, dbVars
<1>14. ASSUME NEW app \in App, SkipHook(app)
      PROVE  AccountsBefore(b)
  BY <1>14 DEF SkipHook, AccountsBefore, dbVars
<1>15. ASSUME NEW app \in App, WriteFiles(app)
      PROVE  AccountsBefore(b)
  BY <1>15 DEF WriteFiles, AccountsBefore, dbVars
<1>16. ASSUME NEW p \in Provider, WriteServiceFile(p)
      PROVE  AccountsBefore(b)
  BY <1>16 DEF WriteServiceFile, AccountsBefore, dbVars
<1>17. CASE ServicesWritten
  BY <1>17 DEF ServicesWritten, AccountsBefore, dbVars
<1>18. CASE WritePlugins
  BY <1>18 DEF WritePlugins, AccountsBefore, dbVars
<1>19. CASE WriteApplicationFile
  BY <1>19 DEF WriteApplicationFile, AccountsBefore, dbVars
<1>20. CASE MarkProcessed
  BY <1>20 DEF MarkProcessed, AccountsBefore, dbVars
<1>21. CASE EndRun
  BY <1>21 DEF EndRun, AccountsBefore, dbVars
<1>22. CASE Crash
  BY <1>22 DEF Crash, AccountsBefore, dbVars
<1>23. CASE UNCHANGED vars
  BY <1>23 DEF AccountsBefore, vars, dbVars
<1> QED
  BY <1>1, <1>2, <1>3, <1>4, <1>5, <1>6, <1>7, <1>8, <1>9, <1>10, <1>11, <1>12, <1>13,
     <1>14, <1>15, <1>16, <1>17, <1>18, <1>19, <1>20, <1>21, <1>22, <1>23
  DEF Next, Environment, RemoveStale, Publish

LEMMA ProviderStep ==
  ASSUME HookType, DiskType, RunType, DbType, FaultType, CurOK, ProviderKept, [Next]_vars,
         accounts' \subseteq Account
  PROVE  ProviderKept'
<1> SUFFICES ASSUME NEW a \in accounts', ProviderOf[a] \in App
             PROVE  LET f == OtherOf("provider", ProviderOf[a])
                    IN  files'[f] # 0 \/ fate'[f] # "whole"
  BY DEF ProviderKept
<1> DEFINE f == OtherOf("provider", ProviderOf[a])
<1>1. f \in File /\ f.type = "provider" /\ f.app = ProviderOf[a]
  BY FileKinds
<1>2. CASE a \in accounts
  <2>1. files[f] # 0 \/ fate[f] # "whole"
    BY <1>2 DEF ProviderKept
  <2>2. InUse(f)
    BY <1>1, <1>2 DEF InUse, IsService, AccountsOf
  <2>3. FileChange(f)
    BY <1>1, FilesChange
  <2> HIDE DEF f
  <2>4. files'[f] # 0 \/ fate'[f] # "whole"
    BY <2>1, <2>2, <2>3, CurIsHook DEF FileChange, Same, RemoveStaleFile
  <2> QED
    BY <2>4 DEF f
<1>3. CASE HasProvider(ProviderOf[a]) /\ files' = files
  BY <1>3 DEF HasProvider, OtherOf
<1> QED
  BY <1>2, <1>3, AccountsStep DEF AccountsBefore

\* Who has access after a step without a fault: it had it before, and its
\* service is still enabled, or it is being removed or added.
AccessBefore(a, app) ==
  \/ /\ a \in accounts /\ <<a, app>> \in enabled /\ <<a, app>> \in enabled'
     /\ files[ServiceOf(app, ProviderOf[a])] # 0
  \/ phase' = "acl" /\ cur' = <<app, a>>
  \/ EnableService(a, app)

\* A service is enabled before it is in an ACL, and disabled before it is removed.
LEMMA AccessWas ==
  ASSUME RunType, DbType, FaultType, AccessKept, faults = 0, faults' = 0,
         NEW b \in Account \ MayBeOff, NEW q \in App, b \in accounts', <<b, q>> \in acl', [Next]_vars
  PROVE  AccessBefore(b, q)
<1>1. ASSUME NEW app \in App, NEW v \in Version, Install(app, v)
      PROVE  AccessBefore(b, q)
  BY <1>1 DEF Install, dbVars, AccessBefore, AccessKept
<1>2. ASSUME NEW app \in App, Remove(app)
      PROVE  AccessBefore(b, q)
  BY <1>2 DEF Remove, dbVars, AccessBefore, AccessKept
<1>3. ASSUME NEW a \in Account, CreateAccount(a)
      PROVE  AccessBefore(b, q)
  BY <1>3 DEF CreateAccount, dbVars, AccessBefore, AccessKept
<1>4. ASSUME NEW a \in Account, NEW app \in App, EnableService(a, app)
      PROVE  AccessBefore(b, q)
  <2>1. CASE a = b /\ app = q
    BY <1>4, <2>1 DEF AccessBefore
  <2>2. CASE ~(a = b /\ app = q)
    BY <1>4, <2>2 DEF EnableService, AccessBefore, AccessKept
  <2> QED
    BY <2>1, <2>2
<1>5. ASSUME NEW a \in Account, SwitchOnOff(a)
      PROVE  AccessBefore(b, q)
  BY <1>5 DEF SwitchOnOff, dbVars, AccessBefore, AccessKept
<1>6. CASE StartRun
  BY <1>6 DEF StartRun, dbVars, AccessBefore, AccessKept
<1>7. ASSUME NEW f \in File, NEW a \in Account, DisableService(f, a)
      PROVE  AccessBefore(b, q)
  <2>1. /\ phase = "service" /\ f.app \in App /\ phase' = "acl" /\ cur' = <<f.app, a>>
        /\ accounts' = accounts /\ acl' = acl /\ enabled' = enabled \ {<<a, f.app>>}
    BY <1>7, FileKinds DEF DisableService, IsService, Stale, Goto
  <2>2. CASE a = b /\ f.app = q
    BY <2>1, <2>2 DEF AccessBefore
  <2>3. CASE ~(a = b /\ f.app = q)
    BY <2>1, <2>3 DEF AccessBefore, AccessKept
  <2> QED
    BY <2>2, <2>3
<1>8. CASE RemoveApp
  <2>1. NoFault /\ acl' = acl \ TokensOf(cur[2], cur[1]) /\ acl' \subseteq acl
    BY <1>8, FaultCounted DEF RemoveApp
  <2>2. cur # <<q, b>>
    <3> SUFFICES ASSUME cur = <<q, b>>
                 PROVE  FALSE
      OBVIOUS
    <3>1. q \in Prefix[q]
      BY HookAssumption
    <3> QED
      BY <2>1, <3>1 DEF TokensOf
  <2> QED
    BY <1>8, <2>1, <2>2 DEF RemoveApp, AccessBefore, AccessKept
<1>9. ASSUME NEW f \in File, NEW a \in Account, RemoveAccount(f, a)
      PROVE  AccessBefore(b, q)
  BY <1>9, FileKinds DEF RemoveAccount, dbVars, Stale, AccessBefore, AccessKept
<1>10. ASSUME NEW f \in File, RemoveStaleFile(f)
      PROVE  AccessBefore(b, q)
  BY <1>10, FileKinds DEF RemoveStaleFile, dbVars, Stale, AccessBefore, AccessKept
<1>11. CASE NextDirectory
  BY <1>11 DEF NextDirectory, dbVars, AccessBefore, AccessKept
<1>12. ASSUME NEW h \in App \X Version, RemoveStaleTimestamp(h)
      PROVE  AccessBefore(b, q)
  BY <1>12 DEF RemoveStaleTimestamp, dbVars, AccessBefore, AccessKept
<1>13. CASE ListHooks
  BY <1>13 DEF ListHooks, dbVars, AccessBefore, AccessKept
<1>14. ASSUME NEW app \in App, SkipHook(app)
      PROVE  AccessBefore(b, q)
  BY <1>14 DEF SkipHook, dbVars, AccessBefore, AccessKept
<1>15. ASSUME NEW app \in App, WriteFiles(app)
      PROVE  AccessBefore(b, q)
  BY <1>15 DEF WriteFiles, dbVars, AccessBefore, AccessKept
<1>16. ASSUME NEW p \in Provider, WriteServiceFile(p)
      PROVE  AccessBefore(b, q)
  BY <1>16, FaultCounted DEF WriteServiceFile, dbVars, AccessBefore, AccessKept
<1>17. CASE ServicesWritten
  BY <1>17 DEF ServicesWritten, dbVars, AccessBefore, AccessKept
<1>18. CASE WritePlugins
  BY <1>18, FaultCounted DEF WritePlugins, dbVars, AccessBefore, AccessKept
<1>19. CASE WriteApplicationFile
  BY <1>19, FaultCounted DEF WriteApplicationFile, dbVars, AccessBefore, AccessKept
<1>20. CASE MarkProcessed
  BY <1>20, FaultCounted DEF MarkProcessed, dbVars, AccessBefore, AccessKept
<1>21. CASE EndRun
  BY <1>21 DEF EndRun, dbVars, AccessBefore, AccessKept
<1>22. CASE Crash
  BY <1>22, FaultCounted DEF Crash, dbVars, AccessBefore, AccessKept
<1>23. CASE UNCHANGED vars
  BY <1>23 DEF AccessBefore, AccessKept, vars, dbVars, runVars
<1> QED
  BY <1>1, <1>2, <1>3, <1>4, <1>5, <1>6, <1>7, <1>8, <1>9, <1>10, <1>11, <1>12, <1>13,
     <1>14, <1>15, <1>16, <1>17, <1>18, <1>19, <1>20, <1>21, <1>22, <1>23
  DEF Next, Environment, RemoveStale, Publish

\* Only some accounts are switched off.
LEMMA OffStep ==
  ASSUME off \subseteq MayBeOff, [Next]_vars
  PROVE  off' \subseteq MayBeOff
<1>1. ASSUME NEW app \in App, NEW v \in Version, Install(app, v)
      PROVE  off' \subseteq MayBeOff
  BY <1>1 DEF Install, dbVars
<1>2. ASSUME NEW app \in App, Remove(app)
      PROVE  off' \subseteq MayBeOff
  BY <1>2 DEF Remove, dbVars
<1>3. ASSUME NEW a \in Account, CreateAccount(a)
      PROVE  off' \subseteq MayBeOff
  BY <1>3 DEF CreateAccount
<1>4. ASSUME NEW a \in Account, NEW app \in App, EnableService(a, app)
      PROVE  off' \subseteq MayBeOff
  BY <1>4 DEF EnableService
<1>5. ASSUME NEW a \in Account, SwitchOnOff(a)
      PROVE  off' \subseteq MayBeOff
  BY <1>5 DEF SwitchOnOff
<1>6. CASE StartRun
  BY <1>6 DEF StartRun, dbVars
<1>7. ASSUME NEW f \in File, NEW a \in Account, DisableService(f, a)
      PROVE  off' \subseteq MayBeOff
  BY <1>7 DEF DisableService
<1>8. CASE RemoveApp
  BY <1>8 DEF RemoveApp
<1>9. ASSUME NEW f \in File, NEW a \in Account, RemoveAccount(f, a)
      PROVE  off' \subseteq MayBeOff
  BY <1>9 DEF RemoveAccount
<1>10. ASSUME NEW f \in File, RemoveStaleFile(f)
      PROVE  off' \subseteq MayBeOff
  BY <1>10 DEF RemoveStaleFile, dbVars
<1>11. CASE NextDirectory
  BY <1>11 DEF NextDirectory, dbVars
<1>12. ASSUME NEW h \in App \X Version, RemoveStaleTimestamp(h)
      PROVE  off' \subseteq MayBeOff
  BY <1>12 DEF RemoveStaleTimestamp, dbVars
<1>13. CASE ListHooks
  BY <1>13 DEF ListHooks, dbVars
<1>14. ASSUME NEW app \in App, SkipHook(app)
      PROVE  off' \subseteq MayBeOff
  BY <1>14 DEF SkipHook, dbVars
<1>15. ASSUME NEW app \in App, WriteFiles(app)
      PROVE  off' \subseteq MayBeOff
  BY <1>15 DEF WriteFiles, dbVars
<1>16. ASSUME NEW p \in Provider, WriteServiceFile(p)
      PROVE  off' \subseteq MayBeOff
  BY <1>16 DEF WriteServiceFile, dbVars
<1>17. CASE ServicesWritten
  BY <1>17 DEF ServicesWritten, dbVars
<1>18. CASE WritePlugins
  BY <1>18 DEF WritePlugins, dbVars
<1>19. CASE WriteApplicationFile
  BY <1>19 DEF WriteApplicationFile, dbVars
<1>20. CASE MarkProcessed
  BY <1>20 DEF MarkProcessed, dbVars
<1>21. CASE EndRun
  BY <1>21 DEF EndRun, dbVars
<1>22. CASE Crash
  BY <1>22 DEF Crash, dbVars
<1>23. CASE UNCHANGED vars
  BY <1>23 DEF vars, dbVars
<1> QED
  BY <1>1, <1>2, <1>3, <1>4, <1>5, <1>6, <1>7, <1>8, <1>9, <1>10, <1>11, <1>12, <1>13,
     <1>14, <1>15, <1>16, <1>17, <1>18, <1>19, <1>20, <1>21, <1>22, <1>23
  DEF Next, Environment, RemoveStale, Publish

LEMMA AccessStep ==
  ASSUME HookType, DiskType, RunType, DbType, FaultType, CurOK, FateOK, AccessKept,
         [Next]_vars, accounts' \subseteq Account
  PROVE  AccessKept'
<1>1. off' \subseteq MayBeOff
  BY OffStep DEF AccessKept
<1> SUFFICES ASSUME faults' = 0, NEW a \in accounts' \ MayBeOff, NEW app \in App,
                    <<a, app>> \in acl'
             PROVE  \/ <<a, app>> \in enabled' /\ files'[ServiceOf(app, ProviderOf[a])] # 0
                    \/ phase' = "acl" /\ cur' = <<app, a>>
  BY <1>1 DEF AccessKept
<1> DEFINE f == ServiceOf(app, ProviderOf[a])
<1>2. /\ f \in File /\ f.type = "service" /\ f.app = app /\ f.provider = ProviderOf[a]
      /\ ProviderOf[a] \in Provider /\ a \in Account
  BY FileKinds, HookAssumption
<1>3. faults = 0
  BY NoFaultBefore
<1>4. AccessBefore(a, app)
  BY <1>2, <1>3, AccessWas
<1>5. ASSUME a \in accounts, <<a, app>> \in enabled, <<a, app>> \in enabled', files[f] # 0
      PROVE  files'[f] # 0
  <2>1. a \in UsersOf(f)
    BY <1>2, <1>3, <1>5 DEF UsersOf, AccessKept, FateOK
  <2>2. InUse(f)
    BY <1>2, <2>1 DEF InUse, IsService
  <2> QED
    BY <1>2, <1>5, <2>2, UsedFileKept
<1>6. ASSUME EnableService(a, app)
      PROVE  <<a, app>> \in enabled' /\ files'[f] # 0
  BY <1>6 DEF EnableService, ServiceOf, diskVars, fileVars
<1> HIDE DEF f
<1> QED
  BY <1>4, <1>5, <1>6 DEF AccessBefore, f

-----------------------------------------------------------------------------
(***************************************************************************)
(* The services that are enabled.                                          *)
(***************************************************************************)
\* Without a fault, the file of a service that an account uses is there: as
\* long as it is, removeStaleFiles finds who uses it.
EnabledKept ==
  faults = 0 =>
    \A a \in accounts \ MayBeOff, app \in App :
      <<a, app>> \in enabled => files[ServiceOf(app, ProviderOf[a])] # 0

EnabledBefore(a, app) == <<a, app>> \in enabled \/ EnableService(a, app)

\* A service is enabled by the user alone.
LEMMA EnabledWas ==
  ASSUME NEW b \in Account, NEW q \in App, <<b, q>> \in enabled', [Next]_vars
  PROVE  EnabledBefore(b, q)
<1>1. ASSUME NEW app \in App, NEW v \in Version, Install(app, v)
      PROVE  EnabledBefore(b, q)
  BY <1>1 DEF Install, EnabledBefore, dbVars
<1>2. ASSUME NEW app \in App, Remove(app)
      PROVE  EnabledBefore(b, q)
  BY <1>2 DEF Remove, EnabledBefore, dbVars
<1>3. ASSUME NEW a \in Account, CreateAccount(a)
      PROVE  EnabledBefore(b, q)
  BY <1>3 DEF CreateAccount, EnabledBefore, dbVars
<1>4. ASSUME NEW a \in Account, NEW app \in App, EnableService(a, app)
      PROVE  EnabledBefore(b, q)
  <2>1. CASE a = b /\ app = q
    BY <1>4, <2>1 DEF EnabledBefore
  <2>2. CASE ~(a = b /\ app = q)
    BY <1>4, <2>2 DEF EnableService, EnabledBefore
  <2> QED
    BY <2>1, <2>2
<1>5. ASSUME NEW a \in Account, SwitchOnOff(a)
      PROVE  EnabledBefore(b, q)
  BY <1>5 DEF SwitchOnOff, EnabledBefore, dbVars
<1>6. CASE StartRun
  BY <1>6 DEF StartRun, EnabledBefore, dbVars
<1>7. ASSUME NEW f \in File, NEW a \in Account, DisableService(f, a)
      PROVE  EnabledBefore(b, q)
  BY <1>7 DEF DisableService, EnabledBefore, dbVars
<1>8. CASE RemoveApp
  BY <1>8 DEF RemoveApp, EnabledBefore, dbVars
<1>9. ASSUME NEW f \in File, NEW a \in Account, RemoveAccount(f, a)
      PROVE  EnabledBefore(b, q)
  BY <1>9 DEF RemoveAccount, EnabledBefore, dbVars
<1>10. ASSUME NEW f \in File, RemoveStaleFile(f)
       PROVE  EnabledBefore(b, q)
  BY <1>10 DEF RemoveStaleFile, EnabledBefore, dbVars
<1>11. CASE NextDirectory
  BY <1>11 DEF NextDirectory, EnabledBefore, dbVars
<1>12. ASSUME NEW h \in App \X Version, RemoveStaleTimestamp(h)
       PROVE  EnabledBefore(b, q)
  BY <1>12 DEF RemoveStaleTimestamp, EnabledBefore, dbVars
<1>13. CASE ListHooks
  BY <1>13 DEF ListHooks, EnabledBefore, dbVars
<1>14. ASSUME NEW app \in App, SkipHook(app)
       PROVE  EnabledBefore(b, q)
  BY <1>14 DEF SkipHook, EnabledBefore, dbVars
<1>15. ASSUME NEW app \in App, WriteFiles(app)
       PROVE  EnabledBefore(b, q)
  BY <1>15 DEF WriteFiles, EnabledBefore, dbVars
<1>16. ASSUME NEW p \in Provider, WriteServiceFile(p)
       PROVE  EnabledBefore(b, q)
  BY <1>16 DEF WriteServiceFile, EnabledBefore, dbVars
<1>17. CASE ServicesWritten
  BY <1>17 DEF ServicesWritten, EnabledBefore, dbVars
<1>18. CASE WritePlugins
  BY <1>18 DEF WritePlugins, EnabledBefore, dbVars
<1>19. CASE WriteApplicationFile
  BY <1>19 DEF WriteApplicationFile, EnabledBefore, dbVars
<1>20. CASE MarkProcessed
  BY <1>20 DEF MarkProcessed, EnabledBefore, dbVars
<1>21. CASE EndRun
  BY <1>21 DEF EndRun, EnabledBefore, dbVars
<1>22. CASE Crash
  BY <1>22 DEF Crash, EnabledBefore, dbVars
<1>23. CASE UNCHANGED vars
  BY <1>23 DEF EnabledBefore, vars, dbVars
<1> QED
  BY <1>1, <1>2, <1>3, <1>4, <1>5, <1>6, <1>7, <1>8, <1>9, <1>10, <1>11, <1>12, <1>13,
     <1>14, <1>15, <1>16, <1>17, <1>18, <1>19, <1>20, <1>21, <1>22, <1>23
  DEF Next, Environment, RemoveStale, Publish

LEMMA EnabledStep ==
  ASSUME HookType, DiskType, RunType, DbType, FaultType, CurOK, FateOK,
         off \subseteq MayBeOff, EnabledKept, [Next]_vars, accounts' \subseteq Account
  PROVE  EnabledKept'
<1> SUFFICES ASSUME faults' = 0, NEW a \in accounts' \ MayBeOff, NEW app \in App,
                    <<a, app>> \in enabled'
             PROVE  files'[ServiceOf(app, ProviderOf[a])] # 0
  BY DEF EnabledKept
<1> DEFINE f == ServiceOf(app, ProviderOf[a])
<1>1. /\ f \in File /\ f.type = "service" /\ f.app = app /\ f.provider = ProviderOf[a]
      /\ ProviderOf[a] \in Provider /\ a \in Account
  BY FileKinds, HookAssumption
<1>2. CASE <<a, app>> \in enabled
  <2>1. a \in accounts /\ a \notin off
    BY <1>2 DEF DbType
  <2>2. files[f] # 0
    BY <1>2, <2>1, NoFaultBefore DEF EnabledKept
  <2>3. a \in UsersOf(f)
    BY <1>1, <1>2, <2>1, NoFaultBefore DEF UsersOf, FateOK
  <2>4. InUse(f)
    BY <1>1, <2>3 DEF InUse, IsService
  <2> QED
    BY <1>1, <2>2, <2>4, UsedFileKept
<1>3. CASE EnableService(a, app)
  BY <1>3 DEF EnableService, ServiceOf, diskVars, fileVars
<1> QED
  BY <1>1, <1>2, <1>3, EnabledWas DEF EnabledBefore

\* Nothing else takes a token from an ACL during a run.
LEMMA AclKept ==
  ASSUME phase # "idle", [Next]_vars, ~RemoveApp
  PROVE  acl \subseteq acl'
<1>1. CASE Environment
  BY <1>1 DEF Environment, Install, Remove, CreateAccount, EnableService, SwitchOnOff
<1>2. CASE RemoveStale
  BY <1>2
  DEF RemoveStale, RemoveStaleFile, DisableService, RemoveAccount, NextDirectory,
      ListHooks, RemoveStaleTimestamp, dbVars
<1>3. CASE Publish
  BY <1>3
  DEF Publish, SkipHook, WriteFiles, WriteServiceFile, ServicesWritten, WritePlugins,
      WriteApplicationFile, MarkProcessed, dbVars
<1>4. CASE StartRun \/ EndRun \/ Crash \/ UNCHANGED vars
  BY <1>4 DEF StartRun, EndRun, Crash, vars, dbVars
<1> QED
  BY <1>1, <1>2, <1>3, <1>4 DEF Next

-----------------------------------------------------------------------------
(***************************************************************************)
(* The invariant, and the theorems.                                        *)
(***************************************************************************)
LEMMA InitInv ==
  ASSUME Init
  PROVE  IInv
<1>1. TypeOK
  <2>1. 0 \in 0..MaxChanges /\ 0 \in 0..MaxFaults
    BY HookAssumption
  <2>2. HookType /\ DiskType
    BY <2>1 DEF Init, HookType, DiskType
  <2>3. DbType /\ RunType
    BY DEF Init, DbType, RunType
  <2>4. FaultType
    BY <2>1 DEF Init, FaultType
  <2> QED
    BY <2>2, <2>3, <2>4, TypeSplit
<1>2. TimesOK /\ TodoOK /\ CurOK /\ WrittenOK
  BY DEF Init, TimesOK, TodoOK, CurOK, WrittenOK, Writing
<1>3. SweptOK /\ DoneOK
  BY DEF Init, SweptOK, DoneOK, Passed, Writing
<1>4. ProcessedIsPublished /\ ProviderKept /\ AccessKept /\ FateOK
  BY DEF Init, ProcessedIsPublished, ProviderKept, AccessKept, FateOK
<1> QED
  BY <1>1, <1>2, <1>3, <1>4 DEF IInv

LEMMA NextInv ==
  ASSUME IInv, [Next]_vars
  PROVE  IInv'
<1>1. /\ HookType /\ DiskType /\ DbType /\ RunType /\ FaultType
      /\ TimesOK /\ TodoOK /\ CurOK /\ FateOK /\ WrittenOK /\ SweptOK /\ DoneOK
      /\ ProcessedIsPublished /\ ProviderKept /\ AccessKept
  BY TypeSplit DEF IInv
<1>2. HookType' /\ DiskType' /\ DbType' /\ RunType' /\ FaultType'
  BY <1>1, TypeStep
<1>3. TypeOK'
  BY <1>2, TypeSplit
<1>4. TimesOK' /\ TodoOK' /\ CurOK' /\ WrittenOK'
  BY <1>1, TimesStep, TodoStep, CurStep, WrittenStep
<1>5. SweptOK' /\ DoneOK'
  BY <1>1, SweptStep, DoneStep
<1>6. ProcessedIsPublished'
  BY <1>1, ProcessedStep
<1>7. accounts' \subseteq Account /\ broken' \subseteq File
  BY <1>2 DEF DbType, DiskType
<1>8. ProviderKept' /\ AccessKept' /\ FateOK'
  BY <1>1, <1>7, ProviderStep, AccessStep, FateStep
<1> QED
  BY <1>3, <1>4, <1>5, <1>6, <1>8 DEF IInv

LEMMA Invariance == Spec => []IInv
  BY InitInv, NextInv, PTL DEF Spec

\* The files, the database and the run stay within their types: TypeOK.
THEOREM TypeCorrect == Spec => []TypeOK
<1>1. IInv => TypeOK
  BY DEF IInv
<1> QED
  BY <1>1, Invariance, PTL

\* A link whose .processed file has its time, which every later run skips, has
\* the files of its version on disk, whatever failed or was killed
\* (main.cpp, the timestamp written after writeFiles).
THEOREM ProcessedIsPublishedCorrect == Spec => []ProcessedIsPublished
<1>1. IInv => ProcessedIsPublished
  BY DEF IInv
<1> QED
  BY <1>1, Invariance, PTL

\* A run that completes without a fault leaves the files of every manifest,
\* and none of the applications that are gone, whatever the runs before it did.
THEOREM CompleteRunPublishesCorrect == Spec => []CompleteRunPublishes
<1>1. IInv => CompleteRunPublishes
  <2> SUFFICES ASSUME IInv, phase = "idle", clean, NEW app \in App
               PROVE  /\ hooks[app] # 0 => Published(app)
                      /\ hooks[app] = 0 => \A f \in File : f.app = app => files[f] = 0
    BY DEF CompleteRunPublishes
  <2>1. app \notin todo
    BY DEF IInv, TodoOK, Writing
  <2> QED
    BY <2>1 DEF IInv, SweptOK, DoneOK, Writing
<1> QED
  BY <1>1, Invariance, PTL

\* After a complete run no account of a plugin outlives the application that
\* brought it, even if removals were killed between two accounts, unless the
\* last writing of the provider's file failed, was cut or was killed.
THEOREM NoOrphanAccountsCorrect == Spec => []NoOrphanAccounts
<1>1. IInv => NoOrphanAccounts
  <2> SUFFICES ASSUME IInv, phase = "idle", clean, NEW a \in accounts, ProviderOf[a] \in App,
                      fate[ProviderFile(ProviderOf[a])] = "whole", hooks[ProviderOf[a]] = 0
               PROVE  FALSE
    BY DEF NoOrphanAccounts
  <2> DEFINE f == OtherOf("provider", ProviderOf[a])
  <2>1. f \in File /\ f.app = ProviderOf[a] /\ f = ProviderFile(ProviderOf[a])
    BY FileKinds DEF OtherOf, ProviderFile
  <2>2. files[f] = 0
    BY <2>1 DEF IInv, SweptOK
  <2> QED
    BY <2>1, <2>2 DEF IInv, ProviderKept
<1> QED
  BY <1>1, Invariance, PTL

\* As long as signond answered and no run was killed, an application that is
\* gone is in no ACL of an account that is on.
THEOREM GoneLosesAccessCorrect == Spec => []GoneLosesAccess
<1>1. IInv => GoneLosesAccess
  <2> SUFFICES ASSUME IInv, faults = 0, phase = "idle", clean, NEW a \in accounts \ MayBeOff,
                      NEW app \in App, <<a, app>> \in acl, hooks[app] = 0
               PROVE  FALSE
    BY DEF GoneLosesAccess
  <2> DEFINE f == ServiceOf(app, ProviderOf[a])
  <2>1. ProviderOf[a] \in Provider
    BY HookAssumption, TypeSplit DEF IInv, DbType
  <2>2. f \in File /\ f.app = app
    BY <2>1, FileKinds
  <2>3. files[f] = 0
    BY <2>2 DEF IInv, SweptOK
  <2> QED
    BY <2>3 DEF IInv, AccessKept
<1> QED
  BY <1>1, Invariance, PTL

\* As long as no write failed and no run was killed, a complete run leaves no
\* service of an application that is gone enabled, in any account that is on
\* (disableService, which selects the enabled accounts): accounts that are
\* switched off and faults are the only ways to violate GoneIsDisabled.
THEOREM GoneIsDisabledCorrect ==
  ASSUME MayBeOff = {}
  PROVE  Spec => [](faults = 0 => GoneIsDisabled)
<1>1. Init => EnabledKept
  BY DEF Init, EnabledKept
<1>2. IInv /\ EnabledKept /\ [Next]_vars => EnabledKept'
  <2> SUFFICES ASSUME IInv, EnabledKept, [Next]_vars
               PROVE  EnabledKept'
    OBVIOUS
  <2>1. /\ HookType /\ DiskType /\ DbType /\ RunType /\ FaultType /\ CurOK
        /\ FateOK /\ off \subseteq MayBeOff
    BY TypeSplit DEF IInv, AccessKept
  <2>2. IInv'
    BY NextInv
  <2>3. accounts' \subseteq Account
    BY <2>2, TypeSplit DEF IInv, DbType
  <2> QED
    BY <2>1, <2>3, EnabledStep
<1>3. IInv /\ EnabledKept => (faults = 0 => GoneIsDisabled)
  <2> SUFFICES ASSUME IInv, EnabledKept, faults = 0, phase = "idle", clean,
                      NEW e \in enabled, hooks[e[2]] = 0
               PROVE  FALSE
    BY DEF GoneIsDisabled
  <2> DEFINE a == e[1]
             app == e[2]
             f == ServiceOf(app, ProviderOf[a])
  <2>1. a \in accounts /\ app \in App /\ <<a, app>> \in enabled /\ ProviderOf[a] \in Provider
    BY HookAssumption, TypeSplit DEF IInv, DbType
  <2>2. f \in File /\ f.app = app
    BY <2>1, FileKinds
  <2>3. files[f] = 0
    BY <2>2 DEF IInv, SweptOK
  <2>4. files[f] # 0
    BY <2>1 DEF EnabledKept
  <2> QED
    BY <2>3, <2>4
<1> QED
  BY <1>1, <1>2, <1>3, Invariance, PTL DEF Spec

\* RemoveApp takes the tokens of an application that is gone.
LEMMA TokensOfGone ==
  ASSUME CurOK, \A app \in App : Prefix[app] = {app}, RemoveApp,
         NEW t \in acl, t \notin acl'
  PROVE  hooks[t[2]] = 0
<1>1. PICK app \in App, a \in Account : cur = <<app, a>> /\ hooks[app] = 0
  BY DEF CurOK, RemoveApp
<1>2. t \in TokensOf(a, app)
  BY <1>1 DEF RemoveApp
<1> QED
  BY <1>1, <1>2 DEF TokensOf

\* When no name of an application continues that of another, a run takes from
\* the ACLs the tokens of applications that are gone and of no other, whatever
\* fails (AclUpdater::removeApp compares prefixes).
THEOREM OthersKeepAccessCorrect ==
  ASSUME \A app \in App : Prefix[app] = {app}
  PROVE  Spec => OthersKeepAccess
<1>1. ASSUME IInv, [Next]_vars
      PROVE  \A t \in acl \ acl' : phase = "acl" => hooks[t[2]] = 0
  <2> SUFFICES ASSUME NEW t \in acl, t \notin acl', phase = "acl"
               PROVE  hooks[t[2]] = 0
    OBVIOUS
  <2>1. RemoveApp
    BY <1>1, AclKept
  <2> QED
    BY <1>1, <2>1, TokensOfGone DEF IInv
<1> QED
  BY <1>1, Invariance, PTL DEF Spec, OthersKeepAccess

\* The accounts a run removes are those of a provider whose file is stale.
LEMMA AccountsKept ==
  ASSUME phase # "idle", [Next]_vars, NEW b \in accounts, b \notin accounts'
  PROVE  \E f \in File : f.type = "provider" /\ IsStale(f) /\ ProviderOf[b] = f.app
<1>1. CASE Environment
  BY <1>1 DEF Environment, Install, Remove, CreateAccount, EnableService, SwitchOnOff
<1>2. CASE RemoveStale
  BY <1>2
  DEF RemoveStale, RemoveStaleFile, DisableService, RemoveAccount, RemoveApp, Stale,
      AccountsOf, NextDirectory, ListHooks, RemoveStaleTimestamp, dbVars
<1>3. CASE Publish
  BY <1>3
  DEF Publish, SkipHook, WriteFiles, WriteServiceFile, ServicesWritten, WritePlugins,
      WriteApplicationFile, MarkProcessed, dbVars
<1>4. CASE StartRun \/ EndRun \/ Crash \/ UNCHANGED vars
  BY <1>4 DEF StartRun, EndRun, Crash, vars, dbVars
<1> QED
  BY <1>1, <1>2, <1>3, <1>4 DEF Next

\* The services it disables are those of a file that is stale and whole.
LEMMA EnabledStays ==
  ASSUME phase # "idle", [Next]_vars, NEW e \in enabled, e \notin enabled',
         e[1] \in accounts'
  PROVE  \E f \in File : IsStale(f) /\ f \notin broken /\ e[2] = f.app
<1>1. CASE Environment
  BY <1>1 DEF Environment, Install, Remove, CreateAccount, EnableService, SwitchOnOff
<1>2. ASSUME NEW f \in File, NEW a \in Account, DisableService(f, a)
      PROVE  IsStale(f) /\ f \notin broken /\ e[2] = f.app
  BY <1>2 DEF DisableService, Stale, UsersOf
<1>3. ASSUME NEW f \in File, NEW a \in Account, RemoveAccount(f, a)
      PROVE  FALSE
  BY <1>3 DEF RemoveAccount
<1>4. ASSUME RemoveStale, \A f \in File, a \in Account : ~DisableService(f, a) /\ ~RemoveAccount(f, a)
      PROVE  FALSE
  BY <1>4
  DEF RemoveStale, RemoveStaleFile, RemoveApp, NextDirectory, ListHooks,
      RemoveStaleTimestamp, dbVars
<1>5. CASE Publish
  BY <1>5
  DEF Publish, SkipHook, WriteFiles, WriteServiceFile, ServicesWritten, WritePlugins,
      WriteApplicationFile, MarkProcessed, dbVars
<1>6. CASE StartRun \/ EndRun \/ Crash \/ UNCHANGED vars
  BY <1>6 DEF StartRun, EndRun, Crash, vars, dbVars
<1> QED
  BY <1>1, <1>2, <1>3, <1>4, <1>5, <1>6 DEF Next

\* A run, killed or not, takes no account, service or access from an application
\* that has a link, but for the accounts of a provider whose file was left
\* broken: the files of a package that is being upgraded are not taken for
\* stale (accounts.cpp, removeStaleFiles looks for a link of any version).
THEOREM UpgradeKeepsAccessCorrect ==
  ASSUME \A app \in App : Prefix[app] = {app}
  PROVE  Spec => UpgradeKeepsAccess
<1>1. ASSUME IInv, [Next]_vars, phase # "idle"
      PROVE  /\ \A a \in accounts \ accounts' :
                  /\ ProviderOf[a] \in App
                  /\ hooks[ProviderOf[a]] = 0 \/ fate[ProviderFile(ProviderOf[a])] # "whole"
             /\ \A e \in enabled \ enabled' : e[1] \in accounts' => hooks[e[2]] = 0
             /\ \A t \in acl \ acl' : hooks[t[2]] = 0
  <2>1. DiskType /\ FateOK /\ CurOK
    BY <1>1, TypeSplit DEF IInv
  <2>2. ASSUME NEW a \in accounts, a \notin accounts'
        PROVE  /\ ProviderOf[a] \in App
               /\ hooks[ProviderOf[a]] = 0 \/ fate[ProviderFile(ProviderOf[a])] # "whole"
    <3>1. PICK f \in File : f.type = "provider" /\ IsStale(f) /\ ProviderOf[a] = f.app
      BY <1>1, <2>2, AccountsKept
    <3>2. f.app \in App /\ f = ProviderFile(f.app)
      BY <3>1, FileKinds DEF OtherOf, ProviderFile
    <3> QED
      BY <2>1, <3>1, <3>2 DEF IsStale, FateOK, DiskType
  <2>3. ASSUME NEW e \in enabled, e \notin enabled', e[1] \in accounts'
        PROVE  hooks[e[2]] = 0
    <3>1. PICK f \in File : IsStale(f) /\ f \notin broken /\ e[2] = f.app
      BY <1>1, <2>3, EnabledStays
    <3> QED
      BY <2>1, <3>1 DEF IsStale, DiskType
  <2>4. ASSUME NEW t \in acl, t \notin acl'
        PROVE  hooks[t[2]] = 0
    BY <1>1, <2>1, <2>4, AclKept, TokensOfGone
  <2> QED
    BY <2>2, <2>3, <2>4
<1> QED
  BY <1>1, Invariance, PTL DEF Spec, UpgradeKeepsAccess

=============================================================================
