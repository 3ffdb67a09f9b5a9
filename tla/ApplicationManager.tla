------------------------- MODULE ApplicationManager -------------------------
(***************************************************************************)
(* Who may use the credentials of an account (application-manager.cpp): an *)
(* application is found by the name it claims or by its AppArmor profile,  *)
(* its profile is read from its .application file whenever it is needed,   *)
(* and the ACL of the credentials has the profiles, with versions, that    *)
(* were granted or switched on.  Between a grant and its withdrawal the    *)
(* application may be upgraded, removed and installed again.  The changes  *)
(* of one ACL are taken one after the other and succeed: a Credentials     *)
(* item of another process that holds an older ACL, and errors of signond, *)
(* are not considered.                                                     *)
(***************************************************************************)
EXTENDS Naturals, Sequences

CONSTANTS
  App,        \* applications of click packages, as <<package, application>>
  NameForm,   \* app -> how its file is named: "profile", "short", "package"
  AppService, \* services of the account
  Uses,       \* app -> the services it uses
  Continues,  \* pairs <<a, b>>: the name of b continues that of a
  MaxVersion  \* bound: versions of an application

ASSUME AppAssumption ==
  /\ NameForm \in [App -> {"profile", "short", "package"}]
  /\ Uses \in [App -> SUBSET AppService]
  /\ \A a \in App : a = <<a[1], a[2]>>
  /\ MaxVersion \in Nat

VARIABLES
  version,  \* app -> its version, 0 when it has no .application file
  aclOf,    \* the ACL of the credentials: a set of profiles
  enabled,  \* the services that are switched on in the account
  missed    \* apps last switched off when they had no file to read a profile from

appVars == <<version, aclOf, enabled, missed>>

Profile(a, v) == <<a[1], a[2], v>>
Unconfined == <<"unconfined">>
NoName == <<>>

AppInit ==
  /\ version = [a \in App |-> 0]
  /\ aclOf = {} /\ enabled = {} /\ missed = {}

Installed == {a \in App : version[a] # 0}

ApplicationProfile(a) == Profile(a, version[a])

FileName(a) ==
  CASE NameForm[a] = "profile" -> ApplicationProfile(a)
    [] NameForm[a] = "short" -> a
    [] OTHER -> <<a[1]>>

\* What Manager::application() finds: at most one application.
Named(name) == {a \in Installed : FileName(a) = name}

\* The profile itself is tried first, then without version, then the package.
ApplicationFromProfile(p) ==
  IF Len(p) # 3 THEN {}
  ELSE IF Named(p) # {} THEN Named(p)
  ELSE IF Named(<<p[1], p[2]>>) # {} THEN Named(<<p[1], p[2]>>)
  ELSE Named(<<p[1]>>)

\* A confined application is who it claims to be.
MatchesProfile(a, p) == p = Unconfined \/ ApplicationProfile(a) = p

Found(claimed, p) == IF Named(claimed) # {} THEN Named(claimed) ELSE ApplicationFromProfile(p)

\* A panel for this application ends with the grant of access: the profile of
\* its file is added, and its services are enabled.
Grant(claimed, p) ==
  \E a \in Found(claimed, p) :
    /\ MatchesProfile(a, p)
    /\ aclOf' = aclOf \union {ApplicationProfile(a)}
    /\ enabled' = enabled \union Uses[a]
    /\ UNCHANGED <<version, missed>>

\* A process that is not confined and names no application gets access itself.
GrantUnconfined(claimed) ==
  /\ Found(claimed, Unconfined) = {}
  /\ aclOf' = aclOf \union {Unconfined}
  /\ UNCHANGED <<version, enabled, missed>>

\* An application whose file is gone has no profile: the ACL is left alone.
AddApplicationToAcl(a) ==
  IF a \in Installed THEN aclOf \union {ApplicationProfile(a)} ELSE aclOf

\* startsWith() of the profile of another version, or of a longer name.
StartsWith(p, a) ==
  /\ Len(p) = 3
  /\ LET b == <<p[1], p[2]>> IN b = a \/ <<a, b>> \in Continues

\* A mutant of RemoveApplicationFromAcl: the installed version only.
RemoveProfileFromAcl(a) ==
  IF a \in Installed THEN aclOf \ {ApplicationProfile(a)} ELSE aclOf

RemoveApplicationFromAcl(a) ==
  IF a \in Installed
    THEN {p \in aclOf : p # ApplicationProfile(a) /\ ~StartsWith(p, a)}
    ELSE aclOf

\* The switches of a service in the page of the account.  The page may still
\* have those of an application that was removed.
SwitchOn(a, s) ==
  /\ s \notin enabled
  /\ aclOf' = AddApplicationToAcl(a)
  /\ enabled' = enabled \union {s}
  /\ UNCHANGED <<version, missed>>

SwitchOff(a, s) ==
  /\ s \in enabled
  /\ aclOf' = RemoveApplicationFromAcl(a)
  /\ enabled' = enabled \ {s}
  /\ missed' = IF a \in Installed THEN missed \ {a} ELSE missed \union {a}
  /\ UNCHANGED version

\* The click hooks leave the ACL alone in an upgrade.
Install(a) ==
  /\ version[a] < MaxVersion
  /\ version' = [version EXCEPT ![a] = @ + 1]
  /\ UNCHANGED <<aclOf, enabled, missed>>

\* disableService() looks at accounts that are switched on only, and takes the
\* tokens of an application there with the services that it finds enabled; the
\* first version of the hook does neither, in any account.
Uninstall(a, disables) ==
  LET off == IF disables THEN Uses[a] \intersect enabled ELSE {}
  IN  /\ a \in Installed
      /\ version' = [version EXCEPT ![a] = 0]
      /\ enabled' = enabled \ off
      /\ aclOf' = {p \in aclOf : off # {} => ~StartsWith(p, a)}
      /\ missed' = IF off # {} THEN missed \ {a} ELSE missed

AppNext ==
  \/ \E a \in App :
       \/ \E s \in Uses[a] : SwitchOn(a, s) \/ SwitchOff(a, s)
       \/ Install(a)
       \/ \E disables \in BOOLEAN : Uninstall(a, disables)
  \/ \E claimed \in {NoName} \union App :
       \/ \E p \in {Profile(a, v) : a \in App, v \in 1 .. MaxVersion} \union {Unconfined} :
            Grant(claimed, p)
       \/ GrantUnconfined(claimed)

AppSpec == AppInit /\ [][AppNext]_appVars

-----------------------------------------------------------------------------
AppTypeOK ==
  /\ version \in [App -> 0 .. MaxVersion]
  /\ aclOf \subseteq {Profile(a, v) : a \in App, v \in 1 .. MaxVersion} \union {Unconfined}
  /\ enabled \subseteq AppService /\ missed \subseteq App

HasAccess(a) == \E v \in 1 .. MaxVersion : Profile(a, v) \in aclOf

\* An application all of whose services are switched off has no token of any
\* version in the ACL, whichever version was granted access, however it was
\* found, and whatever became of its package meanwhile; unless the last switch
\* was that of a page which still had it when its file was gone.
AccessOnlyWhenOn ==
  \A a \in App \ missed : HasAccess(a) => Uses[a] \intersect enabled # {}

\* The same of every application: an account that was off when the application
\* was removed keeps its token.
AccessEndsWhenOff == \A a \in App : HasAccess(a) => Uses[a] \intersect enabled # {}

=============================================================================
