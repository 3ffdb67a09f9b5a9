-------------------------------- MODULE OAuth --------------------------------
(***************************************************************************)
(* The page of an OAuth account plugin (OAuth.qml): it stores credentials, *)
(* authenticates, asks for the name of the user and saves the account; or  *)
(* it is cancelled, and removes the credentials of a new account again.    *)
(* The account, credentials and session objects are those of the           *)
(* Ubuntu.OnlineAccounts QML module; getUserName() is the plugin's.        *)
(***************************************************************************)
EXTENDS Naturals

CONSTANTS
  NewAccounts,  \* is the account new? a set of Booleans
  ClicksWhile,  \* the moments at which the user may click Cancel or Retry
  MaxRetries    \* clicks on Retry

ASSUME OAuthAssumption == NewAccounts \subseteq BOOLEAN

VARIABLE oauth  \* the page, a record: see OAuthInit

(* isNew           isNewAccount                                            *)
(* creds           the credentials: credentialsId is not 0 when they are   *)
(*                 "stored" or "removing"                                  *)
(* session         "none", "running", or "canceling" after cancel()        *)
(* authenticating  __isAuthenticating                                      *)
(* web             what the loader shows                                   *)
(* replied         has authReply been set?                                 *)
(* naming          is the name of the user, or the user who has been told  *)
(*                 of a duplicate, waited for?                             *)
(* error           is errorItem visible?                                   *)
(* saving, onRemoved  times finished is connected to synced, to removed    *)
(* saved           is the account stored?                                  *)
(* finished        times finished() has been emitted                       *)
(* retries         clicks on Retry                                         *)
OAuthInit ==
  \E new \in NewAccounts :
    oauth = [isNew |-> new, creds |-> "none", session |-> "none",
             authenticating |-> FALSE, web |-> "none", replied |-> FALSE,
             naming |-> "no", error |-> FALSE, saving |-> 0, onRemoved |-> 0,
             saved |-> FALSE, finished |-> 0, retries |-> 0]

\* The page is destroyed once it has finished.
OnPage == oauth.finished = 0

HasId(o) == o.creds \in {"stored", "removing"}

\* authenticate(), from onCompleted or from the plugin.
StartPage ==
  /\ OnPage /\ oauth.creds = "none"
  /\ oauth' = [oauth EXCEPT !.creds = "storing"]

\* credentialsStored()
Authenticating(o) ==
  IF HasId(o) THEN [o EXCEPT !.authenticating = TRUE, !.session = "running"] ELSE o

CredentialsIdChanged ==
  /\ OnPage /\ oauth.creds = "storing"
  /\ oauth' = Authenticating([oauth EXCEPT !.creds = "stored"])

\* Nothing listens to an error of the credentials.
CredentialsError ==
  /\ OnPage /\ oauth.creds = "storing"
  /\ oauth' = [oauth EXCEPT !.creds = "failed"]

-----------------------------------------------------------------------------
\* A mutant of AfterRemoval: finished() is emitted at once.
BeforeRemoval(o) == [o EXCEPT !.creds = "removing", !.finished = @ + 1]

\* A mutant of AfterRemoval: nothing is connected to removed().
NotConnected(o) == [o EXCEPT !.creds = "removing"]

AfterRemoval(o) == [o EXCEPT !.creds = "removing", !.onRemoved = @ + 1]

\* cancel()
Cancel(o) ==
  IF o.authenticating THEN [o EXCEPT !.session = "canceling"]
  ELSE IF o.isNew /\ HasId(o) THEN AfterRemoval(o)
  ELSE [o EXCEPT !.finished = @ + 1]

CredentialsRemoved ==
  /\ OnPage /\ oauth.creds = "removing"
  /\ oauth' = [oauth EXCEPT !.creds = "gone", !.finished = @ + oauth.onRemoved]

\* saveAccount()
SaveAccount(o) == [o EXCEPT !.saving = @ + 1]

AccountSynced ==
  /\ OnPage /\ oauth.saving > 0
  /\ oauth' = [oauth EXCEPT !.saved = TRUE, !.finished = @ + oauth.saving, !.saving = 0]

\* __gotUserName(): a name that another account of the provider has already
\* is reported in a dialog.
GotUserName(o, name) ==
  IF name = "duplicate" THEN [o EXCEPT !.naming = "dialog"]
  ELSE SaveAccount([o EXCEPT !.naming = "no"])

Names == {"none", "new", "duplicate"}

\* onAuthenticated: the plugin's getUserName() has the name, gives up, or will
\* call back.  An answer may be on its way when the user cancels.
Authenticated ==
  /\ OnPage /\ oauth.session # "none"
  /\ LET o == [oauth EXCEPT !.session = "none", !.authenticating = FALSE, !.replied = TRUE]
     IN  \/ \E name \in Names : oauth' = GotUserName(o, name)
         \/ oauth' = Cancel(o)
         \/ oauth' = [o EXCEPT !.naming = "waiting"]

UserNameCallback ==
  /\ OnPage /\ oauth.naming = "waiting"
  /\ \/ \E name \in Names : oauth' = GotUserName(oauth, name)
     \/ oauth' = Cancel([oauth EXCEPT !.naming = "no"])

DuplicateClosed ==
  /\ OnPage /\ oauth.naming = "dialog"
  /\ oauth' = Cancel([oauth EXCEPT !.naming = "no"])

\* onAuthenticationError: a network error lets the user decide.
AuthenticationError ==
  /\ OnPage /\ oauth.session # "none"
  /\ LET o == [oauth EXCEPT !.session = "none", !.authenticating = FALSE]
     IN  \/ oauth' = [o EXCEPT !.error = TRUE]
         \/ oauth' = Cancel(o)

\* onRequestChanged: the daemon hands the sign-on request to this page, and
\* the request ends.
RequestCaptured ==
  /\ OnPage /\ oauth.session = "running" /\ oauth.web # "shown"
  /\ oauth' = [oauth EXCEPT !.web = "shown"]

RequestDestroyed ==
  /\ OnPage /\ oauth.session # "running" /\ oauth.web = "shown"
  /\ oauth' = [oauth EXCEPT !.web = "hidden"]

-----------------------------------------------------------------------------
\* What the page is doing, for ClicksWhile.
Moment ==
  CASE oauth.creds \in {"none", "storing", "failed", "removing"} -> oauth.creds
    [] oauth.authenticating -> "authenticating"
    [] oauth.naming # "no" -> "naming"
    [] oauth.saving > 0 -> "saving"
    [] OTHER -> "error"

ClickCancel ==
  /\ OnPage /\ Moment \in ClicksWhile
  /\ oauth' = Cancel(oauth)

ClickRetry ==
  /\ OnPage /\ Moment \in ClicksWhile /\ oauth.error /\ oauth.retries < MaxRetries
  /\ oauth' = Authenticating([oauth EXCEPT !.error = FALSE, !.retries = @ + 1])

OAuthNext ==
  \/ StartPage \/ CredentialsIdChanged \/ CredentialsError \/ CredentialsRemoved
  \/ Authenticated \/ AuthenticationError \/ UserNameCallback \/ DuplicateClosed
  \/ AccountSynced \/ RequestCaptured \/ RequestDestroyed
  \/ ClickCancel \/ ClickRetry

\* signond ends sessions that are cancelled and removes what it is asked to.
\* Nothing is assumed of the user, the plugin or the account.
OAuthFairness ==
  /\ WF_oauth(oauth.session = "canceling" /\ (Authenticated \/ AuthenticationError))
  /\ WF_oauth(CredentialsRemoved)

OAuthSpec == OAuthInit /\ [][OAuthNext]_oauth /\ OAuthFairness

-----------------------------------------------------------------------------
OAuthTypeOK ==
  /\ oauth.creds \in {"none", "storing", "stored", "failed", "removing", "gone"}
  /\ oauth.session # "none" <=> oauth.authenticating
  /\ oauth.finished <= 1

\* A page that has finished leaves either an account with its credentials, or
\* no credentials of an account that does not exist.  (Clicks at the other
\* moments break it: see the README.)
FinishedClean ==
  oauth.finished > 0 =>
    IF oauth.saved THEN oauth.creds = "stored"
    ELSE oauth.isNew => oauth.creds \in {"none", "failed", "gone"}

\* A cancelled authentication ends the page, through its failure and the
\* removal of the credentials, unless an answer or a network error came first.
CancelEnds ==
  oauth.session = "canceling" ~> oauth.finished > 0 \/ oauth.error \/ oauth.replied

=============================================================================
