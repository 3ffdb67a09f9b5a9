--------------------------- MODULE ProviderPanel ---------------------------
(***************************************************************************)
(* One ProviderRequest (provider-request.cpp): an application asks for an  *)
(* account of a provider, and the panel (ProviderRequest.qml with its      *)
(* AuthorizationPage and AccountCreationPage) lets the user choose or      *)
(* create one.  Access is granted in three asynchronous steps (read the    *)
(* credentials, store their ACL, store the account), while accounts come   *)
(* and go in the database and the models of the panel follow later.        *)
(***************************************************************************)
EXTENDS Naturals, Sequences, FiniteSets

CONSTANTS
  Account, NoAccount,
  Service,          \* services of the provider that the application uses
  Clients,          \* who may ask: "app", "settings", or "unconfined" without
                    \* a valid application ID
  SingleAccount,    \* may the provider be limited to one account?
  WithCredentials   \* accounts with credentials in signond

ASSUME PanelAssumption ==
  /\ NoAccount \notin Account /\ "invalid" \notin Account
  /\ WithCredentials \subseteq Account
  /\ Clients \subseteq {"app", "settings", "unconfined"}
  /\ SingleAccount \subseteq BOOLEAN

VARIABLES
  accounts, acl, enabled,  \* the database: accounts, those whose ACL has the
                           \* application, and account -> enabled services
  model,                   \* rows of accountsModel
  shown,                   \* rows of accessModel
  p,                       \* the request and its window, see Panel
  consented,               \* accounts the user chose by name, or created here
  mistaken                 \* accounts allowed under the name of another

database == <<accounts, acl, enabled>>
vars == <<accounts, acl, enabled, model, shown, p, consented, mistaken>>

AccountOrNone == Account \union {NoAccount}

Panel ==
  [client : Clients, single : SingleAccount,     \* isSingleAccount
   life : {"none", "live", "completed", "deleted", "exited"},
   inProgress : BOOLEAN,
   sent : Seq(AccountOrNone \union {"invalid"}), \* NoAccount: the empty result
   delayed : BOOLEAN,                            \* setDelay(3000)
   view : {"none", "visible", "closed"},         \* m_view; none: never shown
   page : {"none", "create", "authorize", "pushed", "spinner"},
   label : AccountOrNone,                        \* whose name accountLabel has
   stored : AccountOrNone,                       \* account of AccountCreationPage
   created : AccountOrNone,                      \* __createdAccountId
   chosen : AccountOrNone,                       \* account.objectHandle
   step : {"idle", "credentials", "acl", "account"}, \* the sync() under way
   enabling : SUBSET Service,                    \* unsaved changes of account
   denied : BOOLEAN]

Init ==
  /\ accounts \in SUBSET Account
  /\ acl \in SUBSET accounts
  /\ enabled \in [accounts -> SUBSET Service]
  /\ model = {} /\ shown = {} /\ consented = {} /\ mistaken = {}
  /\ p \in [client : Clients, single : SingleAccount, life : {"none"}, inProgress : {FALSE},
            sent : {<<>>}, delayed : {FALSE}, view : {"none"}, page : {"none"},
            label : {NoAccount}, stored : {NoAccount}, created : {NoAccount},
            chosen : {NoAccount}, step : {"idle"}, enabling : {{}}, denied : {FALSE}]
  /\ p.single => Cardinality(accounts) <= 1

-----------------------------------------------------------------------------
(***************************************************************************)
(* Calls within one event, as transformers of the record s.                *)
(***************************************************************************)
SetResult(s, result) ==
  IF s.inProgress
  THEN [s EXCEPT !.sent = Append(@, result), !.inProgress = FALSE, !.life = "completed"]
  ELSE s

\* show() has already disconnected onWindowVisibleChanged: nothing listens to
\* the window when it is closed.
Deny(s) ==
  IF s.view = "visible" THEN [s EXCEPT !.view = "closed", !.denied = TRUE]
                        ELSE SetResult([s EXCEPT !.denied = TRUE], NoAccount)

Allow(s, a) ==
  SetResult([s EXCEPT !.delayed = @ \/ (s.view = "visible" /\ s.client # "settings")], a)

\* A mutant of GrantAccess: an account that is not found is another one.
GrantAnyAccess(s, a, rows) ==
  IF rows = {} THEN Deny(s)
  ELSE LET b == IF a \in rows THEN a ELSE CHOOSE m \in rows : TRUE
       IN  IF s.chosen = b THEN s
           ELSE [s EXCEPT !.chosen = b, !.enabling = {},
                          !.step = IF b \in WithCredentials THEN "credentials" ELSE "idle"]

\* A new handle makes the Credentials item read those of its account.
GrantAccess(s, a, rows) ==
  IF a \notin rows THEN Deny(s)
  ELSE IF s.chosen = a THEN s
  ELSE [s EXCEPT !.chosen = a, !.enabling = {},
                 !.step = IF a \in WithCredentials THEN "credentials" ELSE "idle"]

\* rows are those of accountsModel when it is called.
GrantAccessIfReady(s, rows) ==
  CASE s.created = NoAccount -> s
    [] s.created # NoAccount /\ s.client = "settings" -> [Allow(s, s.created) EXCEPT !.page = "spinner"]
    [] s.created \in rows /\ s.client # "settings" ->
         [GrantAccess(s, s.created, rows) EXCEPT !.created = NoAccount]
    [] OTHER -> s

AclDone(s) == [s EXCEPT !.step = "account", !.enabling = Service \ enabled[s.chosen]]

IsLive == p.life \in {"live", "completed"}
Idle(x) == UNCHANGED <<database, x>>

-----------------------------------------------------------------------------
(***************************************************************************)
(* AccessModel: a row is hidden if the application can use it already.  An *)
(* application without supported services is shown none.                   *)
(***************************************************************************)
FilterAcceptsRow(a) ==
  p.client = "unconfined" \/ (p.client = "app" /\ \E s \in Service : s \notin enabled[a])

CanCreateAccounts(rows) == ~p.single \/ rows = {}

\* A program that is not confined gets the only account without being asked.
AllowOnly(s, a) == Allow(s, a)

Started == [p EXCEPT !.life = "live", !.inProgress = TRUE]

\* The application or the service of the request is not known: fail().
Refuse ==
  /\ p.life = "none"
  /\ p' = SetResult(Started, "invalid")
  /\ Idle(<<model, shown, consented, mistaken>>)

\* start() loads ProviderRequest.qml, whose onCompleted may answer at once;
\* the window is shown if it has not.  The page to authorize reads the name of
\* the first row here, and never again.
Start ==
  LET offered == {a \in accounts : FilterAcceptsRow(a)}
      nothing == offered = {} /\ ~CanCreateAccounts(accounts)
      only == p.client = "unconfined" /\ Cardinality(offered) = 1
      create == offered = {} \/ p.client = "settings"
  IN  /\ p.life = "none"
      /\ model' = accounts /\ shown' = offered
      /\ \/ nothing /\ p' = Deny(Started)
         \/ only /\ \E a \in accounts : p' = AllowOnly(Started, a)
         \/ /\ ~nothing /\ create
            /\ p' = [Started EXCEPT !.view = "visible", !.page = "create"]
         \/ /\ ~nothing /\ ~only /\ ~create
            /\ \E a \in offered :
                 p' = [Started EXCEPT !.view = "visible", !.page = "authorize", !.label = a]
      /\ Idle(<<consented, mistaken>>)

\* libaccounts uses no ID twice: none that the panel remembers, at least.
IsNew(a) == a \notin accounts \union model \union consented \union mistaken \union {p.label}

-----------------------------------------------------------------------------
(***************************************************************************)
(* The user.                                                               *)
(***************************************************************************)
Visible(pages) == IsLive /\ p.view = "visible" /\ p.page \in pages

\* What the page names next to the row of account a: its only row by the label.
Displayed(a) == IF shown = {a} THEN p.label ELSE a

\* "Allow": the account in the selected row, whatever the page names, or none if
\* the list has become empty.
Allowed(a) ==
  /\ Visible({"authorize"})
  /\ a \in shown \/ (shown = {} /\ a = NoAccount)
  /\ p' = GrantAccess(p, a, model)
  /\ consented' = consented \union {Displayed(a)}
  /\ mistaken' = mistaken \union ({a} \ {Displayed(a)})
  /\ UNCHANGED <<database, model, shown>>

\* "Don't allow", or a creation plugin that finishes without an account.
Denied ==
  /\ \/ Visible({"authorize"})
     \/ Visible({"create", "pushed"}) /\ p.stored = NoAccount
  /\ p' = Deny(p)
  /\ Idle(<<model, shown, consented, mistaken>>)

CreateAccount ==
  /\ Visible({"authorize"}) /\ CanCreateAccounts(model)
  /\ p' = [p EXCEPT !.page = "pushed", !.stored = NoAccount]
  /\ Idle(<<model, shown, consented, mistaken>>)

Back ==
  /\ Visible({"pushed"})
  /\ p' = [p EXCEPT !.page = "authorize", !.stored = NoAccount]
  /\ Idle(<<model, shown, consented, mistaken>>)

CloseWindow ==
  /\ IsLive /\ p.view = "visible"
  /\ p' = [p EXCEPT !.view = "closed"]
  /\ Idle(<<model, shown, consented, mistaken>>)

\* The plugin stores the account of its page, and later says it is finished.
PluginStores(a) ==
  /\ Visible({"create", "pushed"}) /\ p.stored = NoAccount
  /\ IsNew(a)
  /\ accounts' = accounts \union {a}
  /\ enabled' = [b \in accounts' |-> IF b = a THEN {} ELSE enabled[b]]
  /\ p' = [p EXCEPT !.stored = a]
  /\ consented' = consented \union {a}
  /\ UNCHANGED <<acl, model, shown, mistaken>>

PluginFinished ==
  /\ Visible({"create", "pushed"}) /\ p.stored # NoAccount
  /\ p' = GrantAccessIfReady([p EXCEPT !.created = p.stored], model)
  /\ Idle(<<model, shown, consented, mistaken>>)

-----------------------------------------------------------------------------
(***************************************************************************)
(* The database and the models that follow it.                             *)
(***************************************************************************)
DeletedElsewhere(a) ==
  /\ a \in accounts
  /\ accounts' = accounts \ {a} /\ acl' = acl \ {a}
  /\ enabled' = [b \in accounts' |-> enabled[b]]
  /\ UNCHANGED <<model, shown, p, consented, mistaken>>

\* Another panel or program adds an account, to which it may give access.
CreatedElsewhere(a) ==
  /\ Cardinality(accounts) = 0 \/ ~p.single
  /\ IsNew(a)
  /\ accounts' = accounts \union {a}
  /\ \E services \in {{}, Service} :
       enabled' = [b \in accounts' |-> IF b = a THEN services ELSE enabled[b]]
  /\ UNCHANGED <<acl, model, shown, p, consented, mistaken>>

\* A mutant of OnCountChanged: an account that waits for its row is not granted.
OnCountChangedOnly ==
  /\ IsLive /\ p.page # "none" /\ model # accounts
  /\ model' = accounts
  /\ shown' = (shown \intersect model') \union {a \in model' \ model : FilterAcceptsRow(a)}
  /\ Idle(<<p, consented, mistaken>>)

\* accountsModel gets or loses rows, and accessModel filters the new ones.
OnCountChanged ==
  /\ IsLive /\ p.page # "none" /\ model # accounts
  /\ model' = accounts
  /\ shown' = (shown \intersect model') \union {a \in model' \ model : FilterAcceptsRow(a)}
  /\ p' = GrantAccessIfReady(p, accounts)
  /\ Idle(<<consented, mistaken>>)

Chosen == IsLive /\ p.chosen \in accounts

\* A mutant of CredentialsSynced: the ACL is not waited for.
CredentialsNotStored ==
  /\ Chosen /\ p.step = "credentials"
  /\ p' = AclDone(p)
  /\ Idle(<<model, shown, consented, mistaken>>)

\* onSynced of the Credentials: the ACL is complete, or is stored first.
CredentialsSynced ==
  /\ Chosen /\ p.step = "credentials"
  /\ p' = IF p.chosen \in acl THEN AclDone(p) ELSE [p EXCEPT !.step = "acl"]
  /\ Idle(<<model, shown, consented, mistaken>>)

AclSynced ==
  /\ Chosen /\ p.step = "acl"
  /\ acl' = acl \union {p.chosen}
  /\ p' = AclDone(p)
  /\ UNCHANGED <<accounts, enabled, model, shown, consented, mistaken>>

AccountSynced ==
  /\ Chosen /\ p.step = "account"
  /\ enabled' = [enabled EXCEPT ![p.chosen] = @ \union p.enabling]
  /\ p' = [Allow(p, p.chosen) EXCEPT !.page = "spinner", !.step = "idle", !.enabling = {}]
  /\ UNCHANGED <<accounts, acl, model, shown, consented, mistaken>>

\* deleteLater() of the UI server; the destructor deletes the window.
DeleteRequest ==
  /\ p.life = "completed"
  /\ p' = [p EXCEPT !.life = "deleted", !.view = "none", !.page = "none", !.step = "idle",
                    !.chosen = NoAccount, !.enabling = {}]
  /\ Idle(<<model, shown, consented, mistaken>>)

\* The application quits with its last window.
Exit ==
  /\ p.life = "live" /\ p.view = "closed"
  /\ p' = [p EXCEPT !.life = "exited", !.step = "idle", !.chosen = NoAccount, !.enabling = {}]
  /\ Idle(<<model, shown, consented, mistaken>>)

Grant == CredentialsSynced \/ AclSynced \/ AccountSynced

Next ==
  \/ Start \/ Refuse \/ OnCountChanged \/ Grant \/ DeleteRequest \/ Exit
  \/ Denied \/ CreateAccount \/ Back \/ CloseWindow \/ PluginFinished
  \/ \E a \in AccountOrNone : Allowed(a)
  \/ \E a \in Account : PluginStores(a) \/ CreatedElsewhere(a) \/ DeletedElsewhere(a)

Spec == Init /\ [][Next]_vars

\* Signals of the database and answers of signond are delivered.
Fairness == WF_vars(OnCountChanged) /\ WF_vars(DeleteRequest)
            /\ WF_vars(CredentialsSynced) /\ WF_vars(AclSynced) /\ WF_vars(AccountSynced)

FairSpec == Spec /\ Fairness

-----------------------------------------------------------------------------
(***************************************************************************)
(* Properties.                                                             *)
(***************************************************************************)

\* Type invariant; a request is answered exactly when it is completed, and
\* access is being granted only to an account that is selected.
TypeOK ==
  /\ p \in Panel /\ model \subseteq Account /\ shown \subseteq model
  /\ accounts \subseteq Account /\ acl \subseteq accounts
  /\ enabled \in [accounts -> SUBSET Service]
  /\ Len(p.sent) = (IF p.life \in {"completed", "deleted"} THEN 1 ELSE 0)
  /\ p.step # "idle" => p.chosen \in WithCredentials

\* When an application is told an account, the account exists, its credentials
\* can be used by the application and the services of the application are on,
\* whatever was deleted, created or selected while access was being granted.
AllowedIsGranted ==
  [][\A a \in Account :
       p.client = "app" /\ p'.sent # p.sent /\ p'.sent = <<a>> =>
         a \in acl' /\ Service \subseteq enabled'[a]]_vars

\* The accounts of which the user said so; one whose row came under the name of
\* another counts when, and only when, the other is no longer in the database.
Approved == consented \union {a \in mistaken : p.label \notin accounts}

\* Only accounts that the user named or created in this panel are opened to the
\* application, even when the one that was chosen is deleted meanwhile; except
\* that the name on the page may be that of an account which is deleted.
OnlyConsented ==
  [][acl' \subseteq acl \union Approved
     /\ \A a \in accounts \intersect accounts' :
          enabled'[a] # enabled[a] => a \in Approved]_vars

\* No account is opened to the application under the name of another.
OnlyNamed ==
  [][acl' \subseteq acl \union consented
     /\ \A a \in accounts \intersect accounts' :
          enabled'[a] # enabled[a] => a \in consented]_vars

\* An account that the plugin has created is granted and answered with, whether
\* accountsModel sees it before or after the plugin says it is finished, unless
\* it is deleted or the user goes on to create or choose another.
CreatedIsAnswered ==
  \A a \in WithCredentials :
    (IsLive /\ p.created = a)
      ~> \/ ~p.inProgress \/ p.view = "closed" \/ a \notin accounts
         \/ p.chosen \notin {a, NoAccount} \/ p.created \notin {a, NoAccount}

\* A provider that takes a single account never has two.
SingleStaysSingle == p.single => Cardinality(accounts) <= 1

\* Denying delivers the empty result to the client.
DenyDeliversEmptyResult == p.denied => p.sent # <<>>

\* The window stays open after an account has been allowed.
ViewKeptOpen ==
  p.delayed /\ p.sent # <<>> => p.view \in {"visible", "closed"}

=============================================================================
