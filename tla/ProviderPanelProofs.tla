------------------------ MODULE ProviderPanelProofs ------------------------
(***************************************************************************)
(* Machine-checked proofs about ProviderPanel, for every set of accounts,  *)
(* services and clients: an application that is told an account has been   *)
(* granted it, and only accounts that the user named are opened, or stand  *)
(* in the row of one that is deleted.                                      *)
(*                                                                         *)
(* The argument: the account that is being granted, the one the plugin     *)
(* created and the one on its page are always accounts the user allowed or *)
(* created; the name on the page is that of one of its rows until its      *)
(* account has left the database; libaccounts never uses an ID twice, so   *)
(* that an account that is deleted during the grant does not come back;    *)
(* and once the last step of a grant begins, the ACL has the application   *)
(* and what is still missing of the services is about to be stored.        *)
(***************************************************************************)
EXTENDS ProviderPanel, SequenceTheorems, TLAPS

Result == AccountOrNone \union {"invalid"}

\* The record of a request: answered when, and only when, it is completed.
PanelOK(s) ==
  /\ s \in Panel
  /\ Len(s.sent) = IF s.life \in {"completed", "deleted"} THEN 1 ELSE 0
  /\ s.inProgress => s.life \in {"live", "exited"}
  /\ s.step # "idle" => s.chosen \in WithCredentials

DatabaseOK ==
  /\ model \subseteq Account /\ shown \subseteq model
  /\ accounts \subseteq Account /\ acl \subseteq accounts
  /\ enabled \in [accounts -> SUBSET Service]

\* The accounts that the panel works on are the user's choice.
ChoiceOK ==
  /\ p.chosen \in consented \union mistaken \union {NoAccount}
  /\ p.created \in consented \union mistaken \union {NoAccount}
  /\ p.stored \in consented \union mistaken \union {NoAccount}

\* The name on the page is that of a row, or of an account that is no more.
NameOK ==
  /\ p.label \in accounts => p.label \in shown
  /\ mistaken # {} => p.label \notin accounts
  /\ p.life = "none" => p.label = NoAccount /\ mistaken = {}

\* The last step of a grant.
GrantingOK ==
  p.step = "account" /\ p.chosen \in accounts =>
    p.chosen \in acl /\ Service \ enabled[p.chosen] \subseteq p.enabling

PanelInv == PanelOK(p) /\ DatabaseOK /\ ChoiceOK /\ NameOK /\ GrantingOK

\* A request that has started stays so, with the name on its page.
KeepsName(t, s) == t.label = s.label /\ (t.life = "none" => s.life = "none")

\* What a call within an event leaves alone.
SameChoice(t, s) ==
  /\ t.client = s.client /\ t.chosen = s.chosen /\ t.created = s.created
  /\ t.stored = s.stored /\ t.step = s.step /\ t.enabling = s.enabling
  /\ KeepsName(t, s)

\* Nothing, or one of the results in R, is told to the client.
Tells(t, s, R) == t.sent = s.sent \/ \E r \in R : t.sent = Append(s.sent, r)

-----------------------------------------------------------------------------
(***************************************************************************)
(* The calls.                                                              *)
(***************************************************************************)
LEMMA PanelFields ==
  ASSUME NEW s \in Panel
  PROVE  /\ s.sent \in Seq(Result) /\ s.inProgress \in BOOLEAN /\ s.client \in Clients
         /\ s.stored \in AccountOrNone /\ s.created \in AccountOrNone
         /\ s.chosen \in AccountOrNone /\ s.enabling \in SUBSET Service
BY DEF Panel, Result

LEMMA SetResultKeeps ==
  ASSUME NEW s, PanelOK(s), NEW r \in Result
  PROVE  LET t == SetResult(s, r)
         IN  PanelOK(t) /\ SameChoice(t, s) /\ Tells(t, s, {r})
<1>. DEFINE t == SetResult(s, r)
            q == Append(s.sent, r)
<1>1. s \in Panel /\ s.sent \in Seq(Result)
  BY PanelFields DEF PanelOK
<1>2. CASE s.inProgress
  <2>1. q \in Seq(Result) /\ Len(q) = Len(s.sent) + 1
    BY <1>1, AppendProperties
  <2>2. Len(s.sent) = 0
    BY <1>2 DEF PanelOK
  <2>3. Len(q) = 1
    BY <2>1, <2>2
  <2>4. t = [s EXCEPT !.sent = q, !.inProgress = FALSE, !.life = "completed"]
    BY <1>2 DEF SetResult
  <2>. HIDE DEF q
  <2>5. /\ t \in Panel /\ t.sent = q /\ t.inProgress = FALSE /\ t.life = "completed"
        /\ SameChoice(t, s)
    BY <1>1, <2>1, <2>4 DEF Panel, SameChoice, KeepsName, Result
  <2>. HIDE DEF t
  <2>6. PanelOK(t)
    BY <2>3, <2>5 DEF PanelOK, SameChoice, KeepsName
  <2>. QED
    BY <2>5, <2>6 DEF t, q, Tells
<1>3. CASE ~s.inProgress
  BY <1>3 DEF SetResult, SameChoice, KeepsName, Tells
<1>. QED
  BY <1>2, <1>3

LEMMA DenyKeeps ==
  ASSUME NEW s, PanelOK(s)
  PROVE  LET t == Deny(s)
         IN  PanelOK(t) /\ SameChoice(t, s) /\ Tells(t, s, {NoAccount})
<1>1. s \in Panel
  BY DEF PanelOK
<1>2. CASE s.view = "visible"
  <2>. DEFINE t == [s EXCEPT !.view = "closed", !.denied = TRUE]
  <2>1. /\ t \in Panel /\ SameChoice(t, s) /\ t.sent = s.sent
        /\ t.inProgress = s.inProgress /\ t.life = s.life
    BY <1>1 DEF Panel, SameChoice, KeepsName
  <2>2. Deny(s) = t
    BY <1>2 DEF Deny
  <2>. HIDE DEF t
  <2>. QED
    BY <2>1, <2>2 DEF PanelOK, SameChoice, KeepsName, Tells
<1>3. CASE s.view # "visible"
  <2>. DEFINE t == [s EXCEPT !.denied = TRUE]
  <2>1. /\ t \in Panel /\ SameChoice(t, s) /\ t.sent = s.sent
        /\ t.inProgress = s.inProgress /\ t.life = s.life
    BY <1>1 DEF Panel, SameChoice, KeepsName
  <2>2. Deny(s) = SetResult(t, NoAccount)
    BY <1>3 DEF Deny
  <2>. HIDE DEF t
  <2>3. PanelOK(t)
    BY <2>1 DEF PanelOK, SameChoice, KeepsName
  <2>4. NoAccount \in Result
    BY DEF Result, AccountOrNone
  <2>5. /\ PanelOK(Deny(s)) /\ SameChoice(Deny(s), t) /\ Tells(Deny(s), t, {NoAccount})
    BY <2>2, <2>3, <2>4, SetResultKeeps
  <2>. QED
    BY <2>1, <2>5 DEF SameChoice, KeepsName, Tells
<1>. QED
  BY <1>2, <1>3

LEMMA AllowKeeps ==
  ASSUME NEW s, PanelOK(s), NEW a \in AccountOrNone
  PROVE  LET t == Allow(s, a)
         IN  PanelOK(t) /\ SameChoice(t, s) /\ Tells(t, s, {a})
<1>1. s \in Panel
  BY DEF PanelOK
<1>. DEFINE d == s.delayed \/ (s.view = "visible" /\ s.client # "settings")
            t == [s EXCEPT !.delayed = d]
<1>2. d \in BOOLEAN
  BY <1>1 DEF Panel
<1>3. Allow(s, a) = SetResult(t, a)
  BY DEF Allow
<1>. HIDE DEF d
<1>4. /\ t \in Panel /\ SameChoice(t, s) /\ t.sent = s.sent
      /\ t.inProgress = s.inProgress /\ t.life = s.life
  BY <1>1, <1>2 DEF Panel, SameChoice, KeepsName
<1>. HIDE DEF t
<1>5. PanelOK(t) /\ a \in Result
  BY <1>4 DEF PanelOK, SameChoice, KeepsName, Result
<1>6. /\ PanelOK(Allow(s, a)) /\ SameChoice(Allow(s, a), t) /\ Tells(Allow(s, a), t, {a})
  BY <1>3, <1>5, SetResultKeeps
<1>. QED
  BY <1>4, <1>6 DEF SameChoice, KeepsName, Tells

\* An account is chosen, or remains so.
Chooses(t, s, a) ==
  /\ t.client = s.client /\ t.created = s.created /\ t.stored = s.stored
  /\ t.chosen \in {s.chosen, a} /\ KeepsName(t, s)
  /\ t.step = "account" =>
       t.chosen = s.chosen /\ s.step = "account" /\ t.enabling = s.enabling

LEMMA GrantAccessKeeps ==
  ASSUME NEW s, PanelOK(s), NEW a, NEW rows \in SUBSET Account
  PROVE  LET t == GrantAccess(s, a, rows)
         IN  PanelOK(t) /\ Chooses(t, s, a) /\ Tells(t, s, {NoAccount})
<1>1. s \in Panel
  BY DEF PanelOK
<1>2. CASE a \notin rows
  <2>1. GrantAccess(s, a, rows) = Deny(s)
    BY <1>2 DEF GrantAccess
  <2>. QED
    BY <2>1, DenyKeeps DEF SameChoice, Chooses
<1>3. CASE a \in rows /\ s.chosen = a
  BY <1>3 DEF GrantAccess, Chooses, KeepsName, Tells
<1>4. CASE a \in rows /\ s.chosen # a
  <2>. DEFINE step == IF a \in WithCredentials THEN "credentials" ELSE "idle"
              t == [s EXCEPT !.chosen = a, !.enabling = {}, !.step = step]
  <2>1. GrantAccess(s, a, rows) = t
    BY <1>4 DEF GrantAccess
  <2>2. /\ step \in {"idle", "credentials", "acl", "account"} /\ step # "account"
        /\ step # "idle" => a \in WithCredentials
    OBVIOUS
  <2>3. a \in AccountOrNone
    BY <1>4 DEF AccountOrNone
  <2>. HIDE DEF step
  <2>4. /\ t \in Panel /\ t.chosen = a /\ t.step = step /\ t.sent = s.sent
        /\ t.inProgress = s.inProgress /\ t.life = s.life /\ t.client = s.client
        /\ t.created = s.created /\ t.stored = s.stored /\ KeepsName(t, s)
    BY <1>1, <2>2, <2>3 DEF Panel, KeepsName
  <2>. HIDE DEF t
  <2>. QED
    BY <2>1, <2>2, <2>4 DEF PanelOK, Chooses, Tells
<1>. QED
  BY <1>2, <1>3, <1>4

\* The account that the plugin created may be granted or answered with.
LEMMA IfReadyKeeps ==
  ASSUME NEW s, PanelOK(s), NEW rows \in SUBSET Account
  PROVE  LET t == GrantAccessIfReady(s, rows)
         IN  /\ PanelOK(t) /\ t.client = s.client /\ t.stored = s.stored
             /\ t.created \in {s.created, NoAccount} /\ t.chosen \in {s.chosen, s.created}
             /\ KeepsName(t, s)
             /\ t.step = "account" =>
                  t.chosen = s.chosen /\ s.step = "account" /\ t.enabling = s.enabling
             /\ s.client # "settings" => Tells(t, s, {NoAccount})
<1>. DEFINE t == GrantAccessIfReady(s, rows)
<1>1. s \in Panel /\ s.created \in AccountOrNone
  BY PanelFields DEF PanelOK
<1>2. CASE s.created = NoAccount \/ (s.client # "settings" /\ s.created \notin rows)
  <2>1. NoAccount \notin rows
    BY PanelAssumption
  <2>2. t = s
    BY <1>2, <2>1 DEF GrantAccessIfReady
  <2>. HIDE DEF t
  <2>3. PanelOK(t) /\ t.client = s.client /\ Tells(t, s, {NoAccount}) /\ KeepsName(t, s)
    BY <2>2 DEF Tells, KeepsName
  <2>. QED
    BY <2>2, <2>3 DEF t
<1>3. CASE s.created # NoAccount /\ s.client = "settings"
  <2>. DEFINE u == Allow(s, s.created)
              v == [u EXCEPT !.page = "spinner"]
  <2>1. t = v
    BY <1>3 DEF GrantAccessIfReady
  <2>2. PanelOK(u) /\ SameChoice(u, s)
    BY <1>1, AllowKeeps
  <2>. HIDE DEF u
  <2>3. /\ v \in Panel /\ SameChoice(v, u) /\ v.sent = u.sent
        /\ v.inProgress = u.inProgress /\ v.life = u.life
    BY <2>2 DEF Panel, SameChoice, KeepsName, PanelOK
  <2>. HIDE DEF v, t
  <2>4. PanelOK(t)
    BY <2>1, <2>2, <2>3 DEF PanelOK, SameChoice, KeepsName
  <2>. QED
    BY <1>3, <2>1, <2>2, <2>3, <2>4 DEF SameChoice, KeepsName, t
<1>4. CASE s.created # NoAccount /\ s.client # "settings" /\ s.created \in rows
  <2>. DEFINE u == GrantAccess(s, s.created, rows)
              v == [u EXCEPT !.created = NoAccount]
  <2>1. t = v
    BY <1>4 DEF GrantAccessIfReady
  <2>2. PanelOK(u) /\ Chooses(u, s, s.created) /\ Tells(u, s, {NoAccount})
    BY GrantAccessKeeps
  <2>. HIDE DEF u
  <2>3. /\ v \in Panel /\ v.created = NoAccount /\ v.sent = u.sent /\ v.client = u.client
        /\ v.chosen = u.chosen /\ v.stored = u.stored /\ v.step = u.step
        /\ v.enabling = u.enabling /\ v.inProgress = u.inProgress /\ v.life = u.life
        /\ v.label = u.label
    BY <2>2 DEF Panel, PanelOK, AccountOrNone
  <2>. HIDE DEF v, t
  <2>4. PanelOK(t)
    BY <2>1, <2>2, <2>3 DEF PanelOK
  <2>. QED
    BY <2>1, <2>2, <2>3, <2>4 DEF Chooses, KeepsName, Tells, t
<1>. QED
  BY <1>2, <1>3, <1>4

-----------------------------------------------------------------------------
(***************************************************************************)
(* The steps.  Each keeps the invariant, opens only accounts of the user's *)
(* choice, and tells an application only of an account it can use.         *)
(***************************************************************************)
Opens ==
  /\ acl' \subseteq acl \union Approved
  /\ \A a \in accounts \intersect accounts' : enabled'[a] # enabled[a] => a \in Approved

Quiet == p.client = "app" => Tells(p', p, {NoAccount, "invalid"})

StepOK == PanelInv' /\ Opens /\ Quiet

\* A step that leaves the database and the models alone.
LEMMA PanelOnly ==
  ASSUME PanelInv, Idle(<<model, shown, consented, mistaken>>), PanelOK(p'), ChoiceOK',
         KeepsName(p', p),
         p.client = "app" => Tells(p', p, {NoAccount, "invalid"}),
         p'.step = "account" => p'.chosen = p.chosen /\ p.step = "account"
                                /\ p'.enabling = p.enabling
  PROVE  StepOK
<1>1. /\ accounts' = accounts /\ acl' = acl /\ enabled' = enabled /\ model' = model
      /\ shown' = shown
      /\ consented' = consented /\ mistaken' = mistaken
  BY DEF Idle, database
<1>2. DatabaseOK'
  BY <1>1 DEF PanelInv, DatabaseOK
<1>3. GrantingOK'
  BY <1>1 DEF PanelInv, GrantingOK
<1>4. PanelOK(p)'
  OBVIOUS
<1>5. NameOK' /\ Opens
  BY <1>1 DEF PanelInv, NameOK, KeepsName, Opens
<1>. QED
  BY <1>2, <1>3, <1>4, <1>5 DEF StepOK, PanelInv, Quiet

\* A page, a view or the life of the request changes.
LEMMA ShapeSteps ==
  ASSUME PanelInv, CreateAccount \/ Back \/ CloseWindow \/ DeleteRequest \/ Exit
  PROVE  StepOK
<1>1. p \in Panel /\ PanelOK(p) /\ ChoiceOK /\ Idle(<<model, shown, consented, mistaken>>)
  BY DEF PanelInv, PanelOK, CreateAccount, Back, CloseWindow, DeleteRequest, Exit
<1>2. /\ p' \in Panel /\ p'.sent = p.sent /\ p'.inProgress = p.inProgress
      /\ p'.client = p.client /\ p'.label = p.label
      /\ p'.created = p.created /\ p'.stored \in {p.stored, NoAccount}
      /\ \/ p'.chosen = p.chosen /\ p'.step = p.step /\ p'.enabling = p.enabling
         \/ p'.chosen = NoAccount /\ p'.step = "idle"
  <2>1. CASE CreateAccount
    BY <1>1, <2>1 DEF CreateAccount, Panel, AccountOrNone
  <2>2. CASE Back
    BY <1>1, <2>2 DEF Back, Panel, AccountOrNone
  <2>3. CASE CloseWindow
    BY <1>1, <2>3 DEF CloseWindow, Panel
  <2>4. CASE DeleteRequest
    BY <1>1, <2>4 DEF DeleteRequest, Panel, AccountOrNone
  <2>5. CASE Exit
    BY <1>1, <2>5 DEF Exit, Panel, AccountOrNone
  <2>. QED
    BY <2>1, <2>2, <2>3, <2>4, <2>5
<1>3. \/ p'.life = p.life
      \/ p.life = "completed" /\ p'.life = "deleted"
      \/ p.life = "live" /\ p'.life = "exited"
  <2>1. CASE CreateAccount
    BY <1>1, <2>1 DEF CreateAccount, Panel
  <2>2. CASE Back
    BY <1>1, <2>2 DEF Back, Panel
  <2>3. CASE CloseWindow
    BY <1>1, <2>3 DEF CloseWindow, Panel
  <2>4. CASE DeleteRequest
    BY <1>1, <2>4 DEF DeleteRequest, Panel
  <2>5. CASE Exit
    BY <1>1, <2>5 DEF Exit, Panel
  <2>. QED
    BY <2>1, <2>2, <2>3, <2>4, <2>5
<1>4. PanelOK(p')
  BY <1>1, <1>2, <1>3 DEF PanelOK
<1>5. ChoiceOK'
  BY <1>1, <1>2 DEF ChoiceOK, Idle
<1>6. Tells(p', p, {NoAccount, "invalid"}) /\ KeepsName(p', p)
  BY <1>2, <1>3 DEF Tells, KeepsName
<1>. QED
  BY <1>1, <1>2, <1>4, <1>5, <1>6, PanelOnly

\* The request enters the panel.
LEMMA StartedKeeps ==
  ASSUME PanelInv, p.life = "none"
  PROVE  PanelOK(Started) /\ SameChoice(Started, p) /\ Started.sent = p.sent
<1>1. p \in Panel /\ PanelOK(p)
  BY DEF PanelInv, PanelOK
<1>2. /\ Started \in Panel /\ SameChoice(Started, p) /\ Started.sent = p.sent
      /\ Started.life = "live"
  BY <1>1 DEF Started, Panel, SameChoice, KeepsName
<1>. QED
  BY <1>1, <1>2 DEF PanelOK, SameChoice, KeepsName

LEMMA RefuseStep == ASSUME PanelInv, Refuse PROVE StepOK
<1>1. /\ PanelOK(Started) /\ SameChoice(Started, p) /\ Started.sent = p.sent
      /\ p' = SetResult(Started, "invalid") /\ Idle(<<model, shown, consented, mistaken>>)
  BY StartedKeeps DEF Refuse
<1>2. "invalid" \in Result
  BY DEF Result
<1>3. PanelOK(p') /\ SameChoice(p', Started) /\ Tells(p', Started, {"invalid"})
  BY <1>1, <1>2, SetResultKeeps
<1>4. SameChoice(p', p) /\ Tells(p', p, {NoAccount, "invalid"})
  BY <1>1, <1>3 DEF SameChoice, KeepsName, Tells
<1>5. ChoiceOK'
  BY <1>1, <1>4 DEF PanelInv, ChoiceOK, SameChoice, KeepsName, Idle
<1>. QED
  BY <1>1, <1>3, <1>4, <1>5, PanelOnly DEF SameChoice, KeepsName

LEMMA StartStep == ASSUME PanelInv, Start PROVE StepOK
<1>1. PanelOK(Started) /\ SameChoice(Started, p) /\ Started.sent = p.sent /\ p.life = "none"
  BY StartedKeeps DEF Start
<1>. DEFINE Starts ==
       /\ PanelOK(p') /\ p'.life # "none" /\ p'.chosen = p.chosen /\ p'.created = p.created
       /\ p'.stored = p.stored /\ p'.step = p.step /\ p'.enabling = p.enabling
       /\ p'.label = p.label \/ p'.label \in shown'
       /\ p.client = "app" => Tells(p', p, {NoAccount, "invalid"})
<1>2. Starts
  <2>1. Started.life = "live"
    BY <1>1 DEF Started, PanelOK, Panel, PanelInv
  <2>2. CASE p' = Deny(Started)
    <3>1. PanelOK(p') /\ SameChoice(p', Started) /\ Tells(p', Started, {NoAccount})
      BY <1>1, <2>2, DenyKeeps
    <3>. QED
      BY <1>1, <2>1, <3>1 DEF SameChoice, KeepsName, Tells
  <2>3. ASSUME p.client = "unconfined", NEW a \in accounts, p' = AllowOnly(Started, a)
        PROVE  Starts
    <3>1. a \in AccountOrNone
      BY DEF PanelInv, DatabaseOK, AccountOrNone
    <3>2. PanelOK(p') /\ SameChoice(p', Started)
      BY <1>1, <2>3, <3>1, AllowKeeps DEF AllowOnly
    <3>. QED
      BY <1>1, <2>1, <2>3, <3>2 DEF SameChoice, KeepsName
  <2>4. CASE p' = [Started EXCEPT !.view = "visible", !.page = "create"]
    <3>1. /\ p' \in Panel /\ SameChoice(p', Started) /\ p'.sent = Started.sent
          /\ p'.inProgress = Started.inProgress /\ p'.life = Started.life
      BY <1>1, <2>4 DEF PanelOK, Panel, SameChoice, KeepsName
    <3>. QED
      BY <1>1, <2>1, <3>1 DEF PanelOK, SameChoice, KeepsName, Tells
  <2>5. ASSUME NEW a \in shown', shown' \subseteq Account,
               p' = [Started EXCEPT !.view = "visible", !.page = "authorize", !.label = a]
        PROVE  Starts
    <3>1. /\ p' \in Panel /\ p'.sent = Started.sent /\ p'.label = a
          /\ p'.inProgress = Started.inProgress /\ p'.life = Started.life
          /\ p'.chosen = Started.chosen /\ p'.created = Started.created
          /\ p'.stored = Started.stored /\ p'.step = Started.step
          /\ p'.enabling = Started.enabling
      BY <1>1, <2>5 DEF PanelOK, Panel, AccountOrNone
    <3>. QED
      BY <1>1, <2>1, <3>1 DEF PanelOK, SameChoice, Tells
  <2>6. shown' \subseteq Account
    BY DEF PanelInv, DatabaseOK, Start
  <2>7. \/ p' = Deny(Started)
        \/ p.client = "unconfined" /\ \E a \in accounts : p' = AllowOnly(Started, a)
        \/ p' = [Started EXCEPT !.view = "visible", !.page = "create"]
        \/ \E a \in shown' :
             p' = [Started EXCEPT !.view = "visible", !.page = "authorize", !.label = a]
    BY DEF Start
  <2>. QED
    BY <2>2, <2>3, <2>4, <2>5, <2>6, <2>7
<1>3. /\ accounts' = accounts /\ acl' = acl /\ enabled' = enabled /\ consented' = consented
      /\ mistaken' = mistaken /\ model' = accounts /\ shown' \subseteq accounts
  BY DEF Start, Idle, database
<1>. HIDE DEF Starts
<1>4. DatabaseOK' /\ Opens
  BY <1>3 DEF PanelInv, DatabaseOK, Opens
<1>5. ChoiceOK' /\ GrantingOK'
  BY <1>2, <1>3 DEF PanelInv, ChoiceOK, GrantingOK, Starts
<1>6. NameOK'
  BY <1>1, <1>2, <1>3, PanelAssumption DEF PanelInv, DatabaseOK, NameOK, Starts
<1>. QED
  BY <1>2, <1>4, <1>5, <1>6 DEF StepOK, PanelInv, Quiet, Starts

LEMMA DeniedStep == ASSUME PanelInv, Denied PROVE StepOK
<1>1. PanelOK(p) /\ p' = Deny(p) /\ Idle(<<model, shown, consented, mistaken>>)
  BY DEF PanelInv, Denied
<1>2. PanelOK(p') /\ SameChoice(p', p) /\ Tells(p', p, {NoAccount})
  BY <1>1, DenyKeeps
<1>3. ChoiceOK'
  BY <1>1, <1>2 DEF PanelInv, ChoiceOK, SameChoice, KeepsName, Idle
<1>4. Tells(p', p, {NoAccount, "invalid"})
  BY <1>2 DEF Tells
<1>. QED
  BY <1>1, <1>2, <1>3, <1>4, PanelOnly DEF SameChoice, KeepsName

LEMMA PluginFinishedStep == ASSUME PanelInv, PluginFinished PROVE StepOK
<1>. DEFINE s == [p EXCEPT !.created = p.stored]
<1>1. /\ PanelOK(p) /\ p \in Panel /\ p' = GrantAccessIfReady(s, model)
      /\ Idle(<<model, shown, consented, mistaken>>)
  BY DEF PanelInv, PanelOK, PluginFinished
<1>2. /\ s \in Panel /\ s.created = p.stored /\ s.stored = p.stored /\ s.sent = p.sent
      /\ s.inProgress = p.inProgress /\ s.life = p.life /\ s.client = p.client
      /\ s.chosen = p.chosen /\ s.step = p.step /\ s.enabling = p.enabling
      /\ s.label = p.label
  BY <1>1 DEF Panel
<1>. HIDE DEF s
<1>3. PanelOK(s) /\ model \in SUBSET Account
  BY <1>1, <1>2 DEF PanelOK, PanelInv, DatabaseOK
<1>4. /\ PanelOK(p') /\ p'.client = s.client /\ p'.stored = s.stored
      /\ p'.created \in {s.created, NoAccount} /\ p'.chosen \in {s.chosen, s.created}
      /\ p'.step = "account" =>
           p'.chosen = s.chosen /\ s.step = "account" /\ p'.enabling = s.enabling
      /\ s.client # "settings" => Tells(p', s, {NoAccount})
      /\ KeepsName(p', s)
  BY <1>1, <1>3, IfReadyKeeps
<1>5. ChoiceOK'
  BY <1>1, <1>2, <1>4 DEF PanelInv, ChoiceOK, Idle
<1>6. (p.client = "app" => Tells(p', p, {NoAccount, "invalid"})) /\ KeepsName(p', p)
  BY <1>2, <1>4 DEF Tells, KeepsName
<1>. QED
  BY <1>1, <1>2, <1>4, <1>5, <1>6, PanelOnly

LEMMA OnCountChangedStep == ASSUME PanelInv, OnCountChanged PROVE StepOK
<1>1. /\ PanelOK(p) /\ p' = GrantAccessIfReady(p, accounts) /\ accounts \in SUBSET Account
      /\ accounts' = accounts /\ acl' = acl /\ enabled' = enabled /\ consented' = consented
      /\ model' = accounts /\ shown' \subseteq model' /\ mistaken' = mistaken
      /\ shown \intersect accounts \subseteq shown'
  BY DEF PanelInv, OnCountChanged, Idle, database, DatabaseOK
<1>2. /\ PanelOK(p') /\ p'.client = p.client /\ p'.stored = p.stored
      /\ p'.created \in {p.created, NoAccount} /\ p'.chosen \in {p.chosen, p.created}
      /\ p'.step = "account" =>
           p'.chosen = p.chosen /\ p.step = "account" /\ p'.enabling = p.enabling
      /\ p.client # "settings" => Tells(p', p, {NoAccount})
      /\ KeepsName(p', p)
  BY <1>1, IfReadyKeeps
<1>3. DatabaseOK' /\ Opens
  BY <1>1 DEF PanelInv, DatabaseOK, Opens
<1>4. ChoiceOK' /\ GrantingOK'
  BY <1>1, <1>2 DEF PanelInv, ChoiceOK, GrantingOK
<1>5. Quiet
  BY <1>2 DEF Quiet, Tells
<1>6. NameOK'
  BY <1>1, <1>2 DEF PanelInv, NameOK, KeepsName
<1>. QED
  BY <1>2, <1>3, <1>4, <1>5, <1>6 DEF StepOK, PanelInv

LEMMA AllowedStep ==
  ASSUME PanelInv, NEW a \in AccountOrNone, Allowed(a)
  PROVE  StepOK
<1>1. /\ PanelOK(p) /\ p' = GrantAccess(p, a, model) /\ model \in SUBSET Account
      /\ accounts' = accounts /\ acl' = acl /\ enabled' = enabled
      /\ model' = model /\ shown' = shown /\ IsLive
      /\ consented' = consented \union {Displayed(a)}
      /\ mistaken' = mistaken \union ({a} \ {Displayed(a)})
  BY DEF PanelInv, DatabaseOK, Allowed, Visible, database
<1>2. PanelOK(p') /\ Chooses(p', p, a) /\ Tells(p', p, {NoAccount})
  BY <1>1, GrantAccessKeeps
<1>3. DatabaseOK' /\ Opens
  BY <1>1 DEF PanelInv, DatabaseOK, Opens
<1>4. ChoiceOK' /\ GrantingOK'
  BY <1>1, <1>2 DEF PanelInv, ChoiceOK, GrantingOK, Chooses
<1>5. Quiet
  BY <1>2 DEF Quiet, Tells
<1>6. mistaken' # mistaken => p.label \notin accounts
  BY <1>1 DEF PanelInv, NameOK, Displayed
<1>7. NameOK'
  BY <1>1, <1>2, <1>6 DEF PanelInv, NameOK, Chooses, KeepsName, IsLive
<1>. QED
  BY <1>2, <1>3, <1>4, <1>5, <1>7 DEF StepOK, PanelInv

-----------------------------------------------------------------------------
(***************************************************************************)
(* Steps of the database.                                                  *)
(***************************************************************************)
LEMMA PluginStoresStep ==
  ASSUME PanelInv, NEW a \in Account, PluginStores(a)
  PROVE  StepOK
<1>1. /\ PanelOK(p) /\ p \in Panel /\ p' = [p EXCEPT !.stored = a]
      /\ a \notin accounts /\ a \notin consented \union mistaken /\ a # p.label /\ IsLive
      /\ accounts' = accounts \union {a} /\ acl' = acl /\ model' = model /\ shown' = shown
      /\ enabled' = [b \in accounts' |-> IF b = a THEN {} ELSE enabled[b]]
      /\ consented' = consented \union {a} /\ mistaken' = mistaken
  BY DEF PanelInv, PanelOK, PluginStores, IsNew, Visible
<1>2. /\ p' \in Panel /\ p'.stored = a /\ p'.created = p.created /\ p'.sent = p.sent
      /\ p'.inProgress = p.inProgress /\ p'.life = p.life
      /\ p'.chosen = p.chosen /\ p'.step = p.step /\ p'.enabling = p.enabling
      /\ p'.label = p.label
  BY <1>1 DEF Panel, AccountOrNone
<1>3. PanelOK(p')
  BY <1>1, <1>2 DEF PanelOK
<1>4. DatabaseOK' /\ Opens
  BY <1>1 DEF PanelInv, DatabaseOK, Opens
<1>5. ChoiceOK'
  BY <1>1, <1>2 DEF PanelInv, ChoiceOK
<1>6. p.chosen # a
  BY <1>1, PanelAssumption DEF PanelInv, ChoiceOK
<1>7. GrantingOK'
  BY <1>1, <1>2, <1>6 DEF PanelInv, GrantingOK
<1>8. NameOK'
  BY <1>1, <1>2 DEF PanelInv, NameOK, IsLive
<1>. QED
  BY <1>2, <1>3, <1>4, <1>5, <1>7, <1>8 DEF StepOK, PanelInv, Quiet, Tells

LEMMA CreatedElsewhereStep ==
  ASSUME PanelInv, NEW a \in Account, CreatedElsewhere(a)
  PROVE  StepOK
<1>1. PICK services \in {{}, Service} :
        enabled' = [b \in accounts' |-> IF b = a THEN services ELSE enabled[b]]
  BY DEF CreatedElsewhere
<1>2. /\ a \notin accounts /\ a \notin consented \union mistaken /\ a # p.label
      /\ accounts' = accounts \union {a} /\ acl' = acl /\ model' = model /\ shown' = shown
      /\ p' = p
      /\ consented' = consented /\ mistaken' = mistaken
  BY DEF CreatedElsewhere, IsNew
<1>3. DatabaseOK' /\ Opens
  BY <1>1, <1>2 DEF PanelInv, DatabaseOK, Opens
<1>4. p.chosen # a
  BY <1>2, PanelAssumption DEF PanelInv, ChoiceOK
<1>5. GrantingOK'
  BY <1>1, <1>2, <1>4 DEF PanelInv, GrantingOK
<1>6. NameOK'
  BY <1>2 DEF PanelInv, NameOK
<1>. QED
  BY <1>2, <1>3, <1>5, <1>6 DEF StepOK, PanelInv, ChoiceOK, PanelOK, Quiet, Tells

LEMMA DeletedElsewhereStep ==
  ASSUME PanelInv, NEW a \in Account, DeletedElsewhere(a)
  PROVE  StepOK
<1>1. /\ accounts' = accounts \ {a} /\ acl' = acl \ {a}
      /\ enabled' = [b \in accounts' |-> enabled[b]]
      /\ model' = model /\ shown' = shown /\ p' = p /\ consented' = consented
      /\ mistaken' = mistaken
  BY DEF DeletedElsewhere
<1>2. DatabaseOK' /\ Opens
  BY <1>1 DEF PanelInv, DatabaseOK, Opens
<1>3. GrantingOK'
  BY <1>1 DEF PanelInv, GrantingOK
<1>4. NameOK'
  BY <1>1 DEF PanelInv, NameOK
<1>. QED
  BY <1>1, <1>2, <1>3, <1>4 DEF StepOK, PanelInv, ChoiceOK, PanelOK, Quiet, Tells

\* The last step of a grant begins, with the ACL complete.
LEMMA ChosenApproved ==
  ASSUME PanelInv, p.chosen \in accounts
  PROVE  p.chosen \in Approved
<1>1. p.chosen \in consented \union mistaken
  BY PanelAssumption DEF PanelInv, ChoiceOK, DatabaseOK
<1>. QED
  BY <1>1 DEF PanelInv, NameOK, Approved

LEMMA AclDoneKeeps ==
  ASSUME PanelInv, Chosen, p.chosen \in WithCredentials
  PROVE  /\ PanelOK(AclDone(p)) /\ AclDone(p).chosen = p.chosen
         /\ AclDone(p).created = p.created /\ AclDone(p).stored = p.stored
         /\ AclDone(p).step = "account" /\ AclDone(p).sent = p.sent
         /\ KeepsName(AclDone(p), p)
         /\ AclDone(p).enabling = Service \ enabled[p.chosen]
<1>. DEFINE rest == Service \ enabled[p.chosen]
            t == [p EXCEPT !.step = "account", !.enabling = rest]
<1>1. p \in Panel /\ rest \in SUBSET Service /\ AclDone(p) = t
  BY DEF PanelInv, PanelOK, AclDone
<1>. HIDE DEF rest
<1>2. /\ t \in Panel /\ t.chosen = p.chosen /\ t.created = p.created /\ t.stored = p.stored
      /\ t.step = "account" /\ t.sent = p.sent /\ t.enabling = rest
      /\ t.inProgress = p.inProgress /\ t.life = p.life /\ t.label = p.label
  BY <1>1 DEF Panel
<1>. HIDE DEF t
<1>3. PanelOK(t)
  BY <1>2 DEF PanelInv, PanelOK
<1>. QED
  BY <1>1, <1>2, <1>3 DEF rest, KeepsName

LEMMA CredentialsSyncedStep == ASSUME PanelInv, CredentialsSynced PROVE StepOK
<1>1. /\ PanelOK(p) /\ p \in Panel /\ Chosen /\ p.step = "credentials"
      /\ Idle(<<model, shown, consented, mistaken>>)
      /\ accounts' = accounts /\ acl' = acl /\ enabled' = enabled
      /\ consented' = consented /\ mistaken' = mistaken
      /\ model' = model /\ shown' = shown
  BY DEF PanelInv, PanelOK, CredentialsSynced, Idle, database
<1>2. p.chosen \in WithCredentials
  BY <1>1 DEF PanelOK
<1>3. CASE p.chosen \in acl
  <2>1. p' = AclDone(p)
    BY <1>3 DEF CredentialsSynced
  <2>2. /\ PanelOK(p') /\ p'.chosen = p.chosen /\ p'.created = p.created
        /\ p'.stored = p.stored /\ p'.sent = p.sent
        /\ p'.enabling = Service \ enabled[p.chosen] /\ KeepsName(p', p)
    BY <1>1, <1>2, <2>1, AclDoneKeeps
  <2>3. GrantingOK'
    BY <1>1, <1>3, <2>2 DEF GrantingOK
  <2>4. ChoiceOK' /\ DatabaseOK' /\ Opens
    BY <1>1, <2>2 DEF PanelInv, ChoiceOK, DatabaseOK, Opens
  <2>5. NameOK'
    BY <1>1, <2>2 DEF PanelInv, NameOK, KeepsName
  <2>. QED
    BY <2>2, <2>3, <2>4, <2>5 DEF StepOK, PanelInv, Quiet, Tells
<1>4. CASE p.chosen \notin acl
  <2>1. p' = [p EXCEPT !.step = "acl"]
    BY <1>4 DEF CredentialsSynced
  <2>2. /\ p' \in Panel /\ p'.chosen = p.chosen /\ p'.created = p.created
        /\ p'.stored = p.stored /\ p'.sent = p.sent /\ p'.step = "acl"
        /\ p'.inProgress = p.inProgress /\ p'.life = p.life /\ p'.label = p.label
    BY <1>1, <2>1 DEF Panel
  <2>3. PanelOK(p')
    BY <1>1, <1>2, <2>2 DEF PanelOK
  <2>4. ChoiceOK'
    BY <1>1, <2>2 DEF PanelInv, ChoiceOK
  <2>5. Tells(p', p, {NoAccount, "invalid"}) /\ KeepsName(p', p)
    BY <2>2 DEF Tells, KeepsName
  <2>. QED
    BY <1>1, <2>2, <2>3, <2>4, <2>5, PanelOnly
<1>. QED
  BY <1>3, <1>4

LEMMA AclSyncedStep == ASSUME PanelInv, AclSynced PROVE StepOK
<1>1. /\ PanelOK(p) /\ Chosen /\ p.step = "acl" /\ p.chosen \in accounts
      /\ acl' = acl \union {p.chosen} /\ p' = AclDone(p)
      /\ accounts' = accounts /\ enabled' = enabled
      /\ consented' = consented /\ mistaken' = mistaken
      /\ model' = model /\ shown' = shown
  BY DEF PanelInv, AclSynced, Chosen
<1>2. p.chosen \in WithCredentials /\ p.chosen \in Approved
  BY <1>1, ChosenApproved DEF PanelInv, PanelOK
<1>3. /\ PanelOK(p') /\ p'.chosen = p.chosen /\ p'.created = p.created
      /\ p'.stored = p.stored /\ p'.sent = p.sent
      /\ p'.enabling = Service \ enabled[p.chosen] /\ KeepsName(p', p)
  BY <1>1, <1>2, AclDoneKeeps
<1>4. GrantingOK' /\ NameOK'
  BY <1>1, <1>3 DEF PanelInv, GrantingOK, NameOK, KeepsName
<1>5. ChoiceOK' /\ DatabaseOK' /\ Opens
  BY <1>1, <1>2, <1>3 DEF PanelInv, ChoiceOK, DatabaseOK, Opens
<1>. QED
  BY <1>3, <1>4, <1>5 DEF StepOK, PanelInv, Quiet, Tells

\* The account is answered with here: it is granted.
LEMMA AccountSyncedStep ==
  ASSUME PanelInv, AccountSynced
  PROVE  /\ PanelInv' /\ Opens /\ Tells(p', p, {p.chosen})
         /\ p.chosen \in acl' /\ Service \subseteq enabled'[p.chosen]
<1>1. /\ PanelOK(p) /\ p \in Panel /\ p.step = "account" /\ p.chosen \in accounts
      /\ enabled' = [enabled EXCEPT ![p.chosen] = @ \union p.enabling]
      /\ p' = [Allow(p, p.chosen) EXCEPT !.page = "spinner", !.step = "idle", !.enabling = {}]
      /\ accounts' = accounts /\ acl' = acl
      /\ consented' = consented /\ mistaken' = mistaken
      /\ model' = model /\ shown' = shown
  BY DEF PanelInv, PanelOK, AccountSynced, Chosen
<1>2. /\ p.chosen \in AccountOrNone /\ p.enabling \in SUBSET Service
      /\ enabled \in [accounts -> SUBSET Service]
  BY <1>1, PanelFields DEF PanelInv, DatabaseOK
<1>3. p.chosen \in Approved
  BY <1>1, ChosenApproved
<1>. DEFINE t == Allow(p, p.chosen)
<1>4. PanelOK(t) /\ SameChoice(t, p) /\ Tells(t, p, {p.chosen})
  BY <1>1, <1>2, AllowKeeps
<1>5. p' = [t EXCEPT !.page = "spinner", !.step = "idle", !.enabling = {}]
  BY <1>1
<1>. HIDE DEF t
<1>6. /\ p' \in Panel /\ p'.sent = t.sent /\ p'.step = "idle" /\ p'.chosen = t.chosen
      /\ p'.created = t.created /\ p'.stored = t.stored
      /\ p'.inProgress = t.inProgress /\ p'.life = t.life /\ p'.label = t.label
  BY <1>4, <1>5 DEF PanelOK, Panel
<1>7. PanelOK(p')
  BY <1>4, <1>6 DEF PanelOK
<1>8. ChoiceOK' /\ GrantingOK' /\ NameOK'
  BY <1>1, <1>4, <1>6 DEF PanelInv, ChoiceOK, GrantingOK, NameOK, SameChoice, KeepsName
<1>9. enabled' \in [accounts -> SUBSET Service]
  BY <1>1, <1>2
<1>10. /\ enabled'[p.chosen] = enabled[p.chosen] \union p.enabling
       /\ \A a \in accounts : a # p.chosen => enabled'[a] = enabled[a]
  BY <1>1, <1>2
<1>11. DatabaseOK' /\ Opens
  BY <1>1, <1>3, <1>9, <1>10 DEF PanelInv, DatabaseOK, Opens
<1>12. p.chosen \in acl' /\ Service \subseteq enabled'[p.chosen]
  BY <1>1, <1>10 DEF PanelInv, GrantingOK
<1>. QED
  BY <1>4, <1>6, <1>7, <1>8, <1>11, <1>12 DEF PanelInv, Tells

-----------------------------------------------------------------------------
LEMMA PanelInit == Init => PanelInv
<1>. SUFFICES ASSUME Init
              PROVE  PanelInv
  OBVIOUS
<1>1. p \in Panel
  <2>1. /\ p.client \in Clients /\ p.single \in SingleAccount /\ p.life \in {"none"}
        /\ p.inProgress = FALSE /\ p.sent = <<>> /\ p.delayed = FALSE
        /\ p.view = "none" /\ p.page = "none" /\ p.step = "idle" /\ p.label = NoAccount
        /\ p.stored = NoAccount /\ p.created = NoAccount /\ p.chosen = NoAccount
        /\ p.enabling = {} /\ p.denied = FALSE
    BY DEF Init
  <2>2. p = [client |-> p.client, single |-> p.single, life |-> "none", inProgress |-> FALSE,
             sent |-> <<>>, delayed |-> FALSE, view |-> "none", page |-> "none",
             label |-> NoAccount,
             stored |-> NoAccount, created |-> NoAccount, chosen |-> NoAccount,
             step |-> "idle", enabling |-> {}, denied |-> FALSE]
    BY DEF Init
  <2>3. NoAccount \in AccountOrNone /\ <<>> \in Seq(AccountOrNone \union {"invalid"})
    BY EmptySeq DEF AccountOrNone
  <2>. QED
    BY <2>1, <2>2, <2>3 DEF Panel
<1>2. /\ p.sent = <<>> /\ p.life = "none" /\ p.inProgress = FALSE /\ p.step = "idle"
      /\ p.chosen = NoAccount /\ p.created = NoAccount /\ p.stored = NoAccount
      /\ p.label = NoAccount /\ NoAccount \notin Account
  BY PanelAssumption DEF Init
<1>3. PanelOK(p)
  BY <1>1, <1>2 DEF PanelOK
<1>. QED
  BY <1>2, <1>3 DEF Init, PanelInv, DatabaseOK, ChoiceOK, NameOK, GrantingOK

\* Every step but the last of a grant.
LEMMA OtherSteps == ASSUME PanelInv, Next, ~AccountSynced PROVE StepOK
<1>1. ASSUME NEW a \in AccountOrNone, Allowed(a)
      PROVE  StepOK
  BY <1>1, AllowedStep
<1>2. ASSUME NEW a \in Account, PluginStores(a) \/ CreatedElsewhere(a) \/ DeletedElsewhere(a)
      PROVE  StepOK
  BY <1>2, PluginStoresStep, CreatedElsewhereStep, DeletedElsewhereStep
<1>. QED
  BY <1>1, <1>2, StartStep, RefuseStep, OnCountChangedStep, CredentialsSyncedStep,
     AclSyncedStep, ShapeSteps, DeniedStep, PluginFinishedStep
  DEF Next, Grant

LEMMA PanelNext == PanelInv /\ [Next]_vars => PanelInv'
<1>1. PanelInv /\ Next => PanelInv'
  BY OtherSteps, AccountSyncedStep DEF StepOK
<1>2. PanelInv /\ UNCHANGED vars => PanelInv'
  BY DEF vars, database, PanelInv, PanelOK, DatabaseOK, ChoiceOK,
     NameOK, GrantingOK
<1>. QED
  BY <1>1, <1>2

LEMMA PanelInvariance == Spec => []PanelInv
  BY PanelInit, PanelNext, PTL DEF Spec

\* A request is answered exactly when it is completed, and access is being
\* granted only to an account that is selected and has credentials: TypeOK.
THEOREM TypeCorrect == Spec => []TypeOK
<1>1. PanelInv => TypeOK
  BY DEF PanelInv, PanelOK, DatabaseOK, TypeOK
<1>. QED
  BY <1>1, PanelInvariance, PTL

\* Only accounts that the user named or created in this panel are opened to the
\* application, or the one that stands in the row of an account that has left
\* the database (ProviderRequest.qml, grantAccess and its three steps).
THEOREM OnlyConsentedCorrect == Spec => OnlyConsented
<1>1. PanelInv /\ [Next]_vars => [Opens]_vars
  BY OtherSteps, AccountSyncedStep DEF StepOK
<1>. QED
  BY <1>1, PanelInvariance, PTL DEF Spec, OnlyConsented, Opens

\* When an application is told an account, it can use the credentials of the
\* account and its services are on, whatever was deleted, created or selected
\* while access was being granted.
THEOREM AllowedIsGrantedCorrect == Spec => AllowedIsGranted
<1>1. PanelInv /\ [Next]_vars =>
        [\A a \in Account :
           p.client = "app" /\ p'.sent # p.sent /\ p'.sent = <<a>> =>
             a \in acl' /\ Service \subseteq enabled'[a]]_vars
  <2>. SUFFICES ASSUME PanelInv, Next, NEW a \in Account,
                       p.client = "app", p'.sent # p.sent, p'.sent = <<a>>
                PROVE  a \in acl' /\ Service \subseteq enabled'[a]
    BY DEF vars
  <2>1. p.sent \in Seq(Result) /\ p.chosen \in Result
    BY PanelFields DEF PanelInv, PanelOK, Result
  <2>2. ASSUME NEW r \in Result, Append(p.sent, r) = <<a>>
        PROVE  r = a
    <3>1. /\ Len(Append(p.sent, r)) = Len(p.sent) + 1
          /\ Append(p.sent, r)[Len(p.sent) + 1] = r
      BY <2>1, AppendProperties
    <3>2. Len(p.sent) + 1 = 1
      BY <2>2, <3>1
    <3>. QED
      BY <2>2, <3>1, <3>2
  <2>3. CASE AccountSynced
    <3>1. /\ Tells(p', p, {p.chosen}) /\ p.chosen \in acl'
          /\ Service \subseteq enabled'[p.chosen]
      BY <2>3, AccountSyncedStep
    <3>2. Append(p.sent, p.chosen) = <<a>>
      BY <3>1 DEF Tells
    <3>. QED
      BY <2>1, <2>2, <3>1, <3>2
  <2>4. CASE ~AccountSynced
    <3>1. Tells(p', p, {NoAccount, "invalid"})
      BY <2>4, OtherSteps DEF StepOK, Quiet
    <3>2. PICK r \in {NoAccount, "invalid"} : Append(p.sent, r) = <<a>>
      BY <3>1 DEF Tells
    <3>3. r \in Result
      BY DEF Result, AccountOrNone
    <3>. QED
      BY <2>2, <3>2, <3>3, PanelAssumption
  <2>. QED
    BY <2>3, <2>4
<1>. QED
  BY <1>1, PanelInvariance, PTL DEF Spec, AllowedIsGranted

=============================================================================
