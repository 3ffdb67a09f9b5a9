-------------------------- MODULE IndicatorService --------------------------
(***************************************************************************)
(* The login failures kept by online-accounts-service for the user menu:   *)
(* IndicatorService (indicator-service.cpp) on D-Bus, and the              *)
(* Reauthenticator (reauthenticator.cpp) it creates to replay the failed   *)
(* authentications of one account.  There is at most one reauthenticator   *)
(* per account, so it is named by its account.  Its finished() signal is   *)
(* delivered through the event loop (Qt::QueuedConnection): between the    *)
(* last answer of signond and onReauthenticatorFinished any D-Bus call may *)
(* run.  The recorded data of an account is abstracted to its length.      *)
(***************************************************************************)
EXTENDS Naturals, Sequences, FiniteSets

CONSTANTS
  Account,    \* libaccounts IDs
  Call,       \* the ReauthenticateAccount calls that will be made, each once
  AccountOf,  \* the account a call is about
  NoCall,     \* the default-constructed m_clientMessage
  MaxData     \* bound on the authentications recorded for an account

ASSUME CallAssumption ==
  /\ AccountOf \in [Call -> Account]
  /\ NoCall \notin Call
  /\ MaxData \in Nat

VARIABLES
  failures,         \* m_failures
  clientData,       \* Account -> length of its list in m_failureClientData,
                    \* 0 when the map has no such key
  errorStatus,      \* m_errorStatus
  reauthenticators, \* the keys of m_reauthenticators
  total,            \* Account -> length of the reauthenticator's m_clientData
  errors,           \* Account -> its m_errorCount
  responses,        \* Account -> its m_responseCount
  finished,         \* the finished(success) signals in the event loop
  clientMessage,    \* m_clientMessage
  answers,          \* Call -> the D-Bus replies sent to it
  called,           \* the calls that have been made
  shown,            \* Failures and ErrorStatus as last signalled on D-Bus
  idleSignal        \* did the last handler emit isIdleChanged()?

failureVars == <<failures, clientData, errorStatus>>
reauthVars  == <<reauthenticators, total, errors, responses, finished>>
callVars    == <<clientMessage, answers, called>>
ivars == <<failureVars, reauthVars, callVars, shown, idleSignal>>

Init ==
  /\ failures = {}
  /\ clientData = [a \in Account |-> 0]
  /\ errorStatus = FALSE
  /\ reauthenticators = {}
  /\ total = [a \in Account |-> 0]
  /\ errors = [a \in Account |-> 0]
  /\ responses = [a \in Account |-> 0]
  /\ finished = <<>>
  /\ clientMessage = NoCall
  /\ answers = [c \in Call |-> <<>>]
  /\ called = {}
  /\ shown = [failures |-> {}, errorStatus |-> FALSE]
  /\ idleSignal = FALSE

IsIdle == failures = {}

\* A mutant of NotifyPropertyChanged: ErrorStatus is not signalled.
NotifyFailuresOnly(props) ==
  shown' = [shown EXCEPT !.failures = IF "Failures" \in props THEN failures' ELSE @]

\* PropertiesChanged for each property in props, with its new value.
NotifyPropertyChanged(props) ==
  shown' = [failures |-> IF "Failures" \in props THEN failures' ELSE shown.failures,
            errorStatus |-> IF "ErrorStatus" \in props THEN errorStatus'
                                                       ELSE shown.errorStatus]

-----------------------------------------------------------------------------
(***************************************************************************)
(* D-Bus methods.                                                          *)
(***************************************************************************)
ClearErrorStatus ==
  /\ errorStatus
  /\ errorStatus' = FALSE
  /\ NotifyPropertyChanged({"ErrorStatus"})
  /\ idleSignal' = FALSE
  /\ UNCHANGED <<failures, clientData, reauthVars, callVars>>

\* The recorded data and the error status stay.
RemoveFailures(accountIds) ==
  /\ failures' = failures \ accountIds
  /\ NotifyPropertyChanged({"Failures"})
  /\ idleSignal' = (failures' = {})
  /\ UNCHANGED <<clientData, errorStatus, reauthVars, callVars>>

\* A mutant of WasIdle: the change is never signalled.
NeverIdle == FALSE

WasIdle == IsIdle

\* showNotification(): one at a time, until the error status is cleared.
ShowNotification == errorStatus' = TRUE

\* data says whether the notification has a ClientData.
ReportFailure(a, data) ==
  /\ data => clientData[a] < MaxData
  /\ failures' = failures \cup {a}
  /\ idleSignal' = WasIdle
  /\ clientData' = IF data THEN [clientData EXCEPT ![a] = @ + 1] ELSE clientData
  /\ ShowNotification
  /\ NotifyPropertyChanged({"Failures"}
       \cup IF errorStatus THEN {} ELSE {"ErrorStatus"})
  /\ UNCHANGED <<reauthVars, callVars>>

Answered(c, result) == answers' = [answers EXCEPT ![c] = Append(@, result)]

\* A mutant of CannotReauthenticate: an active reauthenticator is not noticed.
HasNoData(a) == clientData[a] = 0

CannotReauthenticate(a) == clientData[a] = 0 \/ a \in reauthenticators

\* The call returns false at once.
RefuseReauthentication(c) ==
  /\ c \notin called
  /\ CannotReauthenticate(AccountOf[c])
  /\ Answered(c, FALSE)
  /\ called' = called \cup {c}
  /\ idleSignal' = FALSE
  /\ UNCHANGED <<failureVars, reauthVars, clientMessage, shown>>

\* Mutants of FinishedSignal: emitted on every answer; success needs only one
\* response; the last answer is not counted.
FinishedOnEveryAnswer(a, err, resp, n) == <<[account |-> a, success |-> err = 0]>>
FinishedIfAnySucceeded(a, err, resp, n) ==
  IF err + resp < n THEN <<>> ELSE <<[account |-> a, success |-> resp > 0]>>
FinishedOneTooLate(a, err, resp, n) ==
  IF err + resp <= n THEN <<>> ELSE <<[account |-> a, success |-> err = 0]>>

\* checkFinished
FinishedSignal(a, err, resp, n) ==
  IF err + resp < n THEN <<>> ELSE <<[account |-> a, success |-> err = 0]>>

\* The reply is delayed.  start() fails at once for every recorded
\* authentication whose identity or session cannot be created (gone of them)
\* and starts a session for each of the others.
ReauthenticateAccount(c, gone) ==
  LET a == AccountOf[c]
      n == clientData[a]
  IN /\ c \notin called
     /\ ~CannotReauthenticate(a)
     /\ gone \in 0 .. n
     /\ clientMessage' = c
     /\ called' = called \cup {c}
     /\ reauthenticators' = reauthenticators \cup {a}
     /\ total' = [total EXCEPT ![a] = n]
     /\ errors' = [errors EXCEPT ![a] = gone]
     /\ responses' = [responses EXCEPT ![a] = 0]
     /\ finished' = finished \o FinishedSignal(a, gone, 0, n)
     /\ idleSignal' = FALSE
     /\ UNCHANGED <<failureVars, answers, shown>>

-----------------------------------------------------------------------------
(***************************************************************************)
(* Answers of signond to the sessions of a reauthenticator: one each.      *)
(***************************************************************************)
SessionPending(a) ==
  /\ a \in reauthenticators
  /\ errors[a] + responses[a] < total[a]

OnError(a) ==
  /\ SessionPending(a)
  /\ errors' = [errors EXCEPT ![a] = @ + 1]
  /\ finished' = finished \o FinishedSignal(a, errors'[a], responses[a], total[a])
  /\ idleSignal' = FALSE
  /\ UNCHANGED <<failureVars, reauthenticators, total, responses, callVars, shown>>

OnResponse(a) ==
  /\ SessionPending(a)
  /\ responses' = [responses EXCEPT ![a] = @ + 1]
  /\ finished' = finished \o FinishedSignal(a, errors[a], responses'[a], total[a])
  /\ idleSignal' = FALSE
  /\ UNCHANGED <<failureVars, reauthenticators, total, errors, callVars, shown>>

-----------------------------------------------------------------------------
\* A mutant of Cleared: the failure stays.
NothingCleared(f) == {}

\* The accounts whose failure and recorded data a finished(success) removes.
Cleared(f) == IF f.success THEN {f.account} ELSE {}

\* The reply goes to m_clientMessage, the last call that was not refused.
OnReauthenticatorFinished ==
  /\ finished # <<>>
  /\ LET f == Head(finished)
     IN /\ Answered(clientMessage, f.success)
        /\ clientData' = [a \in Account |-> IF a \in Cleared(f) THEN 0
                                                               ELSE clientData[a]]
        /\ failures' = failures \ Cleared(f)
        /\ errorStatus' = (errorStatus /\ ~(f.success /\ failures' = {}))
        /\ NotifyPropertyChanged(
             (IF f.success THEN {"Failures"} ELSE {})
             \cup (IF errorStatus # errorStatus' THEN {"ErrorStatus"} ELSE {}))
        /\ idleSignal' = (f.success /\ failures' = {})
        /\ reauthenticators' = reauthenticators \ {f.account}
        /\ total' = [total EXCEPT ![f.account] = 0]
        /\ errors' = [errors EXCEPT ![f.account] = 0]
        /\ responses' = [responses EXCEPT ![f.account] = 0]
  /\ finished' = Tail(finished)
  /\ UNCHANGED <<clientMessage, called>>

-----------------------------------------------------------------------------
Next ==
  \/ ClearErrorStatus
  \/ \E accountIds \in SUBSET Account : RemoveFailures(accountIds)
  \/ \E a \in Account, data \in BOOLEAN : ReportFailure(a, data)
  \/ \E c \in Call : RefuseReauthentication(c)
  \/ \E c \in Call : \E gone \in 0 .. MaxData : ReauthenticateAccount(c, gone)
  \/ \E a \in Account : OnError(a) \/ OnResponse(a)
  \/ OnReauthenticatorFinished

Spec == Init /\ [][Next]_ivars

(***************************************************************************)
(* The event loop delivers finished(), and signond ends every session that *)
(* was started, with an answer or an error.                                *)
(***************************************************************************)
Fairness ==
  /\ WF_ivars(OnReauthenticatorFinished)
  /\ \A a \in Account : WF_ivars(OnError(a) \/ OnResponse(a))

FairSpec == Spec /\ Fairness

-----------------------------------------------------------------------------
\* The types of the state of IndicatorService and of its reauthenticators; no
\* reauthenticator counts more answers than it has authentications, and it
\* never has more of them than are recorded for its account.
TypeOK ==
  /\ failures \subseteq Account
  /\ clientData \in [Account -> 0 .. MaxData]
  /\ errorStatus \in BOOLEAN
  /\ reauthenticators \subseteq Account
  /\ total \in [Account -> 0 .. MaxData]
  /\ errors \in [Account -> 0 .. MaxData]
  /\ responses \in [Account -> 0 .. MaxData]
  /\ finished \in Seq([account : Account, success : BOOLEAN])
  /\ clientMessage \in Call \cup {NoCall}
  /\ answers \in [Call -> Seq(BOOLEAN)]
  /\ called \subseteq Call
  /\ shown \in [failures : SUBSET Account, errorStatus : BOOLEAN]
  /\ idleSignal \in BOOLEAN
  /\ \A a \in reauthenticators :
       errors[a] + responses[a] <= total[a] /\ total[a] <= clientData[a]

\* What the indicator shows is what the service knows: no handler changes
\* m_failures or m_errorStatus without signalling it.
PropertiesCurrent ==
  /\ shown.failures = failures
  /\ shown.errorStatus = errorStatus

\* A reauthenticator either waits for signond or has exactly one finished()
\* in the event loop, and none is delivered for one that is gone: its replay
\* is never reported twice, and never forgotten.
FinishedOnce ==
  \A a \in Account :
    LET signals == {i \in 1 .. Len(finished) : finished[i].account = a}
    IN IF a \in reauthenticators /\ ~SessionPending(a)
       THEN Cardinality(signals) = 1
       ELSE signals = {}

\* The signals in the event loop are those of reauthenticators that have all
\* their answers, with the right result, one for each of them.  (With TypeOK it
\* is inductive; FinishedOnce and DroppedAfterSuccess follow from it.)
SignalsMatchReplays ==
  /\ \A i \in 1 .. Len(finished) :
       LET a == finished[i].account
       IN /\ a \in reauthenticators
          /\ errors[a] + responses[a] = total[a]
          /\ finished[i].success <=> errors[a] = 0
  /\ \A i, j \in 1 .. Len(finished) :
       finished[i].account = finished[j].account => i = j
  /\ \A a \in reauthenticators : errors[a] + responses[a] = total[a] =>
       \E i \in 1 .. Len(finished) : finished[i].account = a

\* What was recorded for an account when its replay began is dropped only when
\* all of it has been replayed without an error, however the delivery of signals
\* and other calls interleave.  What is reported during the replay is dropped
\* with it, unreplayed: AllReplayed does not hold.
DroppedAfterSuccess ==
  [][\A a \in Account : clientData'[a] < clientData[a] =>
       a \in reauthenticators /\ errors[a] = 0 /\ responses[a] = total[a]]_ivars

\* A call is answered once at most.
AnsweredAtMostOnce == \A c \in Call : Len(answers[c]) <= 1

\* The interface (com.canonical.indicators.webcredentials.xml) says of
\* ReauthenticateAccount that it returns TRUE if the account could be
\* reauthenticated and the failure status has been cleared.
TrueMeansCleared ==
  [][\A c \in Call :
       answers'[c] # answers[c] /\ answers'[c][Len(answers'[c])] =>
         AccountOf[c] \notin failures']_ivars

\* The interface says that the failed authentications of the account are
\* replayed, and that the failure is cleared if all of them succeed.
AllReplayed ==
  [][\A a \in Account : clientData'[a] < clientData[a] =>
       responses[a] = clientData[a]]_ivars

\* Every call is answered.
EveryCallAnswered == \A c \in Call : c \in called ~> answers[c] # <<>>

=============================================================================
