----------------------- MODULE IndicatorServiceProofs -----------------------
(***************************************************************************)
(* Machine-checked proofs about IndicatorService, for every set of         *)
(* accounts and calls: type correctness, that clients are told of every    *)
(* change, that each reauthenticator reports its end once, and, for one    *)
(* account, that callers get one reply each and the right one.             *)
(***************************************************************************)
EXTENDS IndicatorService, SequenceTheorems, FiniteSetTheorems, TLAPS

Signal == [account : Account, success : BOOLEAN]

\* The bound of the model is a number.
LEMMA MaxDataNat == MaxData \in Nat
  BY CallAssumption

-----------------------------------------------------------------------------
\* checkFinished adds a signal exactly when the last answer has come.
LEMMA SignalAdded ==
  ASSUME NEW f \in Seq(Signal), NEW a \in Account,
         NEW e \in Nat, NEW r \in Nat, NEW n \in Nat
  PROVE  LET f2 == f \o FinishedSignal(a, e, r, n)
         IN /\ f2 \in Seq(Signal)
            /\ e + r < n => f2 = f
            /\ e + r >= n =>
                 /\ Len(f2) = Len(f) + 1
                 /\ f2[Len(f) + 1].account = a
                 /\ f2[Len(f) + 1].success <=> e = 0
            /\ \A i \in 1 .. Len(f) : f2[i] = f[i]
<1> DEFINE s == [account |-> a, success |-> e = 0]
<1>1. s \in Signal /\ s.account = a /\ (s.success <=> e = 0)
  BY Zenon DEF Signal
<1> HIDE DEF s
<1>2. CASE e + r < n
  <2>1. FinishedSignal(a, e, r, n) = <<>>
    BY <1>2 DEF FinishedSignal
  <2>2. f \o <<>> = f
    BY ConcatEmptySeq
  <2> QED
    BY <1>2, <2>1, <2>2
<1>3. CASE ~(e + r < n)
  <2>1. FinishedSignal(a, e, r, n) = <<s>>
    BY <1>3 DEF FinishedSignal, s
  <2>2. /\ f \o <<s>> \in Seq(Signal)
        /\ Len(f \o <<s>>) = Len(f) + 1
        /\ (f \o <<s>>)[Len(f) + 1] = s
        /\ \A i \in 1 .. Len(f) : (f \o <<s>>)[i] = f[i]
    BY <1>1
  <2> QED
    BY <1>1, <1>3, <2>1, <2>2
<1> QED
  BY <1>2, <1>3

\* What the three steps of a replay (its start, an error, a response) do:
\* account a now counts e errors and r responses of n.
Replayed(a, e, r, n) ==
  /\ reauthenticators' = reauthenticators \cup {a}
  /\ total' = [total EXCEPT ![a] = n]
  /\ errors' = [errors EXCEPT ![a] = e]
  /\ responses' = [responses EXCEPT ![a] = r]
  /\ finished' = finished \o FinishedSignal(a, e, r, n)
  /\ UNCHANGED failureVars

\* The part of TypeOK that a replay changes.
ReplayType ==
  /\ clientData \in [Account -> 0 .. MaxData]
  /\ reauthenticators \subseteq Account
  /\ total \in [Account -> 0 .. MaxData]
  /\ errors \in [Account -> 0 .. MaxData]
  /\ responses \in [Account -> 0 .. MaxData]
  /\ finished \in Seq(Signal)
  /\ \A a \in reauthenticators :
       errors[a] + responses[a] <= total[a] /\ total[a] <= clientData[a]

\* The rest of it.
CallType ==
  /\ failures \subseteq Account
  /\ errorStatus \in BOOLEAN
  /\ clientMessage \in Call \cup {NoCall}
  /\ answers \in [Call -> Seq(BOOLEAN)]
  /\ called \subseteq Call
  /\ shown \in [failures : SUBSET Account, errorStatus : BOOLEAN]
  /\ idleSignal \in BOOLEAN

LEMMA TypeSplit == (TypeOK <=> ReplayType /\ CallType)
                   /\ (TypeOK' <=> ReplayType' /\ CallType')
  BY DEF TypeOK, ReplayType, CallType, Signal

\* The three steps of a replay have the shape Replayed.
LEMMA StartIsReplayed ==
  ASSUME ReplayType, NEW c \in Call, NEW gone \in 0 .. MaxData,
         ReauthenticateAccount(c, gone)
  PROVE  LET a == AccountOf[c]
         IN /\ a \in Account \ reauthenticators
            /\ clientData[a] \in 0 .. MaxData
            /\ gone <= clientData[a]
            /\ Replayed(a, gone, 0, clientData[a])
<1>1. AccountOf[c] \in Account
  BY CallAssumption
<1> QED
  BY <1>1, MaxDataNat
  DEF ReauthenticateAccount, CannotReauthenticate, Replayed, ReplayType

LEMMA ErrorIsReplayed ==
  ASSUME ReplayType, NEW a \in Account, OnError(a)
  PROVE  /\ a \in reauthenticators /\ errors[a] + responses[a] < total[a]
         /\ Replayed(a, errors[a] + 1, responses[a], total[a])
<1>1. reauthenticators = reauthenticators \cup {a} /\ errors'[a] = errors[a] + 1
      /\ total = [total EXCEPT ![a] = total[a]]
      /\ responses = [responses EXCEPT ![a] = responses[a]]
  BY DEF OnError, SessionPending, ReplayType
<1> QED
  BY <1>1 DEF OnError, SessionPending, Replayed

LEMMA ResponseIsReplayed ==
  ASSUME ReplayType, NEW a \in Account, OnResponse(a)
  PROVE  /\ a \in reauthenticators /\ errors[a] + responses[a] < total[a]
         /\ Replayed(a, errors[a], responses[a] + 1, total[a])
<1>1. reauthenticators = reauthenticators \cup {a} /\ responses'[a] = responses[a] + 1
      /\ total = [total EXCEPT ![a] = total[a]]
      /\ errors = [errors EXCEPT ![a] = errors[a]]
  BY DEF OnResponse, SessionPending, ReplayType
<1> QED
  BY <1>1 DEF OnResponse, SessionPending, Replayed

\* A step of a replay keeps the types.
LEMMA ReplayedType ==
  ASSUME ReplayType, NEW a \in Account, NEW n \in 0 .. MaxData,
         NEW e \in Nat, NEW r \in Nat, e + r <= n, n <= clientData[a],
         Replayed(a, e, r, n)
  PROVE  ReplayType'
<1>1. e \in 0 .. MaxData /\ r \in 0 .. MaxData /\ n \in Nat
  BY MaxDataNat
<1>2. finished' \in Seq(Signal)
  BY <1>1, SignalAdded DEF Replayed, ReplayType
<1>3. clientData' = clientData
  BY DEF Replayed, failureVars
<1> QED
  BY <1>1, <1>2, <1>3 DEF Replayed, ReplayType

-----------------------------------------------------------------------------
(***************************************************************************)
(* Type correctness.                                                       *)
(***************************************************************************)
LEMMA TypeInit == Init => TypeOK
<1> SUFFICES ASSUME Init
             PROVE  TypeOK
  OBVIOUS
<1>1. 0 \in 0 .. MaxData
  BY MaxDataNat
<1>2. finished \in Seq(Signal)
  BY EmptySeq DEF Init
<1>3. ReplayType
  BY <1>1, <1>2 DEF Init, ReplayType
<1>4. answers \in [Call -> Seq(BOOLEAN)]
  <2>1. <<>> \in Seq(BOOLEAN)
    BY EmptySeq
  <2> QED
    BY <2>1 DEF Init
<1>5. shown \in [failures : SUBSET Account, errorStatus : BOOLEAN]
  <2>1. {} \in SUBSET Account
    OBVIOUS
  <2> QED
    BY <2>1, Zenon DEF Init
<1>6. CallType
  BY <1>4, <1>5 DEF Init, CallType
<1> QED
  BY <1>3, <1>6, TypeSplit

\* Every D-Bus reply is a Boolean.
LEMMA AnsweredType ==
  ASSUME answers \in [Call -> Seq(BOOLEAN)], NEW c, NEW result \in BOOLEAN,
         Answered(c, result)
  PROVE  answers' \in [Call -> Seq(BOOLEAN)]
<1>1. \A q \in Seq(BOOLEAN) : Append(q, result) \in Seq(BOOLEAN)
  BY AppendProperties
<1> QED
  BY <1>1 DEF Answered

\* A PropertiesChanged signal keeps the type of shown.
LEMMA NotifyType ==
  ASSUME shown \in [failures : SUBSET Account, errorStatus : BOOLEAN],
         failures' \subseteq Account, errorStatus' \in BOOLEAN,
         NEW props, NotifyPropertyChanged(props)
  PROVE  shown' \in [failures : SUBSET Account, errorStatus : BOOLEAN]
<1>1. shown.failures \subseteq Account /\ shown.errorStatus \in BOOLEAN
  OBVIOUS
<1>2. (IF "Failures" \in props THEN failures' ELSE shown.failures) \in SUBSET Account
  BY <1>1
<1>3. (IF "ErrorStatus" \in props THEN errorStatus' ELSE shown.errorStatus) \in BOOLEAN
  BY <1>1
<1> QED
  BY <1>2, <1>3, Zenon DEF NotifyPropertyChanged

\* A D-Bus method other than ReauthenticateAccount leaves the replays alone.
LEMMA ReplayUnchanged ==
  ASSUME ReplayType, UNCHANGED <<clientData, reauthVars>>
  PROVE  ReplayType'
  BY DEF ReplayType, reauthVars

\* Every step keeps the types.
LEMMA TypeStep == TypeOK /\ [Next]_ivars => TypeOK'
<1> SUFFICES ASSUME TypeOK, [Next]_ivars
             PROVE  TypeOK'
  OBVIOUS
<1>0. ReplayType /\ CallType
  BY TypeSplit
<1> SUFFICES ReplayType' /\ CallType'
  BY TypeSplit
<1>1. CASE ClearErrorStatus
  <2>1. ReplayType'
    BY <1>0, <1>1, ReplayUnchanged DEF ClearErrorStatus
  <2>2. shown' \in [failures : SUBSET Account, errorStatus : BOOLEAN]
    BY <1>0, <1>1, NotifyType DEF ClearErrorStatus, CallType
  <2> QED
    BY <1>0, <1>1, <2>1, <2>2 DEF ClearErrorStatus, CallType, callVars
<1>2. ASSUME NEW accountIds \in SUBSET Account, RemoveFailures(accountIds)
      PROVE  ReplayType' /\ CallType'
  <2>1. ReplayType'
    BY <1>0, <1>2, ReplayUnchanged DEF RemoveFailures
  <2>2. failures' \subseteq Account /\ errorStatus' \in BOOLEAN
    BY <1>0, <1>2 DEF RemoveFailures, CallType
  <2>3. shown' \in [failures : SUBSET Account, errorStatus : BOOLEAN]
    BY <1>0, <1>2, <2>2, NotifyType DEF RemoveFailures, CallType
  <2> QED
    BY <1>0, <1>2, <2>1, <2>2, <2>3 DEF RemoveFailures, CallType, callVars
<1>3. ASSUME NEW a \in Account, NEW data \in BOOLEAN, ReportFailure(a, data)
      PROVE  ReplayType' /\ CallType'
  <2>1. failures' \subseteq Account /\ errorStatus' \in BOOLEAN
    BY <1>0, <1>3 DEF ReportFailure, ShowNotification, CallType
  <2>2. shown' \in [failures : SUBSET Account, errorStatus : BOOLEAN]
    BY <1>0, <1>3, <2>1, NotifyType DEF ReportFailure, ShowNotification, CallType
  <2>3. idleSignal' \in BOOLEAN
    BY <1>3 DEF ReportFailure, ShowNotification, WasIdle, IsIdle
  <2>4. CallType'
    BY <1>0, <1>3, <2>1, <2>2, <2>3 DEF ReportFailure, ShowNotification, CallType, callVars
  <2>5. /\ clientData' \in [Account -> 0 .. MaxData]
        /\ \A b \in Account : clientData[b] <= clientData'[b]
    BY <1>0, <1>3, MaxDataNat DEF ReportFailure, ShowNotification, ReplayType
  <2>6. \A b \in reauthenticators : total[b] <= clientData'[b]
    BY <1>0, <2>5, MaxDataNat DEF ReplayType
  <2>7. ReplayType'
    BY <1>0, <1>3, <2>5, <2>6 DEF ReportFailure, ShowNotification, ReplayType, reauthVars
  <2> QED
    BY <2>4, <2>7
<1>4. ASSUME NEW c \in Call, RefuseReauthentication(c)
      PROVE  ReplayType' /\ CallType'
  <2>1. ReplayType'
    BY <1>0, <1>4, ReplayUnchanged DEF RefuseReauthentication, failureVars
  <2>2. answers' \in [Call -> Seq(BOOLEAN)]
    BY <1>0, <1>4, AnsweredType DEF RefuseReauthentication, CallType
  <2> QED
    BY <1>0, <1>4, <2>1, <2>2 DEF RefuseReauthentication, CallType, failureVars
<1>5. ASSUME NEW c \in Call, NEW gone \in 0 .. MaxData,
             ReauthenticateAccount(c, gone)
      PROVE  ReplayType' /\ CallType'
  <2>1. ReplayType'
    <3> DEFINE a == AccountOf[c]
               n == clientData[a]
    <3>1. /\ a \in Account
          /\ n \in 0 .. MaxData
          /\ gone <= n
          /\ Replayed(a, gone, 0, n)
      BY <1>0, <1>5, StartIsReplayed
    <3>2. gone \in Nat /\ 0 \in Nat /\ gone + 0 <= n /\ n <= clientData[a]
      BY <3>1, MaxDataNat
    <3> HIDE DEF n, a
    <3> QED
      BY <1>0, <3>1, <3>2, ReplayedType
  <2> QED
    BY <1>0, <1>5, <2>1 DEF ReauthenticateAccount, CallType, failureVars
<1>6. ASSUME NEW a \in Account, OnError(a) \/ OnResponse(a)
      PROVE  ReplayType' /\ CallType'
  <2>1. CallType'
    BY <1>0, <1>6 DEF OnError, OnResponse, CallType, failureVars, callVars
  <2>2. /\ errors[a] \in Nat /\ responses[a] \in Nat
        /\ total[a] \in 0 .. MaxData
        /\ a \in reauthenticators => total[a] <= clientData[a]
    BY <1>0, MaxDataNat DEF ReplayType
  <2>3. CASE OnError(a)
    BY <1>0, <2>1, <2>2, <2>3, ErrorIsReplayed, ReplayedType
  <2>4. CASE OnResponse(a)
    BY <1>0, <2>1, <2>2, <2>4, ResponseIsReplayed, ReplayedType
  <2> QED
    BY <1>6, <2>3, <2>4
<1>7. CASE OnReauthenticatorFinished
  <2> DEFINE f == Head(finished)
  <2>1. f \in Signal /\ Tail(finished) \in Seq(Signal)
    BY <1>0, <1>7, HeadTailProperties DEF ReplayType, OnReauthenticatorFinished
  <2>2. f.account \in Account /\ f.success \in BOOLEAN
    BY <2>1 DEF Signal
  <2> HIDE DEF f
  <2>3. 0 \in 0 .. MaxData
    BY MaxDataNat
  <2>4. ReplayType'
    <3>1. /\ clientData' \in [Account -> 0 .. MaxData]
          /\ \A b \in Account : b # f.account => clientData'[b] = clientData[b]
      BY <1>0, <1>7, <2>2, <2>3
      DEF OnReauthenticatorFinished, ReplayType, Cleared, f
    <3>2. /\ reauthenticators' = reauthenticators \ {f.account}
          /\ total' = [total EXCEPT ![f.account] = 0]
          /\ errors' = [errors EXCEPT ![f.account] = 0]
          /\ responses' = [responses EXCEPT ![f.account] = 0]
          /\ finished' = Tail(finished)
      BY <1>7 DEF OnReauthenticatorFinished, f
    <3>3. /\ total' \in [Account -> 0 .. MaxData]
          /\ errors' \in [Account -> 0 .. MaxData]
          /\ responses' \in [Account -> 0 .. MaxData]
      BY <1>0, <2>2, <2>3, <3>2 DEF ReplayType
    <3>4. \A b \in reauthenticators' :
            errors'[b] + responses'[b] <= total'[b] /\ total'[b] <= clientData'[b]
      <4>1. SUFFICES ASSUME NEW b \in reauthenticators'
                     PROVE  /\ errors'[b] + responses'[b] <= total'[b]
                            /\ total'[b] <= clientData'[b]
        OBVIOUS
      <4>2. b \in reauthenticators /\ b # f.account /\ b \in Account
        BY <1>0, <3>2, <4>1 DEF ReplayType
      <4> QED
        BY <1>0, <3>1, <3>2, <4>2 DEF ReplayType
    <3> QED
      BY <1>0, <2>1, <3>1, <3>2, <3>3, <3>4 DEF ReplayType, f
  <2>5. failures' \subseteq Account /\ errorStatus' \in BOOLEAN
        /\ idleSignal' \in BOOLEAN
    BY <1>0, <1>7, <2>2 DEF OnReauthenticatorFinished, CallType, f
  <2>6. shown' \in [failures : SUBSET Account, errorStatus : BOOLEAN]
    BY <1>0, <1>7, <2>5, NotifyType DEF OnReauthenticatorFinished, CallType
  <2>7. answers' \in [Call -> Seq(BOOLEAN)]
    BY <1>0, <1>7, <2>2, AnsweredType DEF OnReauthenticatorFinished, CallType, f
  <2> QED
    BY <1>0, <1>7, <2>4, <2>5, <2>6, <2>7 DEF OnReauthenticatorFinished, CallType
<1>8. CASE UNCHANGED ivars
  BY <1>0, <1>8 DEF ReplayType, CallType, ivars, failureVars, reauthVars, callVars
<1> QED
  BY <1>1, <1>2, <1>3, <1>4, <1>5, <1>6, <1>7, <1>8 DEF Next

\* The state of the indicator service keeps its types; no reauthenticator
\* counts more answers than it was created for.
THEOREM TypeCorrect == Spec => []TypeOK
  BY TypeInit, TypeStep, PTL DEF Spec

-----------------------------------------------------------------------------
(***************************************************************************)
(* What clients of the D-Bus interface know.                               *)
(***************************************************************************)

\* A handler that signals the properties it changes keeps clients current.
LEMMA NotifyCurrent ==
  ASSUME PropertiesCurrent, NEW props, NotifyPropertyChanged(props),
         "Failures" \notin props => failures' = failures,
         "ErrorStatus" \notin props => errorStatus' = errorStatus
  PROVE  PropertiesCurrent'
<1>1. shown'.failures = IF "Failures" \in props THEN failures' ELSE shown.failures
  BY DEF NotifyPropertyChanged
<1>2. shown'.errorStatus = IF "ErrorStatus" \in props THEN errorStatus'
                                                      ELSE shown.errorStatus
  BY Zenon DEF NotifyPropertyChanged
<1>3. shown'.failures = failures'
  BY <1>1 DEF PropertiesCurrent
<1>4. shown'.errorStatus = errorStatus'
  BY <1>2, Zenon DEF PropertiesCurrent
<1> QED
  BY <1>3, <1>4 DEF PropertiesCurrent

\* Every handler signals what it changes.
LEMMA CurrentStep == PropertiesCurrent /\ [Next]_ivars => PropertiesCurrent'
<1> SUFFICES ASSUME PropertiesCurrent, [Next]_ivars
             PROVE  PropertiesCurrent'
  OBVIOUS
<1>1. CASE ClearErrorStatus
  BY <1>1, NotifyCurrent DEF ClearErrorStatus
<1>2. ASSUME NEW accountIds \in SUBSET Account, RemoveFailures(accountIds)
      PROVE  PropertiesCurrent'
  BY <1>2, NotifyCurrent DEF RemoveFailures
<1>3. ASSUME NEW a \in Account, NEW data \in BOOLEAN, ReportFailure(a, data)
      PROVE  PropertiesCurrent'
  <2> DEFINE props == {"Failures"} \cup IF errorStatus THEN {} ELSE {"ErrorStatus"}
  <2>1. NotifyPropertyChanged(props) /\ errorStatus' = TRUE
    BY <1>3 DEF ReportFailure, ShowNotification
  <2>2. "Failures" \in props /\ ("ErrorStatus" \notin props => errorStatus = TRUE)
    OBVIOUS
  <2> QED
    BY <2>1, <2>2, NotifyCurrent
<1>4. ASSUME NEW c \in Call, RefuseReauthentication(c)
      PROVE  PropertiesCurrent'
  BY <1>4 DEF RefuseReauthentication, PropertiesCurrent, failureVars
<1>5. ASSUME NEW c \in Call, NEW gone \in 0 .. MaxData,
             ReauthenticateAccount(c, gone)
      PROVE  PropertiesCurrent'
  BY <1>5 DEF ReauthenticateAccount, PropertiesCurrent, failureVars
<1>6. ASSUME NEW a \in Account, OnError(a) \/ OnResponse(a)
      PROVE  PropertiesCurrent'
  BY <1>6 DEF OnError, OnResponse, PropertiesCurrent, failureVars
<1>7. CASE OnReauthenticatorFinished
  <2> DEFINE f == Head(finished)
             props == (IF f.success THEN {"Failures"} ELSE {})
                      \cup (IF errorStatus # errorStatus' THEN {"ErrorStatus"} ELSE {})
  <2>1. NotifyPropertyChanged(props) /\ failures' = failures \ Cleared(f)
    BY <1>7 DEF OnReauthenticatorFinished
  <2>2. "Failures" \notin props => ~f.success
    OBVIOUS
  <2>3. "Failures" \notin props => failures' = failures
    BY <2>1, <2>2 DEF Cleared
  <2>4. "ErrorStatus" \notin props => errorStatus' = errorStatus
    OBVIOUS
  <2> HIDE DEF props
  <2> QED
    BY <2>1, <2>3, <2>4, NotifyCurrent
<1>8. CASE UNCHANGED ivars
  BY <1>8 DEF PropertiesCurrent, ivars, failureVars
<1> QED
  BY <1>1, <1>2, <1>3, <1>4, <1>5, <1>6, <1>7, <1>8 DEF Next

\* Clients of the indicator always show the failures and the error status that
\* the service has: every handler signals its changes.
THEOREM ClientsAreCurrent == Spec => []PropertiesCurrent
<1>1. Init => PropertiesCurrent
  <2> SUFFICES ASSUME Init
               PROVE  shown.failures = failures /\ shown.errorStatus = errorStatus
    BY DEF PropertiesCurrent
  <2>1. shown.failures = failures
    BY DEF Init
  <2>2. shown.errorStatus = errorStatus
    BY Zenon DEF Init
  <2> QED
    BY <2>1, <2>2
<1> QED
  BY <1>1, CurrentStep, PTL DEF Spec

-----------------------------------------------------------------------------
(***************************************************************************)
(* The end of a reauthenticator.                                           *)
(***************************************************************************)

\* A step of a replay whose answers were not all counted keeps one signal for
\* each replay that has ended: the one it adds, if any, is the first of a.
LEMMA ReplayedSignals ==
  ASSUME ReplayType, SignalsMatchReplays, NEW a \in Account,
         NEW e \in Nat, NEW r \in Nat, NEW n \in Nat, e + r <= n,
         a \in reauthenticators => errors[a] + responses[a] # total[a],
         Replayed(a, e, r, n)
  PROVE  SignalsMatchReplays'
<1>1. finished \in Seq(Signal) /\ Len(finished) \in Nat
  BY DEF ReplayType
<1> DEFINE L == Len(finished)
<1>2. /\ finished' \in Seq(Signal)
      /\ e + r < n => finished' = finished
      /\ e + r >= n => /\ Len(finished') = L + 1
                       /\ finished'[L + 1].account = a
                       /\ finished'[L + 1].success <=> e = 0
      /\ \A i \in 1 .. L : finished'[i] = finished[i]
  BY <1>1, SignalAdded DEF Replayed
<1>3. \A i \in 1 .. L : finished[i].account # a
  BY DEF SignalsMatchReplays
<1>4. /\ reauthenticators' = reauthenticators \cup {a}
      /\ total'[a] = n /\ errors'[a] = e /\ responses'[a] = r
      /\ \A b \in Account \ {a} : /\ total'[b] = total[b]
                                  /\ errors'[b] = errors[b]
                                  /\ responses'[b] = responses[b]
  BY DEF Replayed, ReplayType
<1>5. \A i \in 1 .. L : finished[i].account \in Account
  <2>1. \A i \in 1 .. L : finished[i] \in Signal
    BY <1>1, ElementOfSeq
  <2> QED
    BY <2>1 DEF Signal
<1>6. Len(finished') = IF e + r < n THEN L ELSE L + 1
  BY <1>1, <1>2
<1> HIDE DEF L
<1>7. L \in Nat
  BY <1>1 DEF L
<1>8. ASSUME NEW i \in 1 .. Len(finished')
      PROVE  LET b == finished'[i].account
             IN /\ b \in reauthenticators'
                /\ errors'[b] + responses'[b] = total'[b]
                /\ finished'[i].success <=> errors'[b] = 0
  <2>1. CASE i \in 1 .. L
    <3> DEFINE b == finished[i].account
    <3>1. b \in Account /\ b # a /\ finished'[i] = finished[i]
      BY <1>2, <1>3, <1>5, <2>1
    <3>2. /\ b \in reauthenticators
          /\ errors[b] + responses[b] = total[b]
          /\ finished[i].success <=> errors[b] = 0
      BY <2>1, Zenon DEF SignalsMatchReplays, L
    <3> QED
      BY <1>4, <3>1, <3>2
  <2>2. CASE i = L + 1 /\ e + r >= n
    <3>1. e + r = n
      BY <2>2
    <3> QED
      BY <1>2, <1>4, <2>2, <3>1
  <2> QED
    BY <1>6, <1>7, <2>1, <2>2
<1>9. ASSUME NEW i \in 1 .. Len(finished'), NEW j \in 1 .. Len(finished'),
             finished'[i].account = finished'[j].account
      PROVE  i = j
  <2>1. CASE i \in 1 .. L /\ j \in 1 .. L
    BY <1>2, <1>9, <2>1 DEF SignalsMatchReplays, L
  <2>2. CASE i \in 1 .. L /\ j \notin 1 .. L
    BY <1>2, <1>3, <1>6, <1>7, <1>9, <2>2
  <2>3. CASE i \notin 1 .. L /\ j \in 1 .. L
    BY <1>2, <1>3, <1>6, <1>7, <1>9, <2>3
  <2>4. CASE i \notin 1 .. L /\ j \notin 1 .. L
    BY <1>6, <1>7, <2>4
  <2> QED
    BY <2>1, <2>2, <2>3, <2>4
<1>10. ASSUME NEW b \in reauthenticators', errors'[b] + responses'[b] = total'[b]
       PROVE  \E i \in 1 .. Len(finished') : finished'[i].account = b
  <2>1. CASE b = a
    <3>1. L + 1 \in 1 .. Len(finished') /\ finished'[L + 1].account = b
      BY <1>2, <1>4, <1>6, <1>7, <1>10, <2>1
    <3> QED
      BY <3>1
  <2>2. CASE b # a
    <3>1. b \in reauthenticators /\ errors[b] + responses[b] = total[b]
      BY <1>4, <1>10, <2>2 DEF ReplayType
    <3>2. PICK i \in 1 .. L : finished[i].account = b
      BY <3>1 DEF SignalsMatchReplays, L
    <3>3. i \in 1 .. Len(finished') /\ finished'[i].account = b
      BY <1>2, <1>6, <1>7, <3>2
    <3> QED
      BY <3>3
  <2> QED
    BY <2>1, <2>2
<1> QED
  BY <1>8, <1>9, <1>10 DEF SignalsMatchReplays

\* The delivery of a signal ends the only reauthenticator it is about.
LEMMA FinishedSignals ==
  ASSUME ReplayType, SignalsMatchReplays, OnReauthenticatorFinished
  PROVE  SignalsMatchReplays'
<1> DEFINE f == Head(finished)
           L == Len(finished)
<1>1. finished \in Seq(Signal) /\ finished # <<>> /\ L \in Nat
  BY DEF ReplayType, OnReauthenticatorFinished
<1>2. /\ L >= 1 /\ f = finished[1] /\ f \in Signal
      /\ Tail(finished) \in Seq(Signal)
      /\ Len(Tail(finished)) = L - 1
      /\ \A i \in 1 .. L - 1 : Tail(finished)[i] = finished[i + 1]
  BY <1>1, HeadTailProperties, EmptySeq
<1>3. f.account \in Account
  BY <1>2 DEF Signal
<1>4. /\ reauthenticators' = reauthenticators \ {f.account}
      /\ \A b \in Account \ {f.account} : /\ total'[b] = total[b]
                                          /\ errors'[b] = errors[b]
                                          /\ responses'[b] = responses[b]
      /\ finished' = Tail(finished)
  BY DEF OnReauthenticatorFinished, ReplayType
<1>5. \A i \in 1 .. L : finished[i] \in Signal
  BY <1>1, ElementOfSeq
<1>6. \A i \in 2 .. L : finished[i].account # f.account
  BY <1>2 DEF SignalsMatchReplays
<1> HIDE DEF f, L
<1>7. ASSUME NEW i \in 1 .. Len(finished')
      PROVE  LET b == finished'[i].account
             IN /\ b \in reauthenticators'
                /\ errors'[b] + responses'[b] = total'[b]
                /\ finished'[i].success <=> errors'[b] = 0
  <2> DEFINE b == finished[i + 1].account
  <2>1. i + 1 \in 2 .. L /\ i + 1 \in 1 .. L /\ finished'[i] = finished[i + 1]
    BY <1>1, <1>2, <1>4 DEF L
  <2>2. b \in Account /\ b # f.account
    BY <1>5, <1>6, <2>1 DEF Signal
  <2>3. /\ b \in reauthenticators
        /\ errors[b] + responses[b] = total[b]
        /\ finished[i + 1].success <=> errors[b] = 0
    BY <2>1, Zenon DEF SignalsMatchReplays, L
  <2> QED
    BY <1>4, <2>1, <2>2, <2>3
<1>8. ASSUME NEW i \in 1 .. Len(finished'), NEW j \in 1 .. Len(finished'),
             finished'[i].account = finished'[j].account
      PROVE  i = j
  <2>1. /\ i + 1 \in 1 .. L /\ finished'[i] = finished[i + 1]
        /\ j + 1 \in 1 .. L /\ finished'[j] = finished[j + 1]
    BY <1>1, <1>2, <1>4 DEF L
  <2>2. i + 1 = j + 1
    BY <1>8, <2>1 DEF SignalsMatchReplays, L
  <2> QED
    BY <2>2
<1>9. ASSUME NEW b \in reauthenticators', errors'[b] + responses'[b] = total'[b]
      PROVE  \E i \in 1 .. Len(finished') : finished'[i].account = b
  <2>1. b \in reauthenticators /\ b # f.account /\ b \in Account
    BY <1>4 DEF ReplayType
  <2>2. errors[b] + responses[b] = total[b]
    BY <1>4, <1>9, <2>1
  <2>3. PICK i \in 1 .. L : finished[i].account = b
    BY <2>1, <2>2 DEF SignalsMatchReplays, L
  <2>4. i # 1
    BY <1>2, <2>1, <2>3
  <2>5. i - 1 \in 1 .. Len(finished') /\ finished'[i - 1] = finished[i]
    BY <1>1, <1>2, <1>4, <2>3, <2>4 DEF L
  <2> QED
    BY <2>3, <2>5
<1> QED
  BY <1>7, <1>8, <1>9 DEF SignalsMatchReplays

\* Every step keeps the signals matched with the reauthenticators.
LEMMA SignalsStep ==
  TypeOK /\ SignalsMatchReplays /\ [Next]_ivars => SignalsMatchReplays'
<1> SUFFICES ASSUME TypeOK, SignalsMatchReplays, [Next]_ivars
             PROVE  SignalsMatchReplays'
  OBVIOUS
<1>0. ReplayType
  BY TypeSplit
<1>1. ASSUME UNCHANGED reauthVars
      PROVE  SignalsMatchReplays'
  BY <1>1 DEF reauthVars, SignalsMatchReplays
<1>2. ASSUME NEW c \in Call, NEW gone \in 0 .. MaxData,
             ReauthenticateAccount(c, gone)
      PROVE  SignalsMatchReplays'
  <2> DEFINE a == AccountOf[c]
             n == clientData[a]
  <2>1. /\ a \in Account
        /\ a \notin reauthenticators
        /\ n \in 0 .. MaxData
        /\ gone <= n
        /\ Replayed(a, gone, 0, n)
    BY <1>0, <1>2, StartIsReplayed
  <2>2. gone \in Nat /\ 0 \in Nat /\ n \in Nat /\ gone + 0 <= n
    BY <2>1, MaxDataNat
  <2> HIDE DEF a, n
  <2> QED
    BY <1>0, <2>1, <2>2, ReplayedSignals
<1>3. ASSUME NEW a \in Account, OnError(a) \/ OnResponse(a)
      PROVE  SignalsMatchReplays'
  <2>1. errors[a] \in Nat /\ responses[a] \in Nat /\ total[a] \in Nat
    BY <1>0, MaxDataNat DEF ReplayType
  <2>2. CASE OnError(a)
    <3>1. /\ errors[a] + responses[a] < total[a]
          /\ Replayed(a, errors[a] + 1, responses[a], total[a])
      BY <1>0, <2>2, ErrorIsReplayed
    <3>2. /\ errors[a] + 1 \in Nat
          /\ errors[a] + 1 + responses[a] <= total[a]
          /\ errors[a] + responses[a] # total[a]
      BY <2>1, <3>1
    <3> QED
      BY <1>0, <2>1, <3>1, <3>2, ReplayedSignals
  <2>3. CASE OnResponse(a)
    <3>1. /\ errors[a] + responses[a] < total[a]
          /\ Replayed(a, errors[a], responses[a] + 1, total[a])
      BY <1>0, <2>3, ResponseIsReplayed
    <3>2. /\ responses[a] + 1 \in Nat
          /\ errors[a] + (responses[a] + 1) <= total[a]
          /\ errors[a] + responses[a] # total[a]
      BY <2>1, <3>1
    <3> QED
      BY <1>0, <2>1, <3>1, <3>2, ReplayedSignals
  <2> QED
    BY <1>3, <2>2, <2>3
<1>4. CASE OnReauthenticatorFinished
  BY <1>0, <1>4, FinishedSignals
<1>5. CASE ClearErrorStatus
  BY <1>1, <1>5 DEF ClearErrorStatus
<1>6. ASSUME NEW accountIds \in SUBSET Account, RemoveFailures(accountIds)
      PROVE  SignalsMatchReplays'
  BY <1>1, <1>6 DEF RemoveFailures
<1>7. ASSUME NEW a \in Account, NEW data \in BOOLEAN, ReportFailure(a, data)
      PROVE  SignalsMatchReplays'
  BY <1>1, <1>7 DEF ReportFailure, ShowNotification
<1>8. ASSUME NEW c \in Call, RefuseReauthentication(c)
      PROVE  SignalsMatchReplays'
  BY <1>1, <1>8 DEF RefuseReauthentication
<1>9. CASE UNCHANGED ivars
  BY <1>1, <1>9 DEF ivars
<1> QED
  BY <1>2, <1>3, <1>4, <1>5, <1>6, <1>7, <1>8, <1>9 DEF Next

\* The finished() signals in the event loop are those of the reauthenticators
\* that have all their answers, one for each and with the right result.
THEOREM SignalsAreThoseOfReplays == Spec => []SignalsMatchReplays
<1>1. Init => SignalsMatchReplays
  <2> SUFFICES ASSUME Init
               PROVE  SignalsMatchReplays
    OBVIOUS
  <2>1. Len(finished) = 0 /\ reauthenticators = {} /\ 1 .. 0 = {}
    BY EmptySeq DEF Init
  <2> QED
    BY <2>1 DEF SignalsMatchReplays
<1> QED
  BY <1>1, TypeCorrect, SignalsStep, PTL DEF Spec

\* A reauthenticator either waits for signond or has exactly one finished()
\* signal in the event loop, and there is none for one that is gone.
THEOREM OneFinishedSignal == Spec => []FinishedOnce
<1>1. TypeOK /\ SignalsMatchReplays => FinishedOnce
  <2> SUFFICES ASSUME ReplayType, SignalsMatchReplays, NEW a \in Account
               PROVE  LET signals == {i \in 1 .. Len(finished) : finished[i].account = a}
                      IN IF a \in reauthenticators /\ ~SessionPending(a)
                         THEN Cardinality(signals) = 1
                         ELSE signals = {}
    BY TypeSplit DEF FinishedOnce
  <2> DEFINE signals == {i \in 1 .. Len(finished) : finished[i].account = a}
  <2>1. errors[a] \in Nat /\ responses[a] \in Nat /\ total[a] \in Nat
        /\ (a \in reauthenticators => errors[a] + responses[a] <= total[a])
    BY MaxDataNat DEF ReplayType
  <2>2. CASE a \in reauthenticators /\ ~SessionPending(a)
    <3>1. errors[a] + responses[a] = total[a]
      BY <2>1, <2>2 DEF SessionPending
    <3>2. PICK i \in 1 .. Len(finished) : finished[i].account = a
      BY <2>2, <3>1 DEF SignalsMatchReplays
    <3>3. signals = {i}
      BY <3>2 DEF SignalsMatchReplays
    <3> HIDE DEF signals
    <3>4. Cardinality(signals) = 1
      BY <3>3, FS_Singleton
    <3> QED
      BY <2>2, <3>4 DEF signals
  <2>3. CASE ~(a \in reauthenticators /\ ~SessionPending(a))
    <3>1. signals = {}
      BY <2>1, <2>3 DEF SignalsMatchReplays, SessionPending
    <3> QED
      BY <2>3, <3>1
  <2> QED
    BY <2>2, <2>3
<1> QED
  BY <1>1, TypeCorrect, SignalsAreThoseOfReplays, PTL

\* The authentications recorded for an account when its replay began are only
\* dropped when all of them were replayed without an error; those reported during
\* the replay go with them (indicator-service.cpp, onReauthenticatorFinished).
THEOREM DataIsKept == Spec => DroppedAfterSuccess
<1>1. ASSUME TypeOK, SignalsMatchReplays, [Next]_ivars
      PROVE  [\A a \in Account : clientData'[a] < clientData[a] =>
                a \in reauthenticators /\ errors[a] = 0 /\ responses[a] = total[a]]_ivars
  <2> SUFFICES ASSUME NEW a \in Account, clientData'[a] < clientData[a]
               PROVE  a \in reauthenticators /\ errors[a] = 0 /\ responses[a] = total[a]
    OBVIOUS
  <2>1. ReplayType
    BY <1>1, TypeSplit
  <2>2. clientData[a] \in Nat /\ responses[a] \in Nat
    BY <2>1, MaxDataNat DEF ReplayType
  <2>3. clientData' # clientData
    BY <2>2
  <2>4. ASSUME NEW b \in Account, NEW data \in BOOLEAN, ReportFailure(b, data)
        PROVE  FALSE
    <3>1. clientData'[a] = clientData[a] \/ clientData'[a] = clientData[a] + 1
      BY <2>1, <2>4 DEF ReportFailure, ShowNotification, ReplayType
    <3> QED
      BY <2>2, <3>1
  <2>5. OnReauthenticatorFinished
    BY <1>1, <2>3, <2>4
    DEF Next, ClearErrorStatus, RemoveFailures, RefuseReauthentication,
        ReauthenticateAccount, OnError, OnResponse, ivars, failureVars
  <2> DEFINE f == Head(finished)
  <2>6. finished # <<>> /\ finished \in Seq(Signal)
    BY <2>1, <2>5 DEF OnReauthenticatorFinished, ReplayType
  <2>7. 1 \in 1 .. Len(finished) /\ f = finished[1]
    BY <2>6, HeadTailProperties, EmptySeq
  <2>8. f.success /\ f.account = a
    <3>1. clientData' = [b \in Account |-> IF b \in Cleared(f) THEN 0 ELSE clientData[b]]
      BY <2>5 DEF OnReauthenticatorFinished
    <3>2. a \in Cleared(f)
      BY <2>2, <3>1
    <3> QED
      BY <3>2 DEF Cleared
  <2>9. /\ a \in reauthenticators
        /\ errors[a] + responses[a] = total[a]
        /\ errors[a] = 0
    <3> DEFINE b == finished[1].account
    <3>1. /\ b \in reauthenticators
          /\ errors[b] + responses[b] = total[b]
          /\ finished[1].success <=> errors[b] = 0
      BY <1>1, <2>7, Zenon DEF SignalsMatchReplays
    <3>2. b = a /\ finished[1].success
      BY <2>7, <2>8
    <3> HIDE DEF b
    <3> QED
      BY <3>1, <3>2
  <2> QED
    BY <2>2, <2>9
<1> QED
  BY <1>1, TypeCorrect, SignalsAreThoseOfReplays, PTL DEF Spec, DroppedAfterSuccess

-----------------------------------------------------------------------------
(***************************************************************************)
(* The replies to ReauthenticateAccount, where there is one account.  With *)
(* several, two reauthenticators share m_clientMessage and the second call *)
(* may be answered twice: the property is then false.                      *)
(***************************************************************************)
OneAccount == \A a, b \in Account : a = b

\* A call that has not been made has no answer, nor has the call whose
\* reauthenticator is still there: it is the one in m_clientMessage.
RepliesInv ==
  /\ \A c \in Call : Len(answers[c]) <= 1
  /\ \A c \in Call \ called : Len(answers[c]) = 0
  /\ reauthenticators # {} => clientMessage \in called /\ Len(answers[clientMessage]) = 0

LEMMA AnsweredLength ==
  ASSUME TypeOK, NEW c \in Call, NEW result, result \in BOOLEAN, Answered(c, result)
  PROVE  \A d \in Call :
           Len(answers'[d]) = IF d = c THEN Len(answers[c]) + 1 ELSE Len(answers[d])
<1>1. answers \in [Call -> Seq(BOOLEAN)]
  BY DEF TypeOK
<1>2. answers[c] \in Seq(BOOLEAN)
  BY <1>1
<1>3. Len(Append(answers[c], result)) = Len(answers[c]) + 1
  BY <1>2, AppendProperties
<1>. QED
  BY <1>1, <1>3 DEF Answered

LEMMA RepliesStep ==
  ASSUME OneAccount, TypeOK, SignalsMatchReplays, RepliesInv, [Next]_ivars
  PROVE  RepliesInv'
<1>0. /\ reauthenticators \subseteq Account /\ called \subseteq Call
      /\ \A c \in Call : Len(answers[c]) \in Nat
  BY DEF TypeOK
<1>1. ASSUME UNCHANGED <<answers, called, clientMessage, reauthenticators>>
      PROVE  RepliesInv'
  BY <1>1 DEF RepliesInv
<1>2. ASSUME NEW c \in Call, RefuseReauthentication(c)
      PROVE  RepliesInv'
  <2>1. /\ c \notin called /\ Answered(c, FALSE) /\ called' = called \cup {c}
        /\ clientMessage' = clientMessage /\ reauthenticators' = reauthenticators
    BY <1>2 DEF RefuseReauthentication, reauthVars
  <2>2. \A d \in Call :
          Len(answers'[d]) = IF d = c THEN Len(answers[c]) + 1 ELSE Len(answers[d])
    BY <2>1, AnsweredLength
  <2>. QED
    BY <1>0, <2>1, <2>2 DEF RepliesInv
<1>3. ASSUME NEW c \in Call, NEW gone \in 0 .. MaxData, ReauthenticateAccount(c, gone)
      PROVE  RepliesInv'
  <2>1. /\ c \notin called /\ answers' = answers /\ called' = called \cup {c}
        /\ clientMessage' = c
    BY <1>3 DEF ReauthenticateAccount
  <2>. QED
    BY <1>0, <2>1 DEF RepliesInv
<1>4. CASE OnReauthenticatorFinished
  <2>. DEFINE f == Head(finished)
  <2>1. /\ finished # <<>> /\ Answered(clientMessage, f.success)
        /\ reauthenticators' = reauthenticators \ {f.account}
        /\ clientMessage' = clientMessage /\ called' = called
    BY <1>4 DEF OnReauthenticatorFinished
  <2>2. finished \in Seq([account : Account, success : BOOLEAN])
    BY DEF TypeOK
  <2>3. /\ f = finished[1] /\ 1 \in 1 .. Len(finished)
        /\ f \in [account : Account, success : BOOLEAN]
    <3>1. Len(finished) \in Nat /\ Len(finished) # 0 /\ f = finished[1]
      BY <2>1, <2>2, EmptySeq
    <3>2. 1 \in 1 .. Len(finished)
      BY <3>1
    <3>3. f \in [account : Account, success : BOOLEAN]
      BY <2>1, <2>2, HeadTailProperties
    <3>. QED
      BY <3>1, <3>2, <3>3
  <2>4. f.account \in Account /\ f.success \in BOOLEAN /\ f.account \in reauthenticators
    BY <2>3 DEF SignalsMatchReplays
  <2>5. clientMessage \in called /\ clientMessage \in Call /\ Len(answers[clientMessage]) = 0
    BY <1>0, <2>4 DEF RepliesInv
  <2>6. reauthenticators' = {}
    BY <1>0, <2>1, <2>4 DEF OneAccount
  <2>. HIDE DEF f
  <2>7. \A d \in Call : Len(answers'[d]) =
          IF d = clientMessage THEN Len(answers[clientMessage]) + 1 ELSE Len(answers[d])
    BY <2>1, <2>4, <2>5, AnsweredLength
  <2>. QED
    BY <1>0, <2>1, <2>5, <2>6, <2>7 DEF RepliesInv
<1>5. ASSUME NEW a \in Account, OnError(a) \/ OnResponse(a)
      PROVE  RepliesInv'
  BY <1>1, <1>5 DEF OnError, OnResponse, callVars
<1>6. CASE ClearErrorStatus
  BY <1>1, <1>6 DEF ClearErrorStatus, callVars, reauthVars
<1>7. ASSUME NEW accountIds \in SUBSET Account, RemoveFailures(accountIds)
      PROVE  RepliesInv'
  BY <1>1, <1>7 DEF RemoveFailures, callVars, reauthVars
<1>8. ASSUME NEW a \in Account, NEW data \in BOOLEAN, ReportFailure(a, data)
      PROVE  RepliesInv'
  BY <1>1, <1>8 DEF ReportFailure, ShowNotification, callVars, reauthVars
<1>9. CASE UNCHANGED ivars
  BY <1>1, <1>9 DEF ivars, callVars, reauthVars
<1>. QED
  BY <1>2, <1>3, <1>4, <1>5, <1>6, <1>7, <1>8, <1>9 DEF Next

\* No call is answered twice when there is one account: only one reauthenticator
\* exists at a time, and m_clientMessage is the call that created it.
THEOREM AnsweredAtMostOnceCorrect ==
  ASSUME OneAccount
  PROVE  Spec => []AnsweredAtMostOnce
<1>1. Init => RepliesInv
  <2>. SUFFICES ASSUME Init
                PROVE  RepliesInv
    OBVIOUS
  <2>1. \A c \in Call : Len(answers[c]) = 0
    BY EmptySeq DEF Init
  <2>. QED
    BY <2>1 DEF Init, RepliesInv
<1>2. TypeOK /\ SignalsMatchReplays /\ RepliesInv /\ [Next]_ivars => RepliesInv'
  BY RepliesStep
<1>3. RepliesInv => AnsweredAtMostOnce
  BY DEF RepliesInv, AnsweredAtMostOnce
<1>. QED
  BY <1>1, <1>2, <1>3, TypeCorrect, SignalsAreThoseOfReplays, PTL DEF Spec

\* The last reply of a call, when it is one that Answered adds.
LEMMA AnsweredLast ==
  ASSUME TypeOK, NEW c \in Call, NEW result \in BOOLEAN, Answered(c, result),
         NEW d \in Call, answers'[d] # answers[d]
  PROVE  d = c /\ answers'[d][Len(answers'[d])] = result
<1>1. answers \in [Call -> Seq(BOOLEAN)]
  BY DEF TypeOK
<1>2. d = c /\ answers'[d] = Append(answers[c], result) /\ answers[c] \in Seq(BOOLEAN)
  BY <1>1 DEF Answered
<1>3. /\ Len(Append(answers[c], result)) = Len(answers[c]) + 1
      /\ Append(answers[c], result)[Len(answers[c]) + 1] = result
  BY <1>2, AppendProperties
<1>. QED
  BY <1>2, <1>3

\* A caller that is told TRUE finds the failure of its account gone.
THEOREM TrueMeansClearedCorrect ==
  ASSUME OneAccount
  PROVE  Spec => TrueMeansCleared
<1>1. TypeOK /\ SignalsMatchReplays /\ [Next]_ivars =>
        [\A c \in Call : answers'[c] # answers[c] /\ answers'[c][Len(answers'[c])] =>
           AccountOf[c] \notin failures']_ivars
  <2>. SUFFICES ASSUME TypeOK, SignalsMatchReplays, Next, NEW c \in Call,
                       answers'[c] # answers[c], answers'[c][Len(answers'[c])]
                PROVE  AccountOf[c] \notin failures'
    BY DEF ivars, callVars
  <2>1. ASSUME NEW d \in Call, RefuseReauthentication(d)
        PROVE  FALSE
    BY <2>1, AnsweredLast DEF RefuseReauthentication
  <2>2. CASE OnReauthenticatorFinished
    <3>. DEFINE f == Head(finished)
    <3>1. /\ finished # <<>> /\ Answered(clientMessage, f.success)
          /\ failures' = failures \ Cleared(f)
      BY <2>2 DEF OnReauthenticatorFinished
    <3>2. /\ finished \in Seq([account : Account, success : BOOLEAN])
          /\ answers \in [Call -> Seq(BOOLEAN)]
      BY DEF TypeOK
    <3>3. /\ f.account \in Account /\ f.success \in BOOLEAN
      <4>1. f \in [account : Account, success : BOOLEAN]
        BY <3>1, <3>2, HeadTailProperties
      <4>. QED
        BY <4>1
    <3>. HIDE DEF f
    <3>4. clientMessage = c
      BY <3>1, <3>2 DEF Answered
    <3>5. f.success
      BY <3>1, <3>3, <3>4, AnsweredLast
    <3>6. AccountOf[c] = f.account
      BY <3>3, CallAssumption DEF OneAccount
    <3>. QED
      BY <3>1, <3>5, <3>6 DEF Cleared
  <2>3. ASSUME NEW d \in Call, NEW gone \in 0 .. MaxData, ReauthenticateAccount(d, gone)
        PROVE  FALSE
    BY <2>3 DEF ReauthenticateAccount
  <2>4. ASSUME NEW a \in Account, OnError(a) \/ OnResponse(a)
        PROVE  FALSE
    BY <2>4 DEF OnError, OnResponse, callVars
  <2>5. CASE ClearErrorStatus
    BY <2>5 DEF ClearErrorStatus, callVars
  <2>6. ASSUME NEW accountIds \in SUBSET Account, RemoveFailures(accountIds)
        PROVE  FALSE
    BY <2>6 DEF RemoveFailures, callVars
  <2>7. ASSUME NEW a \in Account, NEW data \in BOOLEAN, ReportFailure(a, data)
        PROVE  FALSE
    BY <2>7 DEF ReportFailure, ShowNotification, callVars
  <2>. QED
    BY <2>1, <2>2, <2>3, <2>4, <2>5, <2>6, <2>7 DEF Next
<1>. QED
  BY <1>1, TypeCorrect, SignalsAreThoseOfReplays, PTL DEF Spec, TrueMeansCleared

=============================================================================
