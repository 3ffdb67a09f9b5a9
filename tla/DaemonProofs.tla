---------------------------- MODULE DaemonProofs ----------------------------
(***************************************************************************)
(* Machine-checked proofs about Daemon: it runs the broker and the         *)
(* indicator as they are specified on their own, it does not quit with an  *)
(* account request unanswered, and its inactivity timer follows the isIdle *)
(* properties as long as signond cancels nothing.                          *)
(***************************************************************************)
EXTENDS Daemon, RequestManagerProofs, FiniteSetTheorems

(***************************************************************************)
(* The parts run as specified on their own.                                *)
(***************************************************************************)

\* main() and the timer touch neither the broker nor the indicator.
LEMMA DaemonRunsBroker == DaemonSpec => Spec
<1>1. DaemonInit => Init
  BY DEF DaemonInit
<1>2. [DaemonNext]_dvars => [Next]_vars
  <2>1. SUFFICES ASSUME [DaemonNext]_dvars
                 PROVE  [Next]_vars
    OBVIOUS
  <2>2. ASSUME NEW r \in Request, BrokerStep(r)
        PROVE  Next
    BY <2>2 DEF BrokerStep, Next, RequestStep
  <2>3. CASE \/ \E o \in Watchable : WatchObject(o)
             \/ Exec \/ IndicatorStep \/ V2IdleChanged \/ OnTimeout
    BY <2>3 DEF WatchObject, Exec, IndicatorStep, V2IdleChanged, OnTimeout
  <2>4. CASE UNCHANGED dvars
    BY <2>4 DEF dvars
  <2> QED
    BY <2>1, <2>2, <2>3, <2>4 DEF DaemonNext
<1> QED
  BY <1>1, <1>2, PTL DEF DaemonSpec, Spec

LEMMA DaemonRunsIndicator == DaemonSpec => Indicator!Spec
<1>1. DaemonInit => Indicator!Init
  BY DEF DaemonInit
<1>2. [DaemonNext]_dvars => [Indicator!Next]_(Indicator!ivars)
  <2>1. SUFFICES ASSUME [DaemonNext]_dvars
                 PROVE  [Indicator!Next]_(Indicator!ivars)
    OBVIOUS
  <2>2. CASE IndicatorStep
    BY <2>2 DEF IndicatorStep
  <2>3. CASE UNCHANGED indicatorVars
    BY <2>3 DEF indicatorVars, Indicator!ivars, Indicator!failureVars,
                Indicator!reauthVars, Indicator!callVars
  <2>4. ASSUME NEW r \in Request, BrokerStep(r)
        PROVE  UNCHANGED indicatorVars
    BY <2>4 DEF BrokerStep
  <2>5. CASE \/ \E o \in Watchable : WatchObject(o)
             \/ Exec \/ V2IdleChanged \/ OnTimeout \/ UNCHANGED dvars
    BY <2>3, <2>5 DEF WatchObject, Exec, V2IdleChanged, OnTimeout, dvars
  <2> QED
    BY <2>1, <2>2, <2>3, <2>4, <2>5 DEF DaemonNext
<1> QED
  BY <1>1, <1>2, PTL DEF DaemonSpec, Indicator!Spec

-----------------------------------------------------------------------------
(***************************************************************************)
(* What main() has set up.                                                 *)
(***************************************************************************)
AllIdle == v2Idle /\ windows = {} /\ failures = {}

\* The objects are watched in the order of main(), all of them once the event
\* loop runs.
StartedOK ==
  /\ v2Idle \in BOOLEAN
  /\ armed \in BOOLEAN
  /\ app \in {"starting", "running", "quit"}
  /\ \/ watched = {}
     \/ watched = {"v2api"}
     \/ watched = {"v2api", "requestManager"}
     \/ watched = Watchable
  /\ app # "starting" => watched = Watchable

LEMMA StartupFacts ==
  /\ Len(Startup) = 3
  /\ Startup[1] = "v2api" /\ Startup[2] = "requestManager" /\ Startup[3] = "indicatorService"
  /\ Watchable = {"v2api", "requestManager", "indicatorService"}
<1>1. /\ Len(Startup) = 3
      /\ Startup[1] = "v2api" /\ Startup[2] = "requestManager" /\ Startup[3] = "indicatorService"
  BY DEF Startup
<1>2. \A i : i \in 1 .. Len(Startup) <=> i = 1 \/ i = 2 \/ i = 3
  BY <1>1
<1>3. Watchable = {"v2api", "requestManager", "indicatorService"}
  BY <1>1, <1>2 DEF Watchable
<1> QED
  BY <1>1, <1>3

LEMMA WatchedSizes ==
  /\ Cardinality({}) = 0
  /\ Cardinality({"v2api"}) = 1
  /\ Cardinality({"v2api", "requestManager"}) = 2
  /\ Cardinality(Watchable) = 3
<1>1. IsFiniteSet({}) /\ Cardinality({}) = 0
  BY FS_EmptySet
<1>2. IsFiniteSet({"v2api"}) /\ Cardinality({"v2api"}) = 1
  BY FS_Singleton
<1>3. {"v2api", "requestManager"} = {"v2api"} \cup {"requestManager"}
  OBVIOUS
<1>4. /\ IsFiniteSet({"v2api", "requestManager"})
      /\ Cardinality({"v2api", "requestManager"}) = 2
  BY <1>2, <1>3, FS_AddElement
<1>5. Watchable = {"v2api", "requestManager"} \cup {"indicatorService"}
  BY StartupFacts
<1>6. Cardinality(Watchable) = 3
  BY <1>4, <1>5, FS_AddElement
<1> QED
  BY <1>1, <1>2, <1>4, <1>6

\* What onIdleChanged() looks at once everything is watched.
LEMMA AllWatchedIdle ==
  /\ watched = Watchable => (AllObjectsAreIdle(watched) <=> AllIdle)
  /\ watched' = Watchable => (AllObjectsAreIdle(watched)' <=> AllIdle')
<1>1. /\ IdleProperty["v2api"] <=> v2Idle
      /\ IdleProperty["requestManager"] <=> windows = {}
      /\ IdleProperty["indicatorService"] <=> failures = {}
  BY DEF IdleProperty, ManagerIdle, Indicator!IsIdle
<1>2. /\ IdleProperty["v2api"]' <=> v2Idle'
      /\ IdleProperty["requestManager"]' <=> windows' = {}
      /\ IdleProperty["indicatorService"]' <=> failures' = {}
  BY DEF IdleProperty, ManagerIdle, Indicator!IsIdle
<1>3. watched = Watchable => (AllObjectsAreIdle(watched) <=> AllIdle)
  BY <1>1, StartupFacts DEF AllObjectsAreIdle, AllIdle
<1>4. watched' = Watchable => (AllObjectsAreIdle(watched)' <=> AllIdle')
  BY <1>2, StartupFacts DEF AllObjectsAreIdle, AllIdle
<1> QED
  BY <1>3, <1>4

LEMMA StartedInit == DaemonInit => StartedOK
  BY DEF DaemonInit, StartedOK

LEMMA StartedStep == StartedOK /\ [DaemonNext]_dvars => StartedOK'
<1> SUFFICES ASSUME StartedOK, [DaemonNext]_dvars
             PROVE  StartedOK'
  OBVIOUS
<1>1. ASSUME NEW emitted, OnIdleChanged(emitted)
      PROVE  armed' \in BOOLEAN
  BY <1>1 DEF OnIdleChanged, AllObjectsAreIdle, StartedOK
<1>2. ASSUME NEW o \in Watchable, WatchObject(o)
      PROVE  StartedOK'
  <2>1. /\ app = "starting" /\ app' = app /\ v2Idle' = v2Idle
        /\ Cardinality(watched) < 3
        /\ o = Startup[Cardinality(watched) + 1]
        /\ watched' = watched \cup {o}
    BY <1>2, StartupFacts DEF WatchObject
  <2>2. armed' \in BOOLEAN
    BY <1>1, <1>2 DEF WatchObject
  <2>3. CASE watched = {}
    <3>1. watched' = {"v2api"}
      BY <2>1, <2>3, WatchedSizes, StartupFacts
    <3> QED
      BY <2>1, <2>2, <3>1 DEF StartedOK
  <2>4. CASE watched = {"v2api"}
    <3>1. watched' = {"v2api", "requestManager"}
      BY <2>1, <2>4, WatchedSizes, StartupFacts
    <3> QED
      BY <2>1, <2>2, <3>1 DEF StartedOK
  <2>5. CASE watched = {"v2api", "requestManager"}
    <3>1. watched' = Watchable
      BY <2>1, <2>5, WatchedSizes, StartupFacts
    <3> QED
      BY <2>1, <2>2, <3>1 DEF StartedOK
  <2>6. watched # Watchable
    BY <2>1, WatchedSizes
  <2> QED
    BY <2>3, <2>4, <2>5, <2>6 DEF StartedOK
<1>3. CASE Exec
  <2>1. watched = Watchable
    BY <1>3, WatchedSizes, StartupFacts DEF Exec, StartedOK
  <2> QED
    BY <1>3, <2>1 DEF Exec, StartedOK
<1>4. ASSUME NEW r \in Request, BrokerStep(r)
      PROVE  StartedOK'
  <2>1. armed' \in BOOLEAN
    BY <1>1, <1>4 DEF BrokerStep
  <2> QED
    BY <1>4, <2>1 DEF BrokerStep, StartedOK
<1>5. CASE IndicatorStep
  <2>1. armed' \in BOOLEAN
    BY <1>1, <1>5 DEF IndicatorStep
  <2> QED
    BY <1>5, <2>1 DEF IndicatorStep, StartedOK
<1>6. CASE V2IdleChanged
  <2>1. armed' \in BOOLEAN
    BY <1>1, <1>6 DEF V2IdleChanged
  <2>2. v2Idle' \in BOOLEAN
    BY <1>6 DEF V2IdleChanged
  <2> QED
    BY <1>6, <2>1, <2>2 DEF V2IdleChanged, StartedOK
<1>7. CASE OnTimeout
  <2>1. armed' \in BOOLEAN
    BY <1>7 DEF OnTimeout
  <2>2. app' \in {"running", "quit"} /\ app = "running"
    BY <1>7 DEF OnTimeout, Up
  <2> QED
    BY <1>7, <2>1, <2>2 DEF OnTimeout, StartedOK
<1>8. CASE UNCHANGED dvars
  BY <1>8 DEF dvars, daemonVars, StartedOK
<1> QED
  BY <1>2, <1>3, <1>4, <1>5, <1>6, <1>7, <1>8 DEF DaemonNext

\* Every reachable state of the daemon's start and end is well formed: the
\* event loop runs only once main() has watched all three objects.
THEOREM StartedCorrect == DaemonSpec => []StartedOK
<1> QED
  BY StartedInit, StartedStep, PTL DEF DaemonSpec

-----------------------------------------------------------------------------
(***************************************************************************)
(* The daemon does not quit on an account request.                         *)
(***************************************************************************)

\* An account request names no handler: only a proxy of its own serves it.
AccountVia == \A r \in Request \ SignOn : via[r] \in {NoProxy, r}

LEMMA AccountViaStep == TypeOK /\ AccountVia /\ [Next]_vars => AccountVia'
<1> SUFFICES ASSUME TypeOK, AccountVia, [Next]_vars,
                    NEW x \in Request \ SignOn
             PROVE  via'[x] \in {NoProxy, x}
  BY DEF AccountVia
<1>0. BrokerType /\ UiType /\ via[x] \in {NoProxy, x}
  BY TypeSplit DEF AccountVia
<1>1. CASE via' = via
  BY <1>0, <1>1
<1>2. ASSUME NEW done, NEW cleared, NEW started, Reply(done, cleared, started)
      PROVE  via'[x] \in {NoProxy, x}
  BY <1>0, <1>2 DEF Reply
<1>3. ASSUME NEW w, NEW q, NEW born, NEW done, NEW cleared, NEW gone,
             RunQueue(w, q, born, done, cleared, gone)
      PROVE  via'[x] \in {NoProxy, x}
  <2>1. CASE MustServe(q, inProgress \ cleared)
    <3>1. PICK k \in InitFailures(q), outcome \in StartOutcome :
            LET refused == {q[i] : i \in 1 .. k}
                rest    == SubSeq(q, k + 1, Len(q))
                started == IF rest = <<>> THEN {} ELSE {Head(rest)}
            IN Reply(done \cup refused, cleared, started)
      BY <1>3, <2>1 DEF RunQueue
    <3> QED
      BY <1>2, <3>1
  <2>2. CASE ~MustServe(q, inProgress \ cleared)
    BY <1>2, <1>3, <2>2 DEF RunQueue
  <2> QED
    BY <2>1, <2>2
<1>4. ASSUME NEW done, NEW cleared, NEW gone, Completed(done, cleared, gone)
      PROVE  via'[x] \in {NoProxy, x}
  BY <1>2, <1>3, <1>4
  DEF Completed, CompletedElsewhere, CompletedHead, CompletedNotFirst
<1>5. ASSUME NEW r \in Request, RequestStep(r)
      PROVE  via'[x] \in {NoProxy, x}
  <2>1. CASE Enqueue(r)
    BY <1>3, <2>1 DEF Enqueue
  <2>2. ASSUME NEW p \in proxies, HandOver(r, p)
        PROVE  via'[x] \in {NoProxy, x}
    <3>1. HandlerOf[r] # NoHandler
      <4>1. p \in Request /\ HandlerOf[r] \in handlers[p]
        BY <1>0, <2>2 DEF HandOver, ProxiesWithHandlerFor, BrokerType
      <4> QED
        BY <1>0, <4>1, RequestAssumption DEF UiType
    <3>2. r # x
      BY <3>1, RequestAssumption
    <3> QED
      BY <1>0, <2>2, <3>2 DEF HandOver, BrokerType
  <2>3. CASE CancelUiRequest(r)
    BY <1>4, <2>3 DEF CancelUiRequest
  <2>4. CASE DeleteRequest(r)
    BY <1>1, <2>4 DEF DeleteRequest
  <2> QED
    BY <1>5, <2>1, <2>2, <2>3, <2>4 DEF RequestStep
<1>6. ASSUME NEW p \in Request, ProxyStep(p)
      PROVE  via'[x] \in {NoProxy, x}
  <2>1. CASE OnDataReady(p)
    BY <1>1, <1>4, <2>1
    DEF OnDataReady, OnRegisterHandler, OnAnswer, OnStaleAnswer, requestVars
  <2>2. CASE DeleteProxy(p)
    BY <1>4, <2>2 DEF DeleteProxy
  <2> QED
    BY <1>1, <1>6, <2>1, <2>2
    DEF ProxyStep, OnNewConnection, OnDisconnected, OnFinishedTimer,
        OnPromptSessionFinished, requestVars
<1>7. ASSUME NEW p \in Request, UiStep(p)
      PROVE  via'[x] \in {NoProxy, x}
  BY <1>1, <1>7 DEF UiStep, UiAnswer, UiRegister, UiExit, requestVars
<1>8. CASE UNCHANGED vars
  BY <1>1, <1>8 DEF vars, requestVars
<1> QED
  BY <1>5, <1>6, <1>7, <1>8 DEF Next

\* A manager with no queue has no account request to answer: each waits in its
\* queue, or is the head of it, held by its own proxy.
LEMMA NoQueueNoAccountRequest ==
  ASSUME IInv, AccountVia, windows = {}, NEW r \in Request \ SignOn
  PROVE  life[r] # "alive"
<1>1. SUFFICES ASSUME life[r] = "alive"
               PROVE  FALSE
  OBVIOUS
<1>2. WindowOf[r] \in Window /\ queue[WindowOf[r]] = <<>>
  BY RequestAssumption DEF IInv, QueuesOk
<1>3. ~InQueue(r)
  BY <1>2 DEF InQueue
<1>4. via[r] \in Request /\ r \in held[via[r]]
  BY <1>1, <1>3 DEF IInv, AliveOk
<1>5. via[r] = r
  BY <1>4, RequestAssumption DEF AccountVia
<1>6. IsHead(r)
  BY <1>4, <1>5 DEF IInv, HeldOk
<1> QED
  BY <1>2, <1>6 DEF IsHead

LEMMA QuitStep ==
  ASSUME IInv, AccountVia, StartedOK, QuitLeavesNoAccountRequest, [DaemonNext]_dvars
  PROVE  QuitLeavesNoAccountRequest'
<1>1. CASE OnTimeout
  <2>1. life' = life /\ watched = Watchable
    BY <1>1 DEF OnTimeout, Up, StartedOK, vars, requestVars
  <2>2. CASE AllObjectsAreIdle(watched)
    <3>1. windows = {}
      BY <2>1, <2>2, AllWatchedIdle DEF AllIdle
    <3> QED
      BY <2>1, <3>1, NoQueueNoAccountRequest DEF QuitLeavesNoAccountRequest
  <2>3. CASE ~AllObjectsAreIdle(watched)
    <3>1. app' = "running"
      BY <1>1, <2>3 DEF OnTimeout, Up
    <3> QED
      BY <3>1 DEF QuitLeavesNoAccountRequest
  <2> QED
    BY <2>2, <2>3
<1>2. CASE app' # "quit"
  BY <1>2 DEF QuitLeavesNoAccountRequest
<1>3. ASSUME NEW r \in Request, BrokerStep(r)
      PROVE  app' # "quit"
  BY <1>3 DEF BrokerStep, Up
<1>4. CASE \/ \E o \in Watchable : WatchObject(o)
           \/ Exec \/ IndicatorStep \/ V2IdleChanged
  BY <1>2, <1>4 DEF WatchObject, Exec, IndicatorStep, V2IdleChanged, Up
<1>5. CASE UNCHANGED dvars
  BY <1>5 DEF dvars, vars, requestVars, daemonVars, QuitLeavesNoAccountRequest
<1> QED
  BY <1>1, <1>2, <1>3, <1>4, <1>5 DEF DaemonNext

\* The daemon does not quit with an account request unanswered, whatever the
\* version 2 API and the indicator do, and whatever fails.
THEOREM QuitLeavesNoAccountRequestCorrect == DaemonSpec => []QuitLeavesNoAccountRequest
<1>1. DaemonSpec => []IInv
  BY DaemonRunsBroker, IInvCorrect
<1>2. Init => AccountVia
  BY DEF Init, AccountVia
<1>3. IInv => TypeOK
  BY DEF IInv
<1>4. DaemonSpec => []AccountVia
  BY <1>1, <1>2, <1>3, AccountViaStep, DaemonRunsBroker, PTL DEF Spec
<1>5. DaemonInit => QuitLeavesNoAccountRequest
  BY DEF DaemonInit, QuitLeavesNoAccountRequest
<1>6. IInv /\ AccountVia /\ StartedOK /\ QuitLeavesNoAccountRequest /\ [DaemonNext]_dvars
        => QuitLeavesNoAccountRequest'
  BY QuitStep
<1> QED
  BY <1>1, <1>4, <1>5, <1>6, StartedCorrect, PTL DEF DaemonSpec

-----------------------------------------------------------------------------
(***************************************************************************)
(* The inactivity timer.  A late cancellation, of a request that waits for *)
(* its deferred delete, leaves an empty queue in m_requests and signals    *)
(* nothing: without "cancel" this does not happen.                         *)
(***************************************************************************)

\* Every step of the broker that makes it busy or idle is one whose handler
\* emits isIdleChanged().
LEMMA CompletedIdleChange ==
  ASSUME TypeOK, BrokerInv, NEW p \in Request, NEW done \in SUBSET held[p],
         NEW cleared, NEW gone, Completed(done, cleared, gone), windows = {}
  PROVE  windows' = {}
<1>1. \A r \in done : via[r] = p
  BY DEF BrokerInv, HeldOk
<1>2. \A w \in Window : queue[w] = <<>>
  BY DEF BrokerInv, QueuesOk
<1>3. \A r \in done : ~IsQueued(r)
  <2>1. SUFFICES ASSUME NEW r \in done, r = p
                 PROVE  FALSE
    BY <1>1 DEF IsQueued
  <2>2. IsHead(r)
    BY <2>1 DEF BrokerInv, HeldOk
  <2> QED
    BY <1>2, <2>1, <2>2, RequestAssumption DEF IsHead
<1> QED
  BY <1>3 DEF Completed, CompletedElsewhere, CompletedHead, CompletedNotFirst, queueVars

LEMMA BrokerIdleChange ==
  ASSUME "cancel" \notin Faults, IInv, NEW r \in Request, windows = {},
         \/ \E p \in proxies : HandOver(r, p)
         \/ CancelUiRequest(r)
         \/ DeleteRequest(r)
         \/ ProxyStep(r)
         \/ UiStep(r)
  PROVE  windows' = {}
<1>0. TypeOK /\ BrokerInv
  BY DEF IInv, BrokerInv
<1>1. CASE OnDataReady(r)
  <2> DEFINE m == Head(inbox[r])
  <2>1. \/ OnRegisterHandler(r, m)
        \/ OnAnswer(r, m)
        \/ OnStaleAnswer(r, m)
    BY <1>1 DEF OnDataReady
  <2> HIDE DEF m
  <2>2. CASE m.req \in held[r] /\ Completed({m.req}, ClearedBy(m), {})
    <3>1. {m.req} \in SUBSET held[r]
      BY <2>2
    <3> QED
      BY <1>0, <2>2, <3>1, CompletedIdleChange
  <2>3. CASE UNCHANGED queueVars
    BY <2>3 DEF queueVars
  <2> QED
    BY <2>1, <2>2, <2>3 DEF OnRegisterHandler, OnAnswer, OnStaleAnswer
<1>2. CASE DeleteProxy(r)
  <2>1. CancelledBy(r) \in SUBSET held[r]
    BY DEF CancelledBy
  <2> QED
    BY <1>0, <1>2, <2>1, CompletedIdleChange DEF DeleteProxy
<1>3. CASE UNCHANGED queueVars
  BY <1>3 DEF queueVars
<1> QED
  BY <1>1, <1>2, <1>3
  DEF HandOver, CancelUiRequest, DeleteRequest, ProxyStep, OnNewConnection,
      OnDisconnected, OnFinishedTimer, OnPromptSessionFinished, UiStep,
      UiAnswer, UiRegister, UiExit

\* The indicator signals every change of its own isIdle.
LEMMA IndicatorIdleChange ==
  ASSUME Indicator!Next, ~idleSignal'
  PROVE  failures' = {} <=> failures = {}
<1>1. ASSUME NEW ids \in SUBSET Account, Indicator!RemoveFailures(ids)
      PROVE  failures' = {} <=> failures = {}
  BY <1>1 DEF Indicator!RemoveFailures
<1>2. ASSUME NEW a \in Account, NEW data \in BOOLEAN, Indicator!ReportFailure(a, data)
      PROVE  failures' = {} <=> failures = {}
  BY <1>2 DEF Indicator!ReportFailure, Indicator!ShowNotification, Indicator!WasIdle, Indicator!IsIdle
<1>3. CASE Indicator!OnReauthenticatorFinished
  <2> DEFINE f == Head(finished)
  <2>1. /\ failures' = failures \ Indicator!Cleared(f)
        /\ idleSignal' = (f.success /\ failures' = {})
    BY <1>3 DEF Indicator!OnReauthenticatorFinished
  <2> HIDE DEF f
  <2>2. CASE ~f.success
    BY <2>1, <2>2 DEF Indicator!Cleared
  <2>3. CASE f.success
    BY <2>1, <2>3
  <2> QED
    BY <2>2, <2>3
<1>4. CASE failures' = failures
  BY <1>4
<1> QED
  BY <1>1, <1>2, <1>3, <1>4
  DEF Indicator!Next, Indicator!ClearErrorStatus, Indicator!RefuseReauthentication,
      Indicator!ReauthenticateAccount, Indicator!OnError, Indicator!OnResponse,
      Indicator!failureVars

\* Once everything is watched the timer runs exactly while all is idle.
TimerOK ==
  watched = Watchable /\ app # "quit" => (armed <=> AllIdle)

LEMMA TimerStep ==
  ASSUME "cancel" \notin Faults, IInv, StartedOK, StartedOK', TimerOK, [DaemonNext]_dvars
  PROVE  TimerOK'
<1>1. ASSUME OnIdleChanged(TRUE)
      PROVE  TimerOK'
  BY <1>1, AllWatchedIdle DEF OnIdleChanged, TimerOK
<1>2. ASSUME NEW emitted, OnIdleChanged(emitted), UNCHANGED <<watched, app>>, app = "running",
             ~emitted => (AllIdle' <=> AllIdle)
      PROVE  TimerOK'
  <2>1. CASE emitted
    BY <1>2, <2>1, AllWatchedIdle DEF OnIdleChanged, TimerOK
  <2>2. CASE ~emitted
    BY <1>2, <2>2 DEF OnIdleChanged, TimerOK
  <2> QED
    BY <2>1, <2>2
<1>3. ASSUME NEW o \in Watchable, WatchObject(o)
      PROVE  TimerOK'
  BY <1>1, <1>3 DEF WatchObject
<1>4. CASE Exec
  <2>1. app = "starting" /\ UNCHANGED <<vars, indicatorVars, v2Idle, watched, armed>>
    BY <1>4 DEF Exec
  <2>2. AllIdle' <=> AllIdle
    BY <2>1 DEF AllIdle, vars, queueVars, indicatorVars
  <2> QED
    BY <2>1, <2>2 DEF TimerOK
<1>5. ASSUME NEW r \in Request, BrokerStep(r)
      PROVE  TimerOK'
  <2>1. /\ app = "running" /\ UNCHANGED <<indicatorVars, v2Idle, watched, app>>
        /\ failures' = failures
    BY <1>5 DEF BrokerStep, Up, indicatorVars
  <2>2. CASE Enqueue(r) /\ OnIdleChanged(ManagerIdle \/ BecameIdle)
    <3>1. ~(ManagerIdle \/ BecameIdle) => (AllIdle' <=> AllIdle)
      BY <2>1 DEF ManagerIdle, BecameIdle, AllIdle
    <3> QED
      BY <1>2, <2>1, <2>2, <3>1
  <2>3. CASE /\ \/ \E p \in proxies : HandOver(r, p)
                \/ CancelUiRequest(r)
                \/ DeleteRequest(r)
                \/ ProxyStep(r)
                \/ UiStep(r)
             /\ OnIdleChanged(BecameIdle)
    <3>1. windows = {} => windows' = {}
      BY <2>3, BrokerIdleChange
    <3>2. ~BecameIdle => (AllIdle' <=> AllIdle)
      BY <2>1, <3>1 DEF BecameIdle, AllIdle
    <3> QED
      BY <1>2, <2>1, <2>3, <3>2
  <2> QED
    BY <1>5, <2>2, <2>3 DEF BrokerStep
<1>6. CASE IndicatorStep
  <2>1. /\ app = "running" /\ UNCHANGED <<vars, v2Idle, watched, app>>
        /\ Indicator!Next /\ windows' = windows
    BY <1>6 DEF IndicatorStep, Up, vars, queueVars
  <2>2. ~idleSignal' => (AllIdle' <=> AllIdle)
    BY <2>1, IndicatorIdleChange DEF AllIdle
  <2>3. OnIdleChanged(idleSignal')
    BY <1>6 DEF IndicatorStep
  <2>4. CASE idleSignal'
    BY <2>1, <2>3, <2>4, AllWatchedIdle DEF OnIdleChanged, TimerOK
  <2>5. CASE ~idleSignal'
    BY <2>1, <2>2, <2>3, <2>5 DEF OnIdleChanged, TimerOK
  <2> QED
    BY <2>4, <2>5
<1>7. CASE V2IdleChanged
  BY <1>1, <1>7 DEF V2IdleChanged
<1>8. CASE OnTimeout
  <2>1. app = "running" /\ armed /\ watched = Watchable
    BY <1>8 DEF OnTimeout, Up, StartedOK
  <2>2. AllObjectsAreIdle(watched)
    BY <2>1, AllWatchedIdle DEF TimerOK
  <2>3. app' = "quit"
    BY <1>8, <2>2 DEF OnTimeout
  <2> QED
    BY <2>3 DEF TimerOK
<1>9. CASE UNCHANGED dvars
  <2>1. AllIdle' <=> AllIdle
    BY <1>9 DEF dvars, daemonVars, AllIdle, vars, queueVars, indicatorVars
  <2> QED
    BY <1>9, <2>1 DEF dvars, daemonVars, TimerOK
<1> QED
  BY <1>3, <1>4, <1>5, <1>6, <1>7, <1>8, <1>9 DEF DaemonNext

\* No change of an isIdle property goes unsignalled: while the event loop runs
\* the timer is active exactly when the broker, the indicator and the version 2
\* API are all idle.
THEOREM TimerFollowsIdleCorrect ==
  ASSUME "cancel" \notin Faults
  PROVE  DaemonSpec => []TimerFollowsIdle
<1>1. DaemonSpec => []IInv
  BY DaemonRunsBroker, IInvCorrect
<1>2. DaemonInit => TimerOK
  BY WatchedSizes DEF DaemonInit, TimerOK
<1>3. IInv /\ StartedOK /\ StartedOK' /\ TimerOK /\ [DaemonNext]_dvars => TimerOK'
  BY TimerStep
<1>4. StartedOK /\ TimerOK => TimerFollowsIdle
  BY DEF StartedOK, TimerOK, TimerFollowsIdle, Up, AllIdle
<1> QED
  BY <1>1, <1>2, <1>3, <1>4, StartedCorrect, PTL DEF DaemonSpec

=============================================================================
