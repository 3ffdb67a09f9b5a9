------------------------------- MODULE Daemon -------------------------------
(***************************************************************************)
(* The life of the online-accounts-service process (main.cpp): the request *)
(* broker (RequestManager), the failure indicator (IndicatorService) and   *)
(* the manager of the version 2 API, a library outside this repository,    *)
(* run in one event loop and are watched by an InactivityTimer             *)
(* (inactivity-timer.cpp), which makes the application quit when all three *)
(* have been idle for a while.  isIdleChanged() is connected directly, so  *)
(* onIdleChanged runs inside the handler that emits it; handlers emit it   *)
(* after their last change to what isIdle() reads, or emit it again.       *)
(***************************************************************************)
EXTENDS RequestManager

CONSTANTS Account, Call, AccountOf, NoCall, MaxData

VARIABLES failures, clientData, errorStatus, reauthenticators, total, errors,
          responses, finished, clientMessage, answers, called, shown, idleSignal

VARIABLES
  v2Idle,  \* the isIdle property of the version 2 API manager
  watched, \* m_watchedObjects, by name
  armed,   \* is m_timer active?
  app      \* "starting" until app.exec(), then "running", then "quit"

Indicator == INSTANCE IndicatorService

indicatorVars ==
  <<failures, clientData, errorStatus, reauthenticators, total, errors,
    responses, finished, clientMessage, answers, called, shown, idleSignal>>
daemonVars == <<v2Idle, watched, armed, app>>
dvars == <<vars, indicatorVars, daemonVars>>

Startup == <<"v2api", "requestManager", "indicatorService">>

Watchable == {Startup[i] : i \in 1 .. Len(Startup)}

DaemonInit ==
  /\ Init
  /\ Indicator!Init
  /\ v2Idle \in BOOLEAN
  /\ watched = {}
  /\ armed = FALSE
  /\ app = "starting"

\* RequestManager::isIdle
ManagerIdle == windows = {}

IdleProperty == [v2api            |-> v2Idle,
                 requestManager   |-> ManagerIdle,
                 indicatorService |-> Indicator!IsIdle]

\* A mutant of AllObjectsAreIdle: one idle object is enough.
SomeObjectIsIdle(objects) == \E o \in objects : IdleProperty[o]

AllObjectsAreIdle(objects) == \A o \in objects : IdleProperty[o]

\* onIdleChanged, when an object emitted isIdleChanged() in this step: the
\* timer is started or stopped.
OnIdleChanged(emitted) ==
  armed' = IF emitted THEN AllObjectsAreIdle(watched)' ELSE armed

-----------------------------------------------------------------------------
\* watchObject, in the order of main(); no event is handled before app.exec().
WatchObject(o) ==
  /\ app = "starting"
  /\ Cardinality(watched) < Len(Startup)
  /\ o = Startup[Cardinality(watched) + 1]
  /\ watched' = watched \cup {o}
  /\ UNCHANGED <<vars, indicatorVars, v2Idle, app>>
  /\ OnIdleChanged(TRUE)

Exec ==
  /\ app = "starting"
  /\ Cardinality(watched) = Len(Startup)
  /\ app' = "running"
  /\ UNCHANGED <<vars, indicatorVars, v2Idle, watched, armed>>

Up == app = "running" /\ Running

\* A mutant of BecameIdle: the end of the last request is not signalled.
NeverBecomesIdle == FALSE

\* RequestManagerPrivate::onRequestCompleted removed the last queue.
BecameIdle == windows # {} /\ windows' = {}

\* A handler of the broker: enqueue() emits isIdleChanged() if the manager was
\* idle, onRequestCompleted() (also for a request that enqueue() fails at once,
\* in a queue that a late cancellation left empty) if it has become idle.
BrokerStep(r) ==
  /\ Up
  /\ UNCHANGED <<indicatorVars, v2Idle, watched, app>>
  /\ \/ Enqueue(r) /\ OnIdleChanged(ManagerIdle \/ BecameIdle)
     \/ /\ \/ \E p \in proxies : HandOver(r, p)
           \/ CancelUiRequest(r)
           \/ DeleteRequest(r)
           \/ ProxyStep(r)
           \/ UiStep(r)
        /\ OnIdleChanged(BecameIdle)

IndicatorStep ==
  /\ Up
  /\ Indicator!Next
  /\ UNCHANGED <<vars, v2Idle, watched, app>>
  /\ OnIdleChanged(idleSignal')

\* The version 2 API manager starts or ends its own work.
V2IdleChanged ==
  /\ Up
  /\ v2Idle' = ~v2Idle
  /\ UNCHANGED <<vars, indicatorVars, watched, app>>
  /\ OnIdleChanged(TRUE)

\* timeout() is connected to the application's quit().
OnTimeout ==
  /\ Up
  /\ armed
  /\ armed' = FALSE
  /\ app' = IF AllObjectsAreIdle(watched) THEN "quit" ELSE app
  /\ UNCHANGED <<vars, indicatorVars, v2Idle, watched>>

DaemonNext ==
  \/ \E o \in Watchable : WatchObject(o)
  \/ Exec
  \/ \E r \in Request : BrokerStep(r)
  \/ IndicatorStep
  \/ V2IdleChanged
  \/ OnTimeout

DaemonSpec == DaemonInit /\ [][DaemonNext]_dvars

\* main() runs to app.exec() and the timer of an idle daemon fires.
DaemonFairness ==
  /\ WF_dvars(\E o \in Watchable : WatchObject(o))
  /\ WF_dvars(Exec)
  /\ WF_dvars(OnTimeout)

DaemonFairSpec == DaemonSpec /\ DaemonFairness

-----------------------------------------------------------------------------
\* The inactivity timer runs exactly while all watched objects are idle: no
\* change of an isIdle property goes unsignalled.  Otherwise the daemon would
\* stay for ever, or onTimeout would find it busy and never try again.
TimerFollowsIdle ==
  Up => (armed <=> v2Idle /\ windows = {} /\ failures = {})

\* The daemon does not quit with an account request unanswered.
QuitLeavesNoAccountRequest ==
  app = "quit" => \A r \in Request \ SignOn : life[r] # "alive"

\* A daemon that stays idle quits.
IdleDaemonQuits ==
  (v2Idle /\ windows = {} /\ failures = {} /\ Running)
    ~> (app = "quit" \/ ~v2Idle \/ windows # {} \/ failures # {})

=============================================================================
