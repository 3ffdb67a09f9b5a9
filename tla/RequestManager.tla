--------------------------- MODULE RequestManager ---------------------------
(***************************************************************************)
(* The request broker of online-accounts-service: Request (request.cpp),   *)
(* RequestManager (request-manager.cpp) and UiProxy (ui-proxy.cpp), which  *)
(* run together in one Qt event loop.  D-Bus calls become Request objects; *)
(* RequestManager keeps one FIFO queue per window and serves the head of   *)
(* each; serving a request means creating a UiProxy, which starts an       *)
(* online-accounts-ui process, sends it the request over a local socket    *)
(* and turns its answer into the D-Bus reply.  A UI process may register   *)
(* handlers; a sign-on request that names a registered handler bypasses    *)
(* the queues and goes to the proxy of that process.                       *)
(*                                                                         *)
(* runQueue creates one UiProxy per request it serves, so a proxy is named *)
(* by the request it was created for.  Every action is one handler run by  *)
(* the event loop to completion, the slots it triggers included; the UI    *)
(* process (actions UiAnswer, UiRegister, UiExit) and the socket between   *)
(* the two are asynchronous.                                               *)
(***************************************************************************)
EXTENDS Naturals, Sequences, FiniteSets

CONSTANTS
  Request,     \* the D-Bus calls that will be made, each at most once
  Window,      \* the window identifiers that key the queues
  WindowOf,    \* the X-WindowId parameter of a request
  Handler,     \* match identifiers of request handlers in UI processes
  NoHandler,   \* no X-RequestHandler parameter
  HandlerOf,   \* the X-RequestHandler parameter of a request
  SignOn,      \* requests that came through queryDialog: they can be cancelled
  NoProxy,     \* the proxy of a request no proxy has accepted yet
  Faults       \* the failures the environment may produce, see below

ASSUME RequestAssumption ==
  /\ WindowOf \in [Request -> Window]
  /\ HandlerOf \in [Request -> Handler \cup {NoHandler}]
  /\ NoHandler \notin Handler
  /\ NoProxy \notin Request
  /\ SignOn \subseteq Request
  /\ \A r \in Request : HandlerOf[r] # NoHandler => r \in SignOn

(***************************************************************************)
(* "prompt"   no Mir prompt session can be created for the client          *)
(* "start"    the socket or the UI process cannot be set up                *)
(* "early"    the UI process exits before it connects                      *)
(* "exit"     the UI process exits while it has requests to answer         *)
(* "session"  Mir ends the prompt session                                  *)
(* "cancel"   signond calls cancelUiRequest                                *)
(***************************************************************************)
ASSUME FaultAssumption ==
  Faults \subseteq {"prompt", "start", "early", "exit", "session", "cancel"}

VARIABLES
  life,        \* Request -> lifetime of the QObject
  inProgress,  \* the requests whose m_inProgress is set
  replies,     \* Request -> number of D-Bus replies sent
  via,         \* Request -> the proxy whose slot is connected to completed()
  queue,       \* Window -> the RequestQueue of that window
  windows,     \* the keys of RequestManagerPrivate::m_requests
  proxies,     \* RequestManagerPrivate::m_proxies
  dying,       \* the proxies with a deleteLater() pending
  status,      \* proxy -> UiProxyPrivate::m_status
  held,        \* proxy -> the values of UiProxyPrivate::m_requests
  handlers,    \* proxy -> UiProxyPrivate::m_handlers
  timer,       \* the proxies whose m_finishedTimer is active
  exited,      \* the proxies whose UI process is gone
  unplugged,   \* the proxies whose socket has delivered disconnected()
  inbox,       \* proxy -> messages on their way from the UI process, in order
  uiWork,      \* proxy -> requests the UI process knows and has not answered
  created,     \* the handlers created by some UI process
  svc          \* "running", or "crashed" on a failed assertion

requestVars == <<life, inProgress, replies, via>>
queueVars   == <<queue, windows>>
proxyVars   == <<proxies, dying, status, held, timer>>
uiVars      == <<exited, unplugged, inbox, uiWork, created>>
vars == <<requestVars, queueVars, proxyVars, handlers, uiVars, svc>>

Answer   == [code : {"finished", "failed"}, req : Request]
Register == [code : {"registerHandler"}, handler : Handler]
Message  == Answer \cup Register

Life   == {"unborn", "alive", "deleting", "deleted"}
Status == {"None", "Null", "Loading", "Ready", "Error", "Deleted"}

Running == svc = "running"

\* The proxy exists and has been given a request.
Live(p) == status[p] \in {"Loading", "Ready", "Error"}

Init ==
  /\ life = [r \in Request |-> "unborn"]
  /\ inProgress = {}
  /\ replies = [r \in Request |-> 0]
  /\ via = [r \in Request |-> NoProxy]
  /\ queue = [w \in Window |-> <<>>]
  /\ windows = {}
  /\ proxies = {}
  /\ dying = {}
  /\ status = [p \in Request |-> "None"]
  /\ held = [p \in Request |-> {}]
  /\ handlers = [p \in Request |-> {}]
  /\ timer = {}
  /\ exited = {}
  /\ unplugged = {}
  /\ inbox = [p \in Request |-> <<>>]
  /\ uiWork = [p \in Request |-> {}]
  /\ created = {}
  /\ svc = "running"

-----------------------------------------------------------------------------
(***************************************************************************)
(* What the slots and methods do to each group of variables.               *)
(***************************************************************************)

\* Requests whose reply is sent now (done), whose m_inProgress is reset
\* (cleared) and which a new proxy accepts (started).
Reply(done, cleared, started) ==
  /\ replies' = [r \in Request |-> IF r \in done THEN replies[r] + 1
                                                 ELSE replies[r]]
  /\ inProgress' = (inProgress \ cleared) \cup started
  /\ via' = [r \in Request |-> IF r \in started THEN r ELSE via[r]]

\* A mutant of Lifetime: a completed request is not deleted.
LifetimeForEver(born, freed) ==
  life' = [r \in Request |-> IF r \in born THEN "alive" ELSE life[r]]

\* New Request objects, and objects on which deleteLater() is called.
Lifetime(born, freed) ==
  life' = [r \in Request |-> IF r \in freed THEN "deleting"
                             ELSE IF r \in born THEN "alive" ELSE life[r]]

\* A mutant of TimersStarted: the timer is never started.
TimersNeverStarted(done) == {}

\* UiProxyPrivate::onRequestCompleted, connected to the requests the proxy was
\* given: the finished timer starts again.
TimersStarted(done) == {p \in Request : Live(p) /\ \E r \in done : via[r] = p}

\* runQueue adds the new proxy to m_proxies; gone are the proxies destroyed.
ProxyLists(started, gone) ==
  /\ proxies' = proxies \cup started
  /\ dying' = dying \ gone

\* The proxies created for started (with the outcome of startProcess) and for
\* refused (which failed init and stay Null); done leaves the proxy it was in;
\* gone are the proxies destroyed.
Proxies(done, gone, refused, started, outcome) ==
  /\ ProxyLists(started, gone)
  /\ held' = [p \in Request |-> IF p \in started THEN {p} ELSE held[p] \ done]
  /\ timer' = (timer \cup TimersStarted(done \cup refused)) \ gone
  /\ status' = [p \in Request |-> IF p \in started THEN outcome
                                  ELSE IF p \in refused THEN "Null"
                                  ELSE IF p \in gone THEN "Deleted"
                                  ELSE status[p]]

\* A mutant of SetQueue: the entry never goes.
SetQueueKeepingEntry(w, q) ==
  /\ queue' = [queue EXCEPT ![w] = q]
  /\ windows' = windows \cup {w}

\* m_requests after the queue of window w became q: queueForWindowId creates
\* the entry, onRequestCompleted removes it when it is empty.
SetQueue(w, q) ==
  /\ queue' = [queue EXCEPT ![w] = q]
  /\ windows' = IF q = <<>> THEN windows \ {w} ELSE windows \cup {w}

\* How many requests at the head of q fail UiProxy::init in a row.
InitFailures(q) == IF "prompt" \in Faults THEN 0 .. Len(q) ELSE {0}

\* The status startProcess leaves the new proxy in.
StartOutcome == {"Loading"} \cup (IF "start" \in Faults THEN {"Error"} ELSE {})

\* Mutants of MustServe: isInProgress is not looked at; the request behind the
\* first one is never started.
MustServeAnyHead(q, busy) == q # <<>>
ServeOnlyWhenAlone(q, busy) == q # <<>> /\ Head(q) \notin busy /\ life[Head(q)] = "unborn"

\* Is there something to do for runQueue?
MustServe(q, busy) == q # <<>> /\ Head(q) \notin busy

\* RequestManagerPrivate::runQueue on the queue of w, which is now q; the
\* other parameters are what the caller did before it.  A request whose proxy
\* fails init is failed at once: its completed() signal re-enters
\* onRequestCompleted, which dequeues it and calls runQueue for the next.
RunQueue(w, q, born, done, cleared, gone) ==
  IF MustServe(q, inProgress \ cleared)
  THEN \E k \in InitFailures(q), outcome \in StartOutcome :
         LET refused == {q[i] : i \in 1 .. k}
             rest    == SubSeq(q, k + 1, Len(q))
             started == IF rest = <<>> THEN {} ELSE {Head(rest)}
         IN /\ SetQueue(w, rest)
            /\ Lifetime(born, done \cup refused)
            /\ Reply(done \cup refused, cleared, started)
            /\ Proxies(done, gone, refused, started, outcome)
  ELSE /\ SetQueue(w, q)
       /\ Lifetime(born, done)
       /\ Reply(done, cleared, {})
       /\ Proxies(done, gone, {}, {}, "None")

\* What the slots of completed() do when every request in done emits it: the
\* request a queue is serving is dequeued and the queue runs on, a request
\* served through a handler is only deleted.  A completed request that is not
\* the head of its queue is reported and left alone; when the queue is empty
\* (queueForWindowId has just created it) queue.head() is undefined: the
\* comparison reads garbage or the program stops.
IsQueued(r) == via[r] = r

IsHead(r) == LET q == queue[WindowOf[r]] IN q # <<>> /\ Head(q) = r

CompletedElsewhere(done, cleared, gone) ==
  /\ \A r \in done : ~IsQueued(r)
  /\ Lifetime({}, done)
  /\ Reply(done, cleared, {})
  /\ Proxies(done, gone, {}, {}, "None")
  /\ UNCHANGED <<queueVars, svc>>

\* onRequestCompleted for r, the head of its queue.
CompletedHead(r, done, cleared, gone) ==
  LET w == WindowOf[r]
  IN /\ IsQueued(r)
     /\ IsHead(r)
     /\ RunQueue(w, Tail(queue[w]), {}, done, cleared, gone)
     /\ UNCHANGED svc

CompletedNotFirst(r, done, cleared, gone) ==
  LET w == WindowOf[r]
  IN /\ IsQueued(r)
     /\ ~IsHead(r)
     /\ windows' = windows \cup {w}
     /\ svc' \in {"running"} \cup (IF queue[w] = <<>> THEN {"crashed"} ELSE {})
     /\ Lifetime({}, done \ {r})
     /\ Reply(done, cleared, {})
     /\ Proxies(done, gone, {}, {}, "None")
     /\ UNCHANGED queue

Completed(done, cleared, gone) ==
  \/ CompletedElsewhere(done, cleared, gone)
  \/ \E r \in done : \/ CompletedHead(r, done, cleared, gone)
                     \/ CompletedNotFirst(r, done, cleared, gone)

\* onProxyFinished: the proxy leaves the list and is deleted later.
Finished(p) ==
  /\ proxies' = proxies \ {p}
  /\ dying' = dying \cup {p}

-----------------------------------------------------------------------------
(***************************************************************************)
(* D-Bus calls.                                                            *)
(***************************************************************************)

\* The proxies in the list whose UI process registered the handler r names.
ProxiesWithHandlerFor(r) == {p \in proxies : HandlerOf[r] \in handlers[p]}

\* A request can only name a handler that some UI process has created.
MayArrive(r) ==
  /\ life[r] = "unborn"
  /\ HandlerOf[r] \in created \cup {NoHandler}

\* enqueue(), first half: UiProxy::handleRequest of the proxy that has the
\* handler.  The UI process gets the request if it is still there.
HandOver(r, p) ==
  /\ Running
  /\ MayArrive(r)
  /\ p \in ProxiesWithHandlerFor(r)
  /\ Lifetime({r}, {})
  /\ inProgress' = inProgress \cup {r}
  /\ via' = [via EXCEPT ![r] = p]
  /\ held' = [held EXCEPT ![p] = @ \cup {r}]
  /\ uiWork' = IF status[p] = "Ready" /\ p \notin exited
               THEN [uiWork EXCEPT ![p] = @ \cup {r}]
               ELSE uiWork
  /\ UNCHANGED <<replies, queueVars, proxies, dying, status, timer, handlers,
                 exited, unplugged, inbox, created, svc>>

\* enqueue(), second half: no proxy has the handler.
Enqueue(r) ==
  /\ Running
  /\ MayArrive(r)
  /\ ProxiesWithHandlerFor(r) = {}
  /\ RunQueue(WindowOf[r], Append(queue[WindowOf[r]], r), {r}, {}, {}, {})
  /\ UNCHANGED <<handlers, uiVars, svc>>

\* Service::cancelUiRequest: Request::find looks through every Request object
\* that still exists, the ones waiting for their deleteLater() included;
\* setCanceled does nothing unless m_inProgress is set.
MayCancel(r) == life[r] \in {"alive", "deleting"} /\ r \in inProgress

CancelUiRequest(r) ==
  /\ Running
  /\ "cancel" \in Faults
  /\ r \in SignOn
  /\ MayCancel(r)
  /\ Completed({r}, {r}, {})
  /\ UNCHANGED <<handlers, uiVars>>

-----------------------------------------------------------------------------
(***************************************************************************)
(* Socket, timer and prompt session events of a proxy.                     *)
(***************************************************************************)

\* A mutant of PendingRequests: the backlog is not sent.
NoPendingRequests(p) == {}

\* The requests that were accepted before the UI process connected.
PendingRequests(p) == held[p]

OnNewConnection(p) ==
  /\ Running
  /\ status[p] = "Loading"
  /\ p \notin exited
  /\ status' = [status EXCEPT ![p] = "Ready"]
  /\ uiWork' = [uiWork EXCEPT ![p] = PendingRequests(p)]
  /\ UNCHANGED <<requestVars, queueVars, proxies, dying, held, timer, handlers,
                 exited, unplugged, inbox, created, svc>>

\* The answer to a request the proxy still has: setResult resets m_inProgress
\* after completed(), fail does not touch it.
ClearedBy(m) == IF m.code = "finished" THEN {m.req} ELSE {}

OnAnswer(p, m) ==
  /\ m.req \in held[p]
  /\ IF m.code = "finished" /\ m.req \notin inProgress
     THEN UNCHANGED <<requestVars, queueVars, proxyVars, svc>>
     ELSE Completed({m.req}, ClearedBy(m), {})
  /\ UNCHANGED handlers

\* Q_ASSERT(request) fails: the proxy no longer has the request.
OnStaleAnswer(p, m) ==
  /\ m.req \notin held[p]
  /\ svc' = "crashed"
  /\ UNCHANGED <<requestVars, queueVars, proxyVars, handlers>>

OnRegisterHandler(p, m) ==
  /\ handlers' = [handlers EXCEPT ![p] = @ \cup {m.handler}]
  /\ UNCHANGED <<requestVars, queueVars, proxyVars, svc>>

OnDataReady(p) ==
  /\ Running
  /\ status[p] = "Ready"
  /\ inbox[p] # <<>>
  /\ LET m == Head(inbox[p])
     IN IF m.code = "registerHandler"
        THEN OnRegisterHandler(p, m)
        ELSE OnAnswer(p, m) \/ OnStaleAnswer(p, m)
  /\ inbox' = [inbox EXCEPT ![p] = Tail(@)]
  /\ UNCHANGED <<exited, unplugged, uiWork, created>>

\* disconnected() is ignored while the finished timer is active: the timer
\* is expected to report the end of the proxy.
OnDisconnected(p) ==
  /\ Running
  /\ status[p] = "Ready"
  /\ p \in exited \ unplugged
  /\ inbox[p] = <<>>
  /\ unplugged' = unplugged \cup {p}
  /\ IF p \in timer THEN UNCHANGED <<proxies, dying>> ELSE Finished(p)
  /\ UNCHANGED <<requestVars, queueVars, status, held, timer, handlers, exited,
                 inbox, uiWork, created, svc>>

\* The proxy may end when no request is left in it.
CanFinish(p) == held[p] = {}

OnFinishedTimer(p) ==
  /\ Running
  /\ p \in timer
  /\ timer' = timer \ {p}
  /\ IF CanFinish(p) THEN Finished(p) ELSE UNCHANGED <<proxies, dying>>
  /\ UNCHANGED <<requestVars, queueVars, status, held, handlers, uiVars, svc>>

\* The prompt session's finished() is connected to the proxy's own.
OnPromptSessionFinished(p) ==
  /\ Running
  /\ "session" \in Faults
  /\ p \in proxies
  /\ Finished(p)
  /\ UNCHANGED <<requestVars, queueVars, status, held, timer, handlers, uiVars,
                 svc>>

-----------------------------------------------------------------------------
(***************************************************************************)
(* Deferred deletes.                                                       *)
(***************************************************************************)

\* A mutant of CancelledBy: nothing is cancelled.
NoneCancelledBy(p) == {}

\* ~UiProxyPrivate cancels what it holds; ~QProcess kills the UI process.
CancelledBy(p) == held[p] \cap inProgress

DeleteProxy(p) ==
  /\ Running
  /\ p \in dying
  /\ Completed(CancelledBy(p), CancelledBy(p), {p})
  /\ exited' = exited \cup {p}
  /\ uiWork' = [uiWork EXCEPT ![p] = {}]
  /\ inbox' = [inbox EXCEPT ![p] = <<>>]
  /\ handlers' = [handlers EXCEPT ![p] = {}]
  /\ UNCHANGED <<unplugged, created>>

\* ~Request takes the object out of allRequests.
DeleteRequest(r) ==
  /\ Running
  /\ life[r] = "deleting"
  /\ life' = [life EXCEPT ![r] = "deleted"]
  /\ inProgress' = inProgress \ {r}
  /\ UNCHANGED <<replies, via, queueVars, proxyVars, handlers, uiVars, svc>>

-----------------------------------------------------------------------------
(***************************************************************************)
(* The online-accounts-ui process of a proxy, as UiServer behaves: each    *)
(* request is answered once, handlers are announced when they are created  *)
(* by the plugin of an account request.                                    *)
(***************************************************************************)

Send(p, m) == inbox' = [inbox EXCEPT ![p] = Append(@, m)]

\* UiServer::onRequestCompleted disconnects from the request it answers.
Unanswered(p, r) == uiWork[p] \ {r}

UiAnswer(p, r, code) ==
  /\ Running
  /\ r \in uiWork[p]
  /\ p \notin exited
  /\ Send(p, [code |-> code, req |-> r])
  /\ uiWork' = [uiWork EXCEPT ![p] = Unanswered(p, r)]
  /\ UNCHANGED <<requestVars, queueVars, proxyVars, handlers, exited,
                 unplugged, created, svc>>

UiRegister(p, h) ==
  /\ Running
  /\ uiWork[p] \ SignOn # {}
  /\ p \notin exited
  /\ h \notin created
  /\ Send(p, [code |-> "registerHandler", handler |-> h])
  /\ created' = created \cup {h}
  /\ UNCHANGED <<requestVars, queueVars, proxyVars, handlers, exited,
                 unplugged, uiWork, svc>>

UiExit(p) ==
  /\ Running
  /\ p \notin exited
  /\ \/ status[p] = "Loading" /\ "early" \in Faults
     \/ status[p] = "Ready" /\ ("exit" \in Faults \/ uiWork[p] = {})
  /\ exited' = exited \cup {p}
  /\ uiWork' = [uiWork EXCEPT ![p] = {}]
  /\ UNCHANGED <<requestVars, queueVars, proxyVars, handlers, unplugged, inbox,
                 created, svc>>

-----------------------------------------------------------------------------
RequestStep(r) ==
  \/ Enqueue(r)
  \/ \E p \in proxies : HandOver(r, p)
  \/ CancelUiRequest(r)
  \/ DeleteRequest(r)

ProxyStep(p) ==
  \/ OnNewConnection(p)
  \/ OnDataReady(p)
  \/ OnDisconnected(p)
  \/ OnFinishedTimer(p)
  \/ OnPromptSessionFinished(p)
  \/ DeleteProxy(p)

UiStep(p) ==
  \/ \E r \in uiWork[p], code \in {"finished", "failed"} : UiAnswer(p, r, code)
  \/ \E h \in Handler : UiRegister(p, h)
  \/ UiExit(p)

Next == \E r \in Request : RequestStep(r) \/ ProxyStep(r) \/ UiStep(r)

Spec == Init /\ [][Next]_vars

(***************************************************************************)
(* The event loop runs every event that is pending; a UI process that was  *)
(* started connects unless it exits ("early"), and its user eventually     *)
(* answers a request or leaves.  Nothing forces new calls, cancellations,  *)
(* prompt sessions to end or handlers to be created.                       *)
(***************************************************************************)
UiProgress(p) ==
  /\ uiWork[p] # {}
  /\ \/ \E r \in uiWork[p], code \in {"finished", "failed"} : UiAnswer(p, r, code)
     \/ UiExit(p)

Fairness ==
  /\ \A p \in Request :
       /\ WF_vars(OnNewConnection(p))
       /\ WF_vars(OnDataReady(p))
       /\ WF_vars(OnDisconnected(p))
       /\ WF_vars(OnFinishedTimer(p))
       /\ WF_vars(DeleteProxy(p))
       /\ WF_vars(UiProgress(p))
  /\ \A r \in Request : WF_vars(DeleteRequest(r))

FairSpec == Spec /\ Fairness

-----------------------------------------------------------------------------
\* The types of the state of the broker: every queue holds requests of the
\* model, every UiProxy status is one of ui-proxy.h, and the messages on a
\* socket are those UiServer sends.
TypeOK ==
  /\ life \in [Request -> Life]
  /\ inProgress \subseteq Request
  /\ replies \in [Request -> Nat]
  /\ via \in [Request -> Request \cup {NoProxy}]
  /\ queue \in [Window -> Seq(Request)]
  /\ windows \subseteq Window
  /\ proxies \subseteq Request
  /\ dying \subseteq Request
  /\ status \in [Request -> Status]
  /\ held \in [Request -> SUBSET Request]
  /\ handlers \in [Request -> SUBSET Handler]
  /\ timer \subseteq Request
  /\ exited \subseteq Request
  /\ unplugged \subseteq Request
  /\ inbox \in [Request -> Seq(Message)]
  /\ uiWork \in [Request -> SUBSET Request]
  /\ created \subseteq Handler
  /\ svc \in {"running", "crashed"}

\* runQueue starts a request exactly when it becomes the head of its window:
\* the head is in progress and held by a live proxy created for it, and no
\* request behind it has been started, answered or given to a proxy.
HeadIsServed ==
  \A w \in Window : \A i \in 1 .. Len(queue[w]) :
    LET r == queue[w][i]
    IN IF i = 1
       THEN r \in inProgress /\ r \in held[r] /\ via[r] = r /\ Live(r)
       ELSE r \notin inProgress /\ via[r] = NoProxy

\* A request that has not been answered is always in somebody's care: in the
\* queue of its window, or in the one live proxy whose slot it is connected to.
\* (Completing, deleting or cancelling one never drops another.)
NoOrphan ==
  \A r \in Request : life[r] = "alive" =>
    /\ replies[r] = 0
    /\ \/ \E i \in 1 .. Len(queue[WindowOf[r]]) : queue[WindowOf[r]][i] = r
       \/ via[r] \in Request /\ r \in held[via[r]]
    /\ via[r] \in Request => Live(via[r]) /\ r \in inProgress

\* A requestAccess call gets exactly one D-Bus reply by the time its Request
\* object goes away, whatever fails on the way (a reply from fail(), from
\* setResult(), from the destructor of its proxy or from a failed init).
AccountRequestAnsweredOnce ==
  \A r \in Request \ SignOn :
    replies[r] = IF life[r] \in {"deleting", "deleted"} THEN 1 ELSE 0

\* isIdle() cannot let the daemon exit with a request waiting in a queue:
\* every queue that is not empty has its entry in m_requests.
QueuedMeansNotIdle == \A w \in Window : queue[w] # <<>> => w \in windows

\* A connected UI process knows every request its proxy holds, or has already
\* sent the answer: no request is lost between handleRequest, which sends only
\* when the status is Ready, and onNewConnection, which sends the backlog.
UiKnowsHeldRequests ==
  \A p \in Request : status[p] = "Ready" /\ p \notin exited =>
    \A r \in held[p] :
      \/ r \in uiWork[p]
      \/ \E i \in 1 .. Len(inbox[p]) :
           inbox[p][i].code # "registerHandler" /\ inbox[p][i].req = r

\* Every request that was accepted is eventually answered.
EveryRequestAnswered ==
  \A r \in Request : life[r] = "alive" ~> replies[r] > 0

\* Every UI proxy is eventually destroyed, and the manager becomes idle again.
ProxiesReclaimed ==
  \A p \in Request : Live(p) ~> status[p] = "Deleted"

IdleAgain == windows # {} ~> windows = {}

\* ui-proxy.cpp asserts that every answer is to a request the proxy has.
NeverCrashes == svc = "running"

\* request-manager.cpp reports as critical a completed request that is not
\* the first in its queue.
CompletedIsFirst ==
  [][\A r \in Request : replies'[r] > replies[r] /\ IsQueued(r) => IsHead(r)]_vars

=============================================================================
