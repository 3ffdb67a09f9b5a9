----------------------------- MODULE UiRequests -----------------------------
(***************************************************************************)
(* The sign-on requests inside one online-accounts-ui process: UiServer    *)
(* (ui-server.cpp) creates one for every PROCESS message of the daemon and *)
(* answers with its outcome; Request (request.cpp, signonui-request.cpp)   *)
(* keeps the outcome; DialogRequest asks for a user name and password,     *)
(* BrowserRequest shows a web page, and ExternalBrowserRequest waits for   *)
(* the system browser.  A request whose parameters carry the match ID of a *)
(* RequestHandler (request-handler.cpp) is shown by the plugin that owns   *)
(* the handler, any other one by a Dialog of its own.                      *)
(*                                                                         *)
(* Slots call each other within one event: setResult() emits completed(),  *)
(* closing a visible Dialog emits finished(), which calls onFinished().    *)
(* These chains are state transformers on the record of a request.         *)
(***************************************************************************)
EXTENDS Naturals, Sequences

CONSTANTS
  Request,     \* the requests the daemon will send, each once
  HasOpenUrl, FinalIsLocal, \* those with an URL to open, whose final URL is
               \* on localhost
  Handler,     \* RequestHandler objects of the plugins
  MatchOf,     \* request -> the handler whose match ID it carries, or NoHandler
  NoHandler, NoRequest,
  Custom,      \* handlers with a web view of their own, which may take its
               \* time to pass on the cookies
  InSession    \* is MIR_SOCKET set: are we in a prompt session?

ASSUME UiAssumption ==
  /\ HasOpenUrl \subseteq Request /\ FinalIsLocal \subseteq Request
  /\ MatchOf \in [Request -> Handler \union {NoHandler}]
  /\ NoHandler \notin Handler /\ NoRequest \notin Request
  /\ Custom \subseteq Handler /\ InSession \in BOOLEAN

VARIABLES
  req,     \* request -> its object, see RequestRecord
  slot,    \* handler -> m_request
  handlers \* the handlers that exist

vars == <<req, slot, handlers>>

Outcome == {"url", "partial", "typed", "canceled", "network", "forbidden"}

\* A Request, its private object, and the web view that shows its page.
RequestRecord ==
  [life : {"none", "live", "completed", "deleted"},  \* completed: deleteLater
   inProgress : BOOLEAN,                      \* m_inProgress
   sent : Seq(Outcome),                       \* messages sent to the daemon
   dialog : {"none", "hidden", "visible", "closed"}, \* m_dialog
   connected : BOOLEAN,                       \* finished(int) -> onFinished()
   handler : Handler \union {NoHandler},      \* m_handler
   timer : BOOLEAN,                           \* m_failTimer is active
   final : BOOLEAN,                           \* m_responseUrl is set
   cookies : BOOLEAN,                         \* setCookies() is to be called
   page : {"blank", "loading", "loaded", "failed"}, \* in the web view
   event : {"none", "cancel", "timeout", "late"}] \* what ended it, for the
                                              \* properties; late: after the final URL

NewRequest == [life |-> "none", inProgress |-> FALSE, sent |-> <<>>, dialog |-> "none",
               connected |-> FALSE, handler |-> NoHandler, timer |-> FALSE, final |-> FALSE,
               cookies |-> FALSE, page |-> "blank", event |-> "none"]

\* The class newRequest() picks from the parameters.
Kind == [r \in Request |-> IF r \notin HasOpenUrl THEN "dialog"
                          ELSE IF r \in FinalIsLocal THEN "external" ELSE "browser"]

Init ==
  /\ req = [r \in Request |-> NewRequest]
  /\ slot = [h \in Handler |-> NoRequest]
  /\ handlers = {}

-----------------------------------------------------------------------------
(***************************************************************************)
(* Slots, as transformers of the record s of a request.                    *)
(***************************************************************************)
\* UiServerPrivate::onRequestCompleted: disconnect, send, deleteLater.
Completed(s, outcome) ==
  IF s.life = "live" THEN [s EXCEPT !.sent = Append(@, outcome), !.life = "completed"] ELSE s

SetResult(s, outcome) ==
  IF s.inProgress THEN [Completed(s, outcome) EXCEPT !.inProgress = FALSE] ELSE s

\* The reply onFinished() makes up, whoever calls it.
Reply(k, s) == CASE k = "dialog" -> "typed"
                 [] s.final -> "url"
                 [] OTHER -> "partial"

\* A mutant of CloseDialog: the view is gone and nobody hears of it.
CloseSilently(k, s) == [s EXCEPT !.dialog = IF @ = "visible" THEN "closed" ELSE @, !.connected = FALSE]

\* closeView() without a handler: a visible Dialog gets a Close event, rejects
\* and emits finished(int); a Dialog that was never shown does nothing.
CloseDialog(k, s) ==
  LET closed == [s EXCEPT !.dialog = "closed", !.connected = FALSE]
  IN  IF s.dialog # "visible" THEN s
      ELSE IF s.connected THEN SetResult(closed, Reply(k, s)) ELSE closed

OnFinished(k, s) == SetResult(CloseDialog(k, [s EXCEPT !.connected = FALSE]), Reply(k, s))

\* A mutant of CancelRequest: the view is closed first.
CloseThenCancel(k, s) == SetResult(CloseDialog(k, s), "canceled")

CancelRequest(k, s) == CloseDialog(k, SetResult(s, "canceled"))

FailRequest(k, s) == SetResult(CloseDialog(k, s), "network")

\* SignOnUi::Request::setWindow.
SetWindow(s) ==
  IF InSession THEN [s EXCEPT !.dialog = "visible"] ELSE SetResult(s, "forbidden")

\* A mutant of CloseHandler: the handler keeps its request.
LeaveHandler(s) == UNCHANGED slot

\* closeView() with a handler takes whatever request it has away from it.
CloseHandler(s) == slot' = [h \in Handler |-> IF h = s.handler THEN NoRequest ELSE slot[h]]

Kept == UNCHANGED <<slot, handlers>>
Set(r, s) == req' = [req EXCEPT ![r] = s]
IsLive(r) == req[r].life \in {"live", "completed"}

-----------------------------------------------------------------------------
(***************************************************************************)
(* The server and the handlers.                                            *)
(***************************************************************************)
\* The constructor of RequestHandler also registers it with the daemon.
NewHandler(h) ==
  /\ h \notin handlers
  /\ handlers' = handlers \union {h}
  /\ UNCHANGED <<req, slot>>

\* Requests hold it by a QPointer.
DestroyHandler(h) ==
  /\ h \in handlers
  /\ handlers' = handlers \ {h}
  /\ slot' = [slot EXCEPT ![h] = NoRequest]
  /\ req' = [r \in Request |-> IF req[r].handler = h THEN [req[r] EXCEPT !.handler = NoHandler]
                                                     ELSE req[r]]

FindMatching(r) == IF MatchOf[r] \in handlers THEN MatchOf[r] ELSE NoHandler

\* Without a handler: a Dialog, which DialogRequest shows at once.
WithDialog(s) == [s EXCEPT !.dialog = "hidden", !.connected = TRUE]
StartDialog(s) == IF s.handler # NoHandler THEN s ELSE SetWindow(WithDialog(s))
StartBrowser(s) == IF s.handler # NoHandler THEN s ELSE WithDialog(s)

\* RequestHandler::setRequest on a handler that has a request does nothing.
SetRequest(h, r) ==
  IF h # NoHandler /\ slot[h] = NoRequest THEN slot' = [slot EXCEPT ![h] = r]
                                          ELSE UNCHANGED slot

\* A PROCESS message: the request is created and started.
OnDataReady(r) ==
  LET h == FindMatching(r)
      started == [NewRequest EXCEPT !.life = "live", !.inProgress = TRUE, !.handler = h]
  IN  /\ req[r].life = "none"
      /\ Set(r, IF Kind[r] = "dialog" THEN StartDialog(started) ELSE StartBrowser(started))
      /\ SetRequest(h, r)
      /\ UNCHANGED handlers

\* deleteLater(): the destructors close the view, the request is gone.
DeleteRequest(r) ==
  /\ req[r].life = "completed"
  /\ Set(r, [req[r] EXCEPT !.life = "deleted", !.dialog = "none", !.timer = FALSE,
                           !.cookies = FALSE, !.handler = NoHandler])
  /\ slot' = [h \in Handler |-> IF h = req[r].handler \/ slot[h] = r THEN NoRequest ELSE slot[h]]
  /\ UNCHANGED handlers

-----------------------------------------------------------------------------
(***************************************************************************)
(* The user, through the Dialog or through the plugin.                     *)
(***************************************************************************)
IsShown(r) == req[r].dialog = "visible" \/ \E h \in handlers : slot[h] = r

\* The window is closed: QQuickView gets a Close event.
CloseWindow(r) ==
  /\ IsLive(r) /\ req[r].dialog = "visible"
  /\ Set(r, CloseDialog(Kind[r], req[r])) /\ Kept

Cancel(r) ==
  /\ IsLive(r) /\ IsShown(r)
  /\ Set(r, [CancelRequest(Kind[r], req[r]) EXCEPT
               !.event = IF req[r].inProgress THEN "cancel" ELSE @])
  /\ CloseHandler(req[r]) /\ UNCHANGED handlers

\* The user accepts a dialog, or the system browser visits the final URL.
Accept(r) ==
  /\ IsLive(r) /\ IsShown(r) /\ Kind[r] \in {"dialog", "external"}
  /\ Set(r, OnFinished(Kind[r], [req[r] EXCEPT !.final = Kind[r] = "external"]))
  /\ CloseHandler(req[r]) /\ UNCHANGED handlers

-----------------------------------------------------------------------------
(***************************************************************************)
(* BrowserRequest, and the web view that drives it (WebView.qml).          *)
(***************************************************************************)
HasPage(r) == IsLive(r) /\ Kind[r] = "browser" /\ (req[r].dialog # "none" \/ IsShown(r))

\* WebView passes on the start of a load, but not of that of an error page.
LoadStarted(r) ==
  /\ HasPage(r)
  /\ Set(r, [req[r] EXCEPT !.timer = FALSE, !.page = "loading"]) /\ Kept

\* A mutant of LoadFailed: the timer is left alone.
LoadFailedQuietly(r) ==
  /\ HasPage(r) /\ req[r].page = "loading"
  /\ Set(r, [req[r] EXCEPT !.page = "failed"]) /\ Kept

LoadFailed(r) ==
  /\ HasPage(r) /\ req[r].page = "loading"
  /\ Set(r, [req[r] EXCEPT !.timer = TRUE, !.page = "failed"]) /\ Kept

\* The Dialog is shown once a page that is not the final one has loaded.
LoadSucceeded(r) ==
  LET s == [req[r] EXCEPT !.page = "loaded"]
  IN  /\ HasPage(r) /\ req[r].page = "loading"
      /\ Set(r, IF s.dialog = "hidden" /\ ~s.final THEN SetWindow(s) ELSE s)
      /\ Kept

SetCookies(r, s) == Set(r, [OnFinished("browser", s) EXCEPT !.cookies = FALSE]) /\ CloseHandler(s)

\* setCurrentUrl with the final URL: authenticated() is emitted and the web
\* view answers with the cookies; a hidden Dialog is accepted at once.
FinalUrl(r) ==
  LET s == [req[r] EXCEPT !.final = TRUE]
  IN  /\ HasPage(r)
      /\ \/ s.dialog = "hidden" /\ s.connected /\ Set(r, OnFinished("browser", s)) /\ CloseHandler(s)
         \/ ~(s.dialog = "hidden" /\ s.connected) /\ SetCookies(r, s)
         \/ s.handler \in Custom /\ Set(r, [s EXCEPT !.cookies = TRUE]) /\ UNCHANGED slot
      /\ UNCHANGED handlers

CookiesReady(r) ==
  /\ IsLive(r) /\ req[r].cookies
  /\ SetCookies(r, req[r]) /\ UNCHANGED handlers

\* The timer is started again by every URL while it runs, which is no change.
OnFailTimer(r) ==
  /\ IsLive(r) /\ req[r].timer
  /\ Set(r, [FailRequest("browser", [req[r] EXCEPT !.timer = FALSE]) EXCEPT
               !.event = IF ~req[r].inProgress THEN @ ELSE IF req[r].final THEN "late" ELSE "timeout"])
  /\ CloseHandler(req[r]) /\ UNCHANGED handlers

BrowserStep(r) ==
  LoadStarted(r) \/ LoadFailed(r) \/ LoadSucceeded(r) \/ FinalUrl(r) \/ CookiesReady(r) \/ OnFailTimer(r)

Next ==
  \/ \E h \in Handler : NewHandler(h) \/ DestroyHandler(h)
  \/ \E r \in Request : \/ OnDataReady(r) \/ DeleteRequest(r)
                        \/ CloseWindow(r) \/ Cancel(r) \/ Accept(r)
                        \/ BrowserStep(r)

Spec == Init /\ [][Next]_vars

\* deleteLater() is run by the event loop, and a single shot timer that is
\* active fires.
Fairness == \A r \in Request : WF_vars(DeleteRequest(r)) /\ WF_vars(OnFailTimer(r))

FairSpec == Spec /\ Fairness

-----------------------------------------------------------------------------
(***************************************************************************)
(* Properties.                                                             *)
(***************************************************************************)

\* Type invariant; only a request that is live has a page, a handler or a
\* timer.
TypeOK ==
  /\ req \in [Request -> RequestRecord]
  /\ \A r \in Request : ~IsLive(r) => ~req[r].timer /\ ~req[r].cookies /\ req[r].handler = NoHandler
  /\ slot \in [Handler -> Request \union {NoRequest}]
  /\ handlers \subseteq Handler

\* The daemon gets exactly one answer to a request whose window has closed or
\* that is completed, and none before, whatever the user, the page and the
\* timer do afterwards.
AnsweredOnce ==
  \A r \in Request :
    Len(req[r].sent) =
      IF req[r].dialog = "closed" \/ req[r].life \in {"completed", "deleted"} THEN 1 ELSE 0

\* A handler never keeps a request that has been answered: it could not take
\* the next one.
HandlerFreed ==
  \A h \in Handler : slot[h] # NoRequest => req[slot[h]].inProgress /\ req[slot[h]].handler = h

\* Cancelling is never taken for an answer of the user: closing the window is
\* part of it, and would deliver what has been typed so far.
CancelIsCanceled == \A r \in Request : req[r].event = "cancel" => req[r].sent = <<"canceled">>

\* A final URL that was reached is the answer, even if the timer fires.
FinalUrlNotLost == \A r \in Request : req[r].event = "late" => req[r].sent = <<"url">>

\* A request that ends because its page cannot be loaded reports the error.
NetworkErrorReported == \A r \in Request : req[r].event = "timeout" => req[r].sent = <<"network">>

\* A page that cannot be loaded is not waited for: the request is answered,
\* unless the page is loaded again, however the timer, the URL changes and the
\* end of the plugin that shows it follow each other.
FailedLoadEnds ==
  \A r \in Request :
    (req[r].inProgress /\ req[r].page = "failed") ~> (~req[r].inProgress \/ req[r].page # "failed")

=============================================================================
