-------------------------- MODULE UiRequestsProofs --------------------------
(***************************************************************************)
(* Machine-checked proofs about UiRequests, for every set of requests and  *)
(* handlers and whatever is asked of them: each request is answered once,  *)
(* a handler keeps no request that is answered, and cancelling is never    *)
(* taken for an answer.                                                    *)
(***************************************************************************)
EXTENDS UiRequests, SequenceTheorems, TLAPS

(***************************************************************************)
(* The inductive invariant of one request, part by part.                   *)
(***************************************************************************)
\* m_inProgress holds from the creation to the answer, and there is exactly
\* one answer afterwards.
AnswerOK(s) ==
  /\ s.inProgress <=> s.life = "live"
  /\ s.life \in {"none", "live"} => s.sent = <<>>
  /\ s.life \in {"completed", "deleted"} => Len(s.sent) = 1

\* A Dialog that may still close by itself reports it, one that has closed
\* has done so; a request that its handler shows has none.
DialogOK(s) ==
  /\ s.inProgress /\ s.dialog # "none" => s.connected
  /\ s.dialog = "closed" => s.life = "completed"
  /\ s.life = "none" => s.dialog = "none"
  /\ s.handler # NoHandler => s.dialog = "none"

\* What only a live request has.
LiveOK(s) == s.life \in {"none", "deleted"} => ~s.timer /\ ~s.cookies /\ s.handler = NoHandler

\* What ended the request, if the user has cancelled it.
EventOK(s) ==
  /\ s.inProgress \/ s.life = "none" => s.event = "none"
  /\ s.event = "cancel" => s.sent = <<"canceled">>

RequestOK(s) == s \in RequestRecord /\ AnswerOK(s) /\ DialogOK(s) /\ LiveOK(s) /\ EventOK(s)

IInv ==
  /\ req \in [Request -> RequestRecord] /\ \A r \in Request : RequestOK(req[r])
  /\ slot \in [Handler -> Request \union {NoRequest}] /\ handlers \subseteq Handler
  /\ HandlerFreed

-----------------------------------------------------------------------------
(***************************************************************************)
(* What the slots make of a request.                                       *)
(***************************************************************************)
\* Fields that no slot of a request changes.
SameRest(s, t) ==
  /\ t.handler = s.handler /\ t.timer = s.timer /\ t.final = s.final
  /\ t.cookies = s.cookies /\ t.page = s.page /\ t.event = s.event

\* t is what SetResult makes of s.
Answered(s, t, o) ==
  /\ t \in RequestRecord
  /\ t.inProgress = FALSE
  /\ s.inProgress => t.life = "completed" /\ t.sent = Append(s.sent, o)
  /\ ~s.inProgress => t.life = s.life /\ t.sent = s.sent
  /\ t.dialog = s.dialog /\ t.connected = s.connected /\ SameRest(s, t)

LEMMA SetResultAnswers ==
  ASSUME NEW s \in RequestRecord, AnswerOK(s), NEW o \in Outcome
  PROVE  Answered(s, SetResult(s, o), o)
<1> DEFINE c == [s EXCEPT !.sent = Append(@, o), !.life = "completed"]
           d == [c EXCEPT !.inProgress = FALSE]
<1>1. CASE ~s.inProgress
  BY <1>1 DEF SetResult, Answered, SameRest, RequestRecord
<1>2. CASE s.inProgress
  <2>1. SetResult(s, o) = d
    BY <1>2 DEF SetResult, Completed, AnswerOK
  <2>2. Append(s.sent, o) \in Seq(Outcome)
    BY DEF RequestRecord
  <2>3. c \in RequestRecord
    BY <2>2 DEF RequestRecord
  <2>4. /\ c.sent = Append(s.sent, o) /\ c.life = "completed" /\ c.dialog = s.dialog
        /\ c.connected = s.connected /\ SameRest(s, c)
    BY DEF RequestRecord, SameRest
  <2> HIDE DEF c
  <2>5. d \in RequestRecord /\ d.inProgress = FALSE
    BY <2>3 DEF RequestRecord
  <2>6. /\ d.sent = c.sent /\ d.life = c.life /\ d.dialog = c.dialog
        /\ d.connected = c.connected /\ SameRest(c, d)
    BY <2>3 DEF RequestRecord, SameRest
  <2> HIDE DEF d
  <2> QED
    BY <1>2, <2>1, <2>4, <2>5, <2>6 DEF Answered, SameRest
<1> QED
  BY <1>1, <1>2

\* t is what becomes of s by slots that end it, if it had not ended before: at
\* most a visible Dialog is closed, and there is one answer.
Over(s, t) ==
  /\ t \in RequestRecord
  /\ t.inProgress = FALSE
  /\ s.inProgress => t.life = "completed" /\ \E o \in Outcome : t.sent = Append(s.sent, o)
  /\ ~s.inProgress => t.life = s.life /\ t.sent = s.sent
  /\ t.dialog = s.dialog \/ (s.dialog = "visible" /\ t.dialog = "closed")
  /\ SameRest(s, t)

LEMMA AnsweredIsOver ==
  ASSUME NEW s, NEW t, NEW o \in Outcome, Answered(s, t, o)
  PROVE  Over(s, t)
  BY DEF Answered, Over

LEMMA OverTwice ==
  ASSUME NEW s, NEW t, NEW u, Over(s, t), Over(t, u)
  PROVE  Over(s, u)
  BY DEF Over, SameRest

LEMMA OverAnswer ==
  ASSUME NEW s \in RequestRecord, NEW t, AnswerOK(s), Over(s, t)
  PROVE  AnswerOK(t)
<1>1. CASE s.inProgress
  <2>1. PICK o \in Outcome : t.sent = Append(s.sent, o)
    BY <1>1 DEF Over
  <2>2. s.sent = <<>>
    BY <1>1 DEF AnswerOK
  <2>3. Len(t.sent) = 1
    BY <2>1, <2>2
  <2> QED
    BY <1>1, <2>3 DEF Over, AnswerOK
<1>2. CASE ~s.inProgress
  BY <1>2 DEF Over, AnswerOK, RequestRecord
<1> QED
  BY <1>1, <1>2

LEMMA ReplyType ==
  ASSUME NEW k, NEW s
  PROVE  Reply(k, s) \in Outcome
  BY DEF Reply, Outcome

\* Closing a Dialog that is connected, or of a request that is answered.
LEMMA CloseDialogOver ==
  ASSUME NEW k, NEW s \in RequestRecord, AnswerOK(s), s.dialog = "visible",
         s.inProgress => s.connected
  PROVE  Over(s, CloseDialog(k, s))
<1> DEFINE c == [s EXCEPT !.dialog = "closed", !.connected = FALSE]
<1>1. c \in RequestRecord
  BY DEF RequestRecord
<1>2. /\ c.dialog = "closed" /\ c.inProgress = s.inProgress /\ c.life = s.life
      /\ c.sent = s.sent /\ SameRest(s, c)
  BY DEF RequestRecord, SameRest
<1>3. CloseDialog(k, s) = IF s.connected THEN SetResult(c, Reply(k, s)) ELSE c
  BY DEF CloseDialog
<1> HIDE DEF c
<1>4. AnswerOK(c)
  BY <1>2 DEF AnswerOK
<1>5. Answered(c, SetResult(c, Reply(k, s)), Reply(k, s))
  BY <1>1, <1>4, ReplyType, SetResultAnswers
<1>6. CASE s.connected
  <2>1. Over(c, CloseDialog(k, s))
    BY <1>3, <1>5, <1>6, ReplyType, AnsweredIsOver
  <2> QED
    BY <1>2, <2>1 DEF Over, SameRest
<1>7. CASE ~s.connected
  BY <1>1, <1>2, <1>3, <1>7 DEF Over, RequestRecord
<1> QED
  BY <1>6, <1>7

LEMMA CloseDialogIs ==
  ASSUME NEW k, NEW s \in RequestRecord, AnswerOK(s), DialogOK(s)
  PROVE  \/ Over(s, CloseDialog(k, s))
         \/ CloseDialog(k, s) = s
<1>1. CASE s.dialog = "visible"
  BY <1>1, CloseDialogOver DEF DialogOK
<1>2. CASE s.dialog # "visible"
  BY <1>2 DEF CloseDialog
<1> QED
  BY <1>1, <1>2

LEMMA OnFinishedOver ==
  ASSUME NEW k, NEW s \in RequestRecord, AnswerOK(s)
  PROVE  Over(s, OnFinished(k, s))
<1> DEFINE d == [s EXCEPT !.connected = FALSE]
           c == [d EXCEPT !.dialog = "closed", !.connected = FALSE]
           e == CloseDialog(k, d)
<1>1. d \in RequestRecord /\ d.connected = FALSE
  BY DEF RequestRecord
<1>2. /\ d.dialog = s.dialog /\ d.inProgress = s.inProgress /\ d.life = s.life
      /\ d.sent = s.sent /\ SameRest(s, d)
  BY DEF RequestRecord, SameRest
<1> HIDE DEF d
<1>3. c \in RequestRecord
  BY <1>1 DEF RequestRecord
<1>4. /\ c.dialog = "closed" /\ c.inProgress = s.inProgress /\ c.life = s.life
      /\ c.sent = s.sent /\ SameRest(s, c)
  BY <1>1, <1>2 DEF RequestRecord, SameRest
<1>5. e = IF d.dialog = "visible" THEN c ELSE d
  BY <1>1 DEF CloseDialog
<1> HIDE DEF c, e
<1>6. /\ e \in RequestRecord /\ e.inProgress = s.inProgress /\ e.life = s.life
      /\ e.sent = s.sent /\ SameRest(s, e)
      /\ e.dialog = s.dialog \/ (s.dialog = "visible" /\ e.dialog = "closed")
  BY <1>1, <1>2, <1>3, <1>4, <1>5
<1>7. AnswerOK(e)
  BY <1>6 DEF AnswerOK
<1>8. OnFinished(k, s) = SetResult(e, Reply(k, s))
  BY DEF OnFinished, d, e
<1>9. Over(e, OnFinished(k, s))
  BY <1>6, <1>7, <1>8, ReplyType, SetResultAnswers, AnsweredIsOver
<1> QED
  BY <1>6, <1>9 DEF Over, SameRest

LEMMA CancelOver ==
  ASSUME NEW k, NEW s \in RequestRecord, AnswerOK(s), DialogOK(s)
  PROVE  /\ Over(s, CancelRequest(k, s))
         /\ s.inProgress => CancelRequest(k, s).sent = Append(s.sent, "canceled")
<1> DEFINE a == SetResult(s, "canceled")
<1>1. Answered(s, a, "canceled") /\ "canceled" \in Outcome
  BY SetResultAnswers DEF Outcome
<1>2. Over(s, a)
  BY <1>1, AnsweredIsOver
<1>3. CancelRequest(k, s) = CloseDialog(k, a)
  BY DEF CancelRequest
<1> HIDE DEF a
<1>4. a \in RequestRecord /\ AnswerOK(a)
  BY <1>2, OverAnswer DEF Over
<1>5. a.inProgress = FALSE
  BY <1>1 DEF Answered
<1>6. CASE a.dialog = "visible"
  <2>1. Over(a, CancelRequest(k, s))
    BY <1>3, <1>4, <1>5, <1>6, CloseDialogOver
  <2>2. CancelRequest(k, s).sent = a.sent
    BY <1>5, <2>1 DEF Over
  <2> QED
    BY <1>1, <1>2, <2>1, <2>2, OverTwice DEF Answered
<1>7. CASE a.dialog # "visible"
  <2>1. CancelRequest(k, s) = a
    BY <1>3, <1>7 DEF CloseDialog
  <2> QED
    BY <1>1, <1>2, <2>1 DEF Answered
<1> QED
  BY <1>6, <1>7

LEMMA FailOver ==
  ASSUME NEW k, NEW s \in RequestRecord, AnswerOK(s), DialogOK(s)
  PROVE  Over(s, FailRequest(k, s))
<1> DEFINE c == CloseDialog(k, s)
<1>1. c = s \/ Over(s, c)
  BY CloseDialogIs
<1>2. FailRequest(k, s) = SetResult(c, "network") /\ "network" \in Outcome
  BY DEF FailRequest, Outcome
<1> HIDE DEF c
<1>3. c \in RequestRecord /\ AnswerOK(c)
  BY <1>1, OverAnswer DEF Over
<1>4. Over(c, FailRequest(k, s))
  BY <1>2, <1>3, SetResultAnswers, AnsweredIsOver
<1> QED
  BY <1>1, <1>4, OverTwice

\* What is over keeps the invariant of a request.
LEMMA OverOK ==
  ASSUME NEW s, NEW t, RequestOK(s), s.life \in {"live", "completed"}, Over(s, t)
  PROVE  RequestOK(t)
<1>1. AnswerOK(t)
  BY OverAnswer DEF RequestOK
<1>2. t.life = "completed"
  BY DEF Over, RequestOK, AnswerOK
<1>3. DialogOK(t) /\ LiveOK(t)
  BY <1>2 DEF Over, SameRest, RequestOK, DialogOK, LiveOK
<1>4. EventOK(t)
  BY <1>2 DEF Over, SameRest, RequestOK, EventOK
<1> QED
  BY <1>1, <1>3, <1>4 DEF Over, RequestOK

-----------------------------------------------------------------------------
(***************************************************************************)
(* The steps.                                                              *)
(***************************************************************************)
\* A step that makes t of request r, and may take requests from handlers.
LEMMA RequestStep ==
  ASSUME IInv, NEW r \in Request, NEW t, RequestOK(t), Set(r, t),
         slot' \in [Handler -> Request \union {NoRequest}], handlers' \subseteq Handler,
         \A h \in Handler : slot'[h] # r => slot'[h] \in {NoRequest, slot[h]},
         \A h \in Handler : slot'[h] = r => t.inProgress /\ t.handler = h
  PROVE  IInv'
<1>1. req'[r] = t /\ \A q \in Request : q # r => req'[q] = req[q]
  BY DEF IInv, Set
<1>2. req' \in [Request -> RequestRecord] /\ \A q \in Request : RequestOK(req'[q])
  BY <1>1 DEF IInv, Set, RequestOK
<1>3. HandlerFreed'
  <2> SUFFICES ASSUME NEW h \in Handler, slot'[h] # NoRequest
               PROVE  req'[slot'[h]].inProgress /\ req'[slot'[h]].handler = h
    BY DEF HandlerFreed
  <2>1. CASE slot'[h] = r
    BY <1>1, <2>1
  <2>2. CASE slot'[h] # r
    <3>1. slot'[h] = slot[h] /\ slot'[h] \in Request
      BY <2>2
    <3> QED
      BY <1>1, <2>2, <3>1 DEF IInv, HandlerFreed
  <2> QED
    BY <2>1, <2>2
<1> QED
  BY <1>2, <1>3 DEF IInv

\* A request that a handler shows has that handler, and no Dialog.
LEMMA ShownByHandler ==
  ASSUME IInv, NEW h \in Handler, slot[h] # NoRequest
  PROVE  /\ slot[h] \in Request /\ req[slot[h]].inProgress
         /\ req[slot[h]].handler = h /\ req[slot[h]].dialog = "none"
<1>1. h # NoHandler
  BY UiAssumption
<1> QED
  BY <1>1 DEF IInv, HandlerFreed, RequestOK, DialogOK

\* A step that ends a request and takes it from its handler.
LEMMA EndStep ==
  ASSUME IInv, NEW r \in Request, NEW s, NEW t, RequestOK(t), Set(r, t),
         s.handler = req[r].handler, CloseHandler(s), UNCHANGED handlers
  PROVE  IInv'
<1>1. /\ slot' \in [Handler -> Request \union {NoRequest}]
      /\ \A h \in Handler : slot'[h] \in {NoRequest, slot[h]}
  BY DEF CloseHandler, IInv
<1>2. \A h \in Handler : slot'[h] # r
  <2> SUFFICES ASSUME NEW h \in Handler, slot'[h] = r
               PROVE  FALSE
    OBVIOUS
  <2>1. NoRequest \notin Request
    BY UiAssumption
  <2>2. slot[h] = r /\ h # req[r].handler
    BY <2>1 DEF CloseHandler, IInv
  <2> QED
    BY <2>1, <2>2, ShownByHandler
<1>3. handlers' \subseteq Handler
  BY DEF IInv
<1> QED
  BY <1>1, <1>2, <1>3, RequestStep

\* A step of a request that leaves the handlers alone.
LEMMA KeptStep ==
  ASSUME IInv, NEW r \in Request, NEW t, RequestOK(t), Set(r, t), Kept,
         \A h \in Handler : slot[h] = r => t.inProgress /\ t.handler = req[r].handler
  PROVE  IInv'
<1>1. \A h \in Handler : slot'[h] = r => t.inProgress /\ t.handler = h
  <2>1. NoRequest \notin Request
    BY UiAssumption
  <2> QED
    BY <2>1, ShownByHandler DEF Kept
<1> QED
  BY <1>1, RequestStep DEF Kept, IInv

LEMMA LiveIs ==
  ASSUME IInv, NEW r \in Request, IsLive(r)
  PROVE  RequestOK(req[r]) /\ req[r].life \in {"live", "completed"}
         /\ req[r] \in RequestRecord /\ AnswerOK(req[r]) /\ DialogOK(req[r])
  BY DEF IInv, IsLive, RequestOK

\* The fields that the page and the timer change do not matter.
LEMMA PageOK ==
  ASSUME NEW s, NEW t, RequestOK(s), s.life \in {"live", "completed"}, t \in RequestRecord,
         t.inProgress = s.inProgress, t.life = s.life, t.sent = s.sent,
         t.dialog = s.dialog, t.connected = s.connected, t.handler = s.handler,
         t.event = s.event
  PROVE  RequestOK(t)
  BY DEF RequestOK, AnswerOK, DialogOK, LiveOK, EventOK

LEMMA NewHandlerStep ==
  ASSUME IInv, NEW h \in Handler, NewHandler(h)
  PROVE  IInv'
<1>1. req' = req /\ slot' = slot /\ handlers' \subseteq Handler
  BY DEF NewHandler, IInv
<1> QED
  BY <1>1 DEF IInv, HandlerFreed

LEMMA DestroyHandlerStep ==
  ASSUME IInv, NEW h \in Handler, DestroyHandler(h)
  PROVE  IInv'
<1> DEFINE t(r) == IF req[r].handler = h THEN [req[r] EXCEPT !.handler = NoHandler] ELSE req[r]
<1>1. ASSUME NEW r \in Request
      PROVE  /\ req'[r] \in RequestRecord /\ RequestOK(req'[r])
             /\ req'[r].inProgress = req[r].inProgress
             /\ req[r].handler # h => req'[r].handler = req[r].handler
  <2>1. req'[r] = t(r) /\ RequestOK(req[r])
    BY DEF DestroyHandler, IInv
  <2>2. t(r) \in RequestRecord
    BY <2>1 DEF RequestOK, RequestRecord
  <2>3. /\ t(r).inProgress = req[r].inProgress /\ t(r).life = req[r].life
        /\ t(r).sent = req[r].sent /\ t(r).dialog = req[r].dialog
        /\ t(r).connected = req[r].connected /\ t(r).event = req[r].event
        /\ t(r).timer = req[r].timer /\ t(r).cookies = req[r].cookies
        /\ t(r).handler \in {NoHandler, req[r].handler}
        /\ req[r].handler # h => t(r).handler = req[r].handler
    BY <2>1 DEF RequestOK, RequestRecord
  <2> HIDE DEF t
  <2>4. RequestOK(t(r))
    BY <2>1, <2>2, <2>3 DEF RequestOK, AnswerOK, DialogOK, LiveOK, EventOK
  <2> QED
    BY <2>1, <2>2, <2>3, <2>4
<1>2. req' \in [Request -> RequestRecord] /\ \A r \in Request : RequestOK(req'[r])
  BY <1>1 DEF DestroyHandler
<1>3. slot' \in [Handler -> Request \union {NoRequest}] /\ handlers' \subseteq Handler
  BY DEF DestroyHandler, IInv
<1>4. HandlerFreed'
  <2> SUFFICES ASSUME NEW g \in Handler, slot'[g] # NoRequest
               PROVE  req'[slot'[g]].inProgress /\ req'[slot'[g]].handler = g
    BY DEF HandlerFreed
  <2>1. g # h /\ slot'[g] = slot[g]
    BY DEF DestroyHandler, IInv
  <2> QED
    BY <1>1, <2>1, ShownByHandler
<1> QED
  BY <1>2, <1>3, <1>4 DEF IInv

\* Showing a Dialog that is hidden: outside of a prompt session it fails.
LEMMA SetWindowOK ==
  ASSUME NEW s, RequestOK(s), s.life \in {"live", "completed"}, s.dialog = "hidden"
  PROVE  RequestOK(SetWindow(s))
<1>1. CASE InSession
  <2> DEFINE t == [s EXCEPT !.dialog = "visible"]
  <2>1. t \in RequestRecord
    BY DEF RequestOK, RequestRecord
  <2>2. /\ t.dialog = "visible" /\ t.inProgress = s.inProgress /\ t.life = s.life
        /\ t.sent = s.sent /\ t.connected = s.connected /\ SameRest(s, t)
    BY DEF RequestOK, RequestRecord, SameRest
  <2>3. SetWindow(s) = t
    BY <1>1 DEF SetWindow
  <2> HIDE DEF t
  <2>4. RequestOK(t)
    BY <2>1, <2>2 DEF RequestOK, AnswerOK, DialogOK, LiveOK, EventOK, SameRest
  <2> QED
    BY <2>3, <2>4
<1>2. CASE ~InSession
  <2>1. SetWindow(s) = SetResult(s, "forbidden") /\ "forbidden" \in Outcome
    BY <1>2 DEF SetWindow, Outcome
  <2> QED
    BY <2>1, SetResultAnswers, AnsweredIsOver, OverOK DEF RequestOK
<1> QED
  BY <1>1, <1>2

\* A request as it is created, and what start() makes of it.
LEMMA StartedOK ==
  ASSUME NEW h \in Handler \union {NoHandler}, NEW k \in {"dialog", "external", "browser"}
  PROVE  LET started == [NewRequest EXCEPT !.life = "live", !.inProgress = TRUE, !.handler = h]
             t == IF k = "dialog" THEN StartDialog(started) ELSE StartBrowser(started)
         IN  RequestOK(t) /\ (h # NoHandler => t.inProgress /\ t.handler = h)
<1> DEFINE n == [NewRequest EXCEPT !.life = "live", !.inProgress = TRUE, !.handler = h]
           d == WithDialog(n)
<1> DEFINE o == NewRequest
<1>1. /\ o.life = "none" /\ o.sent = <<>> /\ o.dialog = "none" /\ o.connected = FALSE
      /\ o.timer = FALSE /\ o.cookies = FALSE /\ o.event = "none" /\ o \in RequestRecord
  <2>1. <<>> \in Seq(Outcome)
    OBVIOUS
  <2> QED
    BY <2>1 DEF NewRequest, RequestRecord
<1> DEFINE m == [o EXCEPT !.life = "live", !.handler = h]
<1> HIDE DEF o
<1>2. /\ m.life = "live" /\ m.sent = <<>> /\ m.dialog = "none" /\ m.connected = FALSE
      /\ m.timer = FALSE /\ m.cookies = FALSE /\ m.event = "none" /\ m \in RequestRecord
      /\ m.handler = h
  BY <1>1 DEF RequestRecord
<1>3. n = [m EXCEPT !.inProgress = TRUE]
  BY <1>1 DEF o, RequestRecord
<1> HIDE DEF m, n
<1>4. /\ n.life = "live" /\ n.sent = <<>> /\ n.dialog = "none" /\ n.connected = FALSE
      /\ n.timer = FALSE /\ n.cookies = FALSE /\ n.event = "none" /\ n \in RequestRecord
      /\ n.handler = h /\ n.inProgress = TRUE
  BY <1>2, <1>3 DEF RequestRecord
<1>5. RequestOK(n)
  BY <1>4 DEF RequestOK, AnswerOK, DialogOK, LiveOK, EventOK
<1>6. h = NoHandler => RequestOK(d) /\ d.life = "live" /\ d.dialog = "hidden"
  <2>1. /\ d \in RequestRecord /\ d.dialog = "hidden" /\ d.connected = TRUE
        /\ d.life = n.life /\ d.sent = n.sent /\ d.event = n.event /\ d.handler = n.handler
        /\ d.inProgress = n.inProgress /\ d.timer = n.timer /\ d.cookies = n.cookies
    BY <1>4 DEF WithDialog, RequestRecord
  <2> HIDE DEF d
  <2> QED
    BY <1>4, <2>1 DEF RequestOK, AnswerOK, DialogOK, LiveOK, EventOK
<1>7. n.handler = h /\ n.inProgress
  BY <1>4
<1> HIDE DEF d
<1>8. CASE h # NoHandler
  BY <1>5, <1>7, <1>8 DEF StartDialog, StartBrowser, n
<1>9. CASE h = NoHandler
  <2>1. RequestOK(SetWindow(d)) /\ RequestOK(d)
    BY <1>6, <1>9, SetWindowOK
  <2> QED
    BY <1>7, <1>9, <2>1 DEF StartDialog, StartBrowser, n, d
<1> QED
  BY <1>8, <1>9

LEMMA OnDataReadyStep ==
  ASSUME IInv, NEW r \in Request, OnDataReady(r)
  PROVE  IInv'
<1> DEFINE h == FindMatching(r)
           n == [NewRequest EXCEPT !.life = "live", !.inProgress = TRUE, !.handler = h]
           t == IF Kind[r] = "dialog" THEN StartDialog(n) ELSE StartBrowser(n)
<1>1. h \in Handler \union {NoHandler} /\ Kind[r] \in {"dialog", "external", "browser"}
  BY UiAssumption DEF FindMatching, Kind
<1>2. RequestOK(t) /\ (h # NoHandler => t.inProgress /\ t.handler = h)
  BY <1>1, StartedOK
<1>3. Set(r, t) /\ SetRequest(h, r) /\ handlers' = handlers /\ req[r].life = "none"
  BY DEF OnDataReady
<1> HIDE DEF h, t
<1>4. NoRequest \notin Request
  BY UiAssumption
<1>5. \A g \in Handler : slot[g] # r
  <2> SUFFICES ASSUME NEW g \in Handler, slot[g] = r
               PROVE  FALSE
    OBVIOUS
  <2>1. req[r].inProgress
    BY <1>4, ShownByHandler
  <2> QED
    BY <1>3, <2>1 DEF IInv, RequestOK, AnswerOK
<1>6. /\ slot' \in [Handler -> Request \union {NoRequest}]
      /\ \A g \in Handler : slot'[g] # r => slot'[g] \in {NoRequest, slot[g]}
      /\ \A g \in Handler : slot'[g] = r => g = h /\ h # NoHandler
  BY <1>1, <1>3, <1>5, UiAssumption DEF SetRequest, IInv
<1>7. handlers' \subseteq Handler
  BY <1>3 DEF IInv
<1> QED
  BY <1>2, <1>3, <1>6, <1>7, RequestStep

LEMMA DeleteRequestStep ==
  ASSUME IInv, NEW r \in Request, DeleteRequest(r)
  PROVE  IInv'
<1> DEFINE s == req[r]
           t == [s EXCEPT !.life = "deleted", !.dialog = "none", !.timer = FALSE,
                          !.cookies = FALSE, !.handler = NoHandler]
<1>1. s.life = "completed" /\ RequestOK(s) /\ Set(r, t) /\ handlers' \subseteq Handler
  BY DEF DeleteRequest, IInv
<1> DEFINE u == [s EXCEPT !.life = "deleted", !.dialog = "none", !.handler = NoHandler]
<1>2. /\ u \in RequestRecord /\ u.life = "deleted" /\ u.dialog = "none" /\ u.handler = NoHandler
      /\ u.inProgress = s.inProgress /\ u.sent = s.sent /\ u.event = s.event
  BY <1>1 DEF RequestOK, RequestRecord
<1>3. t = [u EXCEPT !.timer = FALSE, !.cookies = FALSE]
  BY <1>1 DEF RequestOK, RequestRecord
<1> HIDE DEF s, t, u
<1>4. /\ t \in RequestRecord /\ t.life = "deleted" /\ t.dialog = "none" /\ t.handler = NoHandler
      /\ t.inProgress = s.inProgress /\ t.sent = s.sent /\ t.event = s.event
      /\ t.timer = FALSE /\ t.cookies = FALSE
  BY <1>2, <1>3 DEF RequestRecord
<1>5. RequestOK(t)
  <2>1. AnswerOK(t) /\ DialogOK(t)
    BY <1>1, <1>4 DEF RequestOK, AnswerOK, DialogOK
  <2>2. LiveOK(t)
    BY <1>1, <1>4 DEF RequestOK, LiveOK
  <2>3. EventOK(t)
    BY <1>1, <1>4 DEF RequestOK, AnswerOK, EventOK
  <2> QED
    BY <1>4, <2>1, <2>2, <2>3 DEF RequestOK
<1>6. /\ slot' \in [Handler -> Request \union {NoRequest}]
      /\ \A h \in Handler : slot'[h] # r /\ slot'[h] \in {NoRequest, slot[h]}
  BY UiAssumption DEF DeleteRequest, IInv
<1> QED
  BY <1>1, <1>5, <1>6, RequestStep

LEMMA CloseWindowStep ==
  ASSUME IInv, NEW r \in Request, CloseWindow(r)
  PROVE  IInv'
<1> DEFINE s == req[r]
           t == CloseDialog(Kind[r], s)
<1>1. RequestOK(s) /\ s.life \in {"live", "completed"} /\ s.dialog = "visible"
  BY LiveIs DEF CloseWindow
<1>2. Set(r, t) /\ Kept
  BY DEF CloseWindow
<1> HIDE DEF t
<1>3. RequestOK(t)
  BY <1>1, CloseDialogIs, OverOK DEF RequestOK, t
<1>4. \A h \in Handler : slot[h] # r
  BY <1>1, UiAssumption, ShownByHandler
<1> QED
  BY <1>2, <1>3, <1>4, KeptStep

LEMMA CancelStep ==
  ASSUME IInv, NEW r \in Request, Cancel(r)
  PROVE  IInv'
<1> DEFINE s == req[r]
           c == CancelRequest(Kind[r], s)
           t == [c EXCEPT !.event = IF s.inProgress THEN "cancel" ELSE @]
<1>1. RequestOK(s) /\ s.life \in {"live", "completed"} /\ s \in RequestRecord
  BY LiveIs DEF Cancel, RequestOK
<1>2. Set(r, t) /\ CloseHandler(s) /\ UNCHANGED handlers
  BY DEF Cancel
<1> HIDE DEF c, s
<1>3. Over(s, c) /\ (s.inProgress => c.sent = Append(s.sent, "canceled"))
  BY <1>1, CancelOver DEF RequestOK, c
<1>4. RequestOK(c)
  BY <1>1, <1>3, OverOK
<1>5. /\ t \in RequestRecord /\ t.inProgress = c.inProgress /\ t.life = c.life
      /\ t.sent = c.sent /\ t.dialog = c.dialog /\ t.connected = c.connected
      /\ t.handler = c.handler /\ t.timer = c.timer /\ t.cookies = c.cookies
      /\ t.event = IF s.inProgress THEN "cancel" ELSE c.event
  BY <1>4 DEF RequestOK, RequestRecord
<1> HIDE DEF t
<1>6. EventOK(t)
  <2>1. t.inProgress = FALSE /\ t.life # "none"
    BY <1>1, <1>3, <1>5 DEF Over
  <2>2. CASE s.inProgress
    <3>1. s.sent = <<>>
      BY <1>1, <2>2 DEF RequestOK, AnswerOK
    <3>2. t.sent = <<"canceled">>
      BY <1>3, <1>5, <2>2, <3>1
    <3> QED
      BY <2>1, <3>2 DEF EventOK
  <2>3. CASE ~s.inProgress
    BY <1>4, <1>5, <2>1, <2>3 DEF RequestOK, EventOK
  <2> QED
    BY <2>2, <2>3
<1>7. RequestOK(t)
  BY <1>4, <1>5, <1>6 DEF RequestOK, AnswerOK, DialogOK, LiveOK
<1> QED
  BY <1>2, <1>7, EndStep DEF s

LEMMA AcceptStep ==
  ASSUME IInv, NEW r \in Request, Accept(r)
  PROVE  IInv'
<1> DEFINE s == req[r]
           f == [s EXCEPT !.final = Kind[r] = "external"]
           t == OnFinished(Kind[r], f)
<1>1. RequestOK(s) /\ s.life \in {"live", "completed"} /\ s \in RequestRecord
  BY LiveIs DEF Accept, RequestOK
<1>2. Set(r, t) /\ CloseHandler(s) /\ UNCHANGED handlers
  BY DEF Accept
<1>3. /\ f \in RequestRecord /\ f.inProgress = s.inProgress /\ f.life = s.life
      /\ f.sent = s.sent /\ f.dialog = s.dialog /\ f.connected = s.connected
      /\ f.handler = s.handler /\ f.event = s.event
  BY <1>1 DEF RequestRecord
<1> HIDE DEF f
<1>4. RequestOK(f)
  BY <1>1, <1>3, PageOK
<1>5. RequestOK(t)
  BY <1>1, <1>3, <1>4, OnFinishedOver, OverOK DEF RequestOK
<1> QED
  BY <1>2, <1>5, EndStep

\* The page and the timer of a web view.
LEMMA PageStep ==
  ASSUME IInv, NEW r \in Request, NEW t, IsLive(r), Set(r, t), Kept, t \in RequestRecord,
         t.inProgress = req[r].inProgress, t.life = req[r].life, t.sent = req[r].sent,
         t.dialog = req[r].dialog, t.connected = req[r].connected,
         t.handler = req[r].handler, t.event = req[r].event
  PROVE  IInv'
<1>1. RequestOK(t)
  BY LiveIs, PageOK
<1>2. \A h \in Handler : slot[h] = r => t.inProgress
  BY UiAssumption, ShownByHandler
<1> QED
  BY <1>1, <1>2, KeptStep

LEMMA LoadStep ==
  ASSUME IInv, NEW r \in Request, LoadStarted(r) \/ LoadFailed(r)
  PROVE  IInv'
<1>1. IsLive(r) /\ req[r] \in RequestRecord
  BY LiveIs DEF LoadStarted, LoadFailed, HasPage
<1>2. PICK timer \in BOOLEAN, page \in {"loading", "failed"} :
        Set(r, [req[r] EXCEPT !.timer = timer, !.page = page]) /\ Kept
  BY DEF LoadStarted, LoadFailed
<1> DEFINE t == [req[r] EXCEPT !.timer = timer, !.page = page]
<1>3. /\ t \in RequestRecord /\ t.inProgress = req[r].inProgress /\ t.life = req[r].life
      /\ t.sent = req[r].sent /\ t.dialog = req[r].dialog
      /\ t.connected = req[r].connected /\ t.handler = req[r].handler
      /\ t.event = req[r].event
  BY <1>1 DEF RequestRecord
<1> HIDE DEF t
<1>4. Set(r, t)
  BY <1>2 DEF t
<1> QED
  BY <1>1, <1>2, <1>3, <1>4, PageStep

LEMMA LoadSucceededStep ==
  ASSUME IInv, NEW r \in Request, LoadSucceeded(r)
  PROVE  IInv'
<1> DEFINE s == [req[r] EXCEPT !.page = "loaded"]
<1>1. /\ IsLive(r) /\ Kept /\ req[r].life \in {"live", "completed"}
      /\ RequestOK(req[r]) /\ req[r] \in RequestRecord
  BY LiveIs DEF LoadSucceeded, HasPage
<1>2. /\ s \in RequestRecord /\ s.inProgress = req[r].inProgress /\ s.life = req[r].life
      /\ s.sent = req[r].sent /\ s.dialog = req[r].dialog
      /\ s.connected = req[r].connected /\ s.handler = req[r].handler
      /\ s.event = req[r].event
  BY <1>1 DEF RequestRecord
<1>3. Set(r, IF s.dialog = "hidden" /\ ~s.final THEN SetWindow(s) ELSE s)
  BY DEF LoadSucceeded
<1> HIDE DEF s
<1>4. CASE s.dialog = "hidden" /\ ~s.final
  <2>1. RequestOK(SetWindow(s))
    BY <1>1, <1>2, <1>4, PageOK, SetWindowOK
  <2>2. \A h \in Handler : slot[h] # r
    BY <1>2, <1>4, UiAssumption, ShownByHandler
  <2> QED
    BY <1>1, <1>3, <1>4, <2>1, <2>2, KeptStep
<1>5. CASE ~(s.dialog = "hidden" /\ ~s.final)
  BY <1>1, <1>2, <1>3, <1>5, PageStep
<1> QED
  BY <1>4, <1>5

\* The final URL has been reached, and the cookies are there.
LEMMA FinishedStep ==
  ASSUME IInv, NEW r \in Request, NEW s, NEW t, RequestOK(s), s.life \in {"live",
         "completed"},
         s.handler = req[r].handler, CloseHandler(s), UNCHANGED handlers, Set(r, t),
         t \in {OnFinished("browser", s), [OnFinished("browser", s) EXCEPT !.cookies = FALSE]}
  PROVE  IInv'
<1> DEFINE o == OnFinished("browser", s)
           c == [o EXCEPT !.cookies = FALSE]
<1>1. RequestOK(o)
  BY OnFinishedOver, OverOK DEF RequestOK
<1>2. o.life # "none" /\ o.life # "deleted"
  BY OnFinishedOver DEF RequestOK, Over
<1> HIDE DEF o
<1>3. /\ c \in RequestRecord /\ c.inProgress = o.inProgress /\ c.life = o.life
      /\ c.sent = o.sent /\ c.dialog = o.dialog /\ c.connected = o.connected
      /\ c.handler = o.handler /\ c.event = o.event
  BY <1>1 DEF RequestOK, RequestRecord
<1> HIDE DEF c
<1>4. RequestOK(c)
  BY <1>1, <1>2, <1>3, PageOK DEF RequestOK, RequestRecord
<1>5. RequestOK(t)
  BY <1>1, <1>4 DEF o, c
<1> QED
  BY <1>5, EndStep

LEMMA FinalUrlStep ==
  ASSUME IInv, NEW r \in Request, FinalUrl(r)
  PROVE  IInv'
<1> DEFINE s == [req[r] EXCEPT !.final = TRUE]
<1>1. /\ IsLive(r) /\ req[r].life \in {"live", "completed"}
      /\ RequestOK(req[r]) /\ req[r] \in RequestRecord
  BY LiveIs DEF FinalUrl, HasPage
<1>2. /\ s \in RequestRecord /\ s.inProgress = req[r].inProgress /\ s.life = req[r].life
      /\ s.sent = req[r].sent /\ s.dialog = req[r].dialog
      /\ s.connected = req[r].connected /\ s.handler = req[r].handler
      /\ s.event = req[r].event
  BY <1>1 DEF RequestRecord
<1>3. \/ Set(r, OnFinished("browser", s)) /\ CloseHandler(s)
      \/ SetCookies(r, s)
      \/ Set(r, [s EXCEPT !.cookies = TRUE]) /\ UNCHANGED slot
  BY DEF FinalUrl
<1>4. UNCHANGED handlers
  BY DEF FinalUrl
<1> HIDE DEF s
<1>5. RequestOK(s) /\ s.life \in {"live", "completed"}
  BY <1>1, <1>2, PageOK
<1>6. CASE Set(r, OnFinished("browser", s)) /\ CloseHandler(s)
  BY <1>2, <1>4, <1>5, <1>6, FinishedStep
<1>7. CASE SetCookies(r, s)
  BY <1>2, <1>4, <1>5, <1>7, FinishedStep DEF SetCookies
<1>8. CASE Set(r, [s EXCEPT !.cookies = TRUE]) /\ UNCHANGED slot
  <2> DEFINE t == [s EXCEPT !.cookies = TRUE]
  <2>1. /\ t \in RequestRecord /\ t.inProgress = s.inProgress /\ t.life = s.life
        /\ t.sent = s.sent /\ t.dialog = s.dialog /\ t.connected = s.connected
        /\ t.handler = s.handler /\ t.event = s.event
    BY <1>2 DEF RequestRecord
  <2> HIDE DEF t
  <2>2. Set(r, t) /\ Kept
    BY <1>4, <1>8 DEF t, Kept
  <2> QED
    BY <1>1, <1>2, <2>1, <2>2, PageStep
<1> QED
  BY <1>3, <1>6, <1>7, <1>8

LEMMA CookiesReadyStep ==
  ASSUME IInv, NEW r \in Request, CookiesReady(r)
  PROVE  IInv'
  BY LiveIs, FinishedStep DEF CookiesReady, SetCookies

LEMMA OnFailTimerStep ==
  ASSUME IInv, NEW r \in Request, OnFailTimer(r)
  PROVE  IInv'
<1> DEFINE s == req[r]
           n == [s EXCEPT !.timer = FALSE]
           f == FailRequest("browser", n)
           e == IF ~s.inProgress THEN f.event ELSE IF s.final THEN "late" ELSE "timeout"
           t == [f EXCEPT !.event = e]
<1>1. /\ s.life \in {"live", "completed"} /\ RequestOK(s) /\ s \in RequestRecord
  BY LiveIs DEF OnFailTimer, RequestOK
<1>2. Set(r, t) /\ CloseHandler(s) /\ UNCHANGED handlers
  BY DEF OnFailTimer
<1>3. /\ n \in RequestRecord /\ n.inProgress = s.inProgress /\ n.life = s.life
      /\ n.sent = s.sent /\ n.dialog = s.dialog /\ n.connected = s.connected
      /\ n.handler = s.handler /\ n.event = s.event
  BY <1>1 DEF RequestRecord
<1> HIDE DEF n, s
<1>4. RequestOK(n) /\ n.life \in {"live", "completed"}
  BY <1>1, <1>3, PageOK
<1>5. Over(n, f)
  BY <1>4, FailOver DEF RequestOK
<1> HIDE DEF f
<1>6. RequestOK(f)
  BY <1>4, <1>5, OverOK
<1>7. /\ t \in RequestRecord /\ t.inProgress = f.inProgress /\ t.life = f.life
      /\ t.sent = f.sent /\ t.dialog = f.dialog /\ t.connected = f.connected
      /\ t.handler = f.handler /\ t.timer = f.timer /\ t.cookies = f.cookies
      /\ t.event = e
  BY <1>6 DEF RequestOK, RequestRecord
<1> HIDE DEF t
<1>8. EventOK(t)
  <2>1. t.inProgress = FALSE /\ t.life # "none"
    BY <1>4, <1>5, <1>7 DEF Over
  <2> QED
    BY <1>6, <1>7, <2>1 DEF RequestOK, EventOK
<1>9. RequestOK(t)
  BY <1>6, <1>7, <1>8 DEF RequestOK, AnswerOK, DialogOK, LiveOK
<1> QED
  BY <1>2, <1>9, EndStep DEF s

-----------------------------------------------------------------------------
(***************************************************************************)
(* The invariant, and the theorems.                                        *)
(***************************************************************************)
LEMMA InitInv ==
  ASSUME Init
  PROVE  IInv
<1>1. RequestOK(NewRequest)
  <2>1. <<>> \in Seq(Outcome)
    OBVIOUS
  <2>2. NewRequest \in RequestRecord
    BY <2>1 DEF NewRequest, RequestRecord
  <2> QED
    BY <2>2 DEF NewRequest, RequestOK, AnswerOK, DialogOK, LiveOK, EventOK
<1> QED
  BY <1>1 DEF Init, IInv, HandlerFreed, RequestOK

LEMMA NextInv ==
  ASSUME IInv, [Next]_vars
  PROVE  IInv'
<1>1. CASE \E h \in Handler : NewHandler(h) \/ DestroyHandler(h)
  BY <1>1, NewHandlerStep, DestroyHandlerStep
<1>2. ASSUME NEW r \in Request, OnDataReady(r) \/ DeleteRequest(r)
      PROVE  IInv'
  BY <1>2, OnDataReadyStep, DeleteRequestStep
<1>3. ASSUME NEW r \in Request, CloseWindow(r) \/ Cancel(r) \/ Accept(r)
      PROVE  IInv'
  BY <1>3, CloseWindowStep, CancelStep, AcceptStep
<1>4. ASSUME NEW r \in Request, BrowserStep(r)
      PROVE  IInv'
  BY <1>4, LoadStep, LoadSucceededStep, FinalUrlStep, CookiesReadyStep, OnFailTimerStep
  DEF BrowserStep
<1>5. CASE UNCHANGED vars
  BY <1>5 DEF vars, IInv, HandlerFreed
<1> QED
  BY <1>1, <1>2, <1>3, <1>4, <1>5 DEF Next

LEMMA Invariance == Spec => []IInv
  BY InitInv, NextInv, PTL DEF Spec

\* Every request, handler and outcome stays within its type: TypeOK.
THEOREM TypeCorrect == Spec => []TypeOK
<1>1. IInv => TypeOK
  BY DEF IInv, TypeOK, RequestOK, LiveOK, IsLive, RequestRecord
<1> QED
  BY <1>1, Invariance, PTL

\* The daemon gets exactly one answer to a request whose window has closed or
\* that is completed, and none before, for any interleaving of the user, the
\* page, the timer and the plugin (request.cpp, setResult and setCanceled).
THEOREM AnsweredOnceCorrect == Spec => []AnsweredOnce
<1>1. IInv => AnsweredOnce
  <2> SUFFICES ASSUME IInv, NEW r \in Request
               PROVE  Len(req[r].sent) =
                        IF req[r].dialog = "closed" \/ req[r].life \in {"completed", "deleted"}
                        THEN 1 ELSE 0
    BY DEF AnsweredOnce
  <2>1. RequestOK(req[r])
    BY DEF IInv
  <2>2. CASE req[r].life \in {"completed", "deleted"}
    BY <2>1, <2>2 DEF RequestOK, AnswerOK
  <2>3. CASE req[r].life \in {"none", "live"}
    <3>1. req[r].sent = <<>> /\ req[r].dialog # "closed"
      BY <2>1, <2>3 DEF RequestOK, AnswerOK, DialogOK
    <3> QED
      BY <2>3, <3>1
  <2> QED
    BY <2>1, <2>2, <2>3 DEF RequestOK, RequestRecord
<1> QED
  BY <1>1, Invariance, PTL

\* A handler never keeps a request that has been answered, whichever of them
\* goes first (signonui-request.cpp, the destructors and closeView).
THEOREM HandlerFreedCorrect == Spec => []HandlerFreed
<1>1. IInv => HandlerFreed
  BY DEF IInv
<1> QED
  BY <1>1, Invariance, PTL

\* A request that the user cancels is answered with that, although closing its
\* Dialog delivers what has been typed (request.cpp, cancel).
THEOREM CancelIsCanceledCorrect == Spec => []CancelIsCanceled
<1>1. IInv => CancelIsCanceled
  BY DEF IInv, CancelIsCanceled, RequestOK, EventOK
<1> QED
  BY <1>1, Invariance, PTL

=============================================================================
