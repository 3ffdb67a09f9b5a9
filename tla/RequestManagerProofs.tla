------------------------ MODULE RequestManagerProofs ------------------------
(***************************************************************************)
(* Machine-checked proofs about RequestManager, for every set of requests, *)
(* windows and handlers and every combination of faults: type correctness, *)
(* the safety properties that follow from the inductive invariant IInv of  *)
(* RequestManagerInvariant, the refinement of WindowQueues, and what holds *)
(* of sign-on requests and of the service as long as none is cancelled.    *)
(***************************************************************************)
EXTENDS RequestManagerRefinement, SequenceTheorems, TLAPS

\* The part of TypeOK about the service's own objects.
BrokerType ==
  /\ life \in [Request -> Life]
  /\ inProgress \subseteq Request
  /\ replies \in [Request -> Nat]
  /\ via \in [Request -> Request \cup {NoProxy}]
  /\ queue \in [Window -> Seq(Request)]
  /\ windows \subseteq Window
  /\ proxies \subseteq Request
  /\ dying \subseteq Request
  /\ status \in [Request -> Status]
  /\ held \in [Request -> SUBSET Request]
  /\ timer \subseteq Request

\* The part of TypeOK about handlers and UI processes.
UiType ==
  /\ handlers \in [Request -> SUBSET Handler]
  /\ exited \subseteq Request
  /\ unplugged \subseteq Request
  /\ inbox \in [Request -> Seq(Message)]
  /\ uiWork \in [Request -> SUBSET Request]
  /\ created \subseteq Handler
  /\ svc \in {"running", "crashed"}

\* TypeOK is the conjunction of its two parts, before and after a step.
LEMMA TypeSplit == (TypeOK <=> BrokerType /\ UiType) /\ (TypeOK' <=> BrokerType' /\ UiType')
  BY DEF TypeOK, BrokerType, UiType

-----------------------------------------------------------------------------
(***************************************************************************)
(* Facts about sequences.                                                  *)
(***************************************************************************)

\* What runQueue leaves of a queue after k init failures: the same elements,
\* k places further on.
LEMMA RestOfQueue ==
  ASSUME NEW S, NEW q \in Seq(S), NEW k \in 0 .. Len(q)
  PROVE  LET rest == SubSeq(q, k + 1, Len(q))
         IN /\ rest \in Seq(S)
            /\ Len(rest) = Len(q) - k
            /\ \A i \in 1 .. Len(q) - k : rest[i] = q[i + k]
            /\ rest # <<>> => Head(rest) = q[k + 1] /\ k + 1 \in 1 .. Len(q)
            /\ rest = <<>> <=> k = Len(q)
<1> DEFINE rest == SubSeq(q, k + 1, Len(q))
<1>1. Len(q) \in Nat /\ k \in Nat /\ k <= Len(q)
  OBVIOUS
<1>2. \A i \in (k + 1) .. Len(q) : q[i] \in S
  BY <1>1, ElementOfSeq
<1>3. /\ rest \in Seq(S)
      /\ Len(rest) = Len(q) - k
      /\ \A i \in 1 .. Len(q) - k : rest[i] = q[i + k]
  <2>1. /\ rest \in Seq(S)
        /\ Len(rest) = IF k + 1 <= Len(q) THEN Len(q) - (k + 1) + 1 ELSE 0
        /\ \A i \in 1 .. Len(q) - (k + 1) + 1 : rest[i] = q[(k + 1) + i - 1]
    <3>1. k + 1 \in Int /\ Len(q) \in Int
      BY <1>1
    <3> HIDE DEF rest
    <3> QED
      BY <1>2, <3>1, SubSeqProperties DEF rest
  <2> HIDE DEF rest
  <2> QED
    BY <1>1, <2>1
<1> HIDE DEF rest
<1>4. rest = <<>> <=> k = Len(q)
  BY <1>1, <1>3, EmptySeq
<1>5. rest # <<>> => Head(rest) = q[k + 1] /\ k + 1 \in 1 .. Len(q)
  <2>1. SUFFICES ASSUME rest # <<>>
                 PROVE  Head(rest) = q[k + 1] /\ k + 1 \in 1 .. Len(q)
    OBVIOUS
  <2>2. k < Len(q)
    BY <1>1, <1>4, <2>1
  <2>3. Head(rest) = rest[1]
    BY <1>3, <2>1
  <2> QED
    BY <1>1, <1>3, <2>2, <2>3
<1> QED
  BY <1>3, <1>4, <1>5 DEF rest

\* Taking the first element off a queue.
LEMMA TailOfQueue ==
  ASSUME NEW S, NEW q \in Seq(S), q # <<>>
  PROVE  /\ Tail(q) \in Seq(S)
         /\ Len(Tail(q)) = Len(q) - 1
         /\ \A i \in 1 .. Len(q) - 1 : Tail(q)[i] = q[i + 1]
         /\ Head(q) = q[1]
         /\ 1 \in 1 .. Len(q)
         /\ Len(q) \in Nat
  BY EmptySeq, HeadTailProperties

\* Adding an element to a queue.
LEMMA AppendToQueue ==
  ASSUME NEW S, NEW q \in Seq(S), NEW e \in S
  PROVE  /\ Append(q, e) \in Seq(S)
         /\ Len(Append(q, e)) = Len(q) + 1
         /\ \A i \in 1 .. Len(q) : Append(q, e)[i] = q[i]
         /\ Append(q, e)[Len(q) + 1] = e
         /\ Append(q, e) # <<>>
         /\ Len(q) \in Nat
  OBVIOUS

-----------------------------------------------------------------------------
(***************************************************************************)
(* Type correctness.                                                       *)
(***************************************************************************)

\* The request and proxy updates of RequestManager keep the types.
LEMMA ReplyType ==
  ASSUME BrokerType, NEW done, NEW cleared, NEW started \in SUBSET Request,
         Reply(done, cleared, started)
  PROVE  /\ replies' \in [Request -> Nat]
         /\ inProgress' \subseteq Request
         /\ via' \in [Request -> Request \cup {NoProxy}]
  BY DEF BrokerType, Reply

LEMMA LifetimeType ==
  ASSUME BrokerType, NEW born, NEW freed, Lifetime(born, freed)
  PROVE  life' \in [Request -> Life]
  BY DEF BrokerType, Lifetime, Life

LEMMA ProxiesType ==
  ASSUME BrokerType, NEW done, NEW gone, NEW refused,
         NEW started \in SUBSET Request, NEW outcome \in Status,
         Proxies(done, gone, refused, started, outcome)
  PROVE  /\ proxies' \subseteq Request
         /\ dying' \subseteq Request
         /\ status' \in [Request -> Status]
         /\ held' \in [Request -> SUBSET Request]
         /\ timer' \subseteq Request
<1>1. proxies' \subseteq Request /\ dying' \subseteq Request
  BY DEF BrokerType, Proxies, ProxyLists
<1>2. status' \in [Request -> Status]
  BY DEF BrokerType, Proxies, Status
<1>3. held' \in [Request -> SUBSET Request]
  BY DEF BrokerType, Proxies
<1>4. timer' \subseteq Request
  BY DEF BrokerType, Proxies, TimersStarted
<1> QED
  BY <1>1, <1>2, <1>3, <1>4

LEMMA SetQueueType ==
  ASSUME BrokerType, NEW w \in Window, NEW q \in Seq(Request), SetQueue(w, q)
  PROVE  queue' \in [Window -> Seq(Request)] /\ windows' \subseteq Window
  BY DEF BrokerType, SetQueue

\* What runQueue starts or refuses are requests of the queue.
LEMMA RunQueueType ==
  ASSUME BrokerType, NEW w \in Window, NEW q \in Seq(Request),
         NEW born, NEW done, NEW cleared, NEW gone,
         RunQueue(w, q, born, done, cleared, gone)
  PROVE  BrokerType'
<1>1. CASE MustServe(q, inProgress \ cleared)
  <2>1. PICK k \in InitFailures(q), outcome \in StartOutcome :
          LET refused == {q[i] : i \in 1 .. k}
              rest    == SubSeq(q, k + 1, Len(q))
              started == IF rest = <<>> THEN {} ELSE {Head(rest)}
          IN /\ SetQueue(w, rest)
             /\ Lifetime(born, done \cup refused)
             /\ Reply(done \cup refused, cleared, started)
             /\ Proxies(done, gone, refused, started, outcome)
    BY <1>1 DEF RunQueue
  <2> DEFINE refused == {q[i] : i \in 1 .. k}
             rest    == SubSeq(q, k + 1, Len(q))
             started == IF rest = <<>> THEN {} ELSE {Head(rest)}
  <2>2. k \in 0 .. Len(q) /\ outcome \in Status
    BY DEF InitFailures, StartOutcome, Status
  <2>3. rest \in Seq(Request) /\ started \in SUBSET Request
    <3>1. rest \in Seq(Request)
      BY <2>2, RestOfQueue
    <3> HIDE DEF rest
    <3>2. rest # <<>> => Head(rest) \in Request
      BY <3>1
    <3> QED
      BY <3>1, <3>2
  <2>4. /\ SetQueue(w, rest)
        /\ Lifetime(born, done \cup refused)
        /\ Reply(done \cup refused, cleared, started)
        /\ Proxies(done, gone, refused, started, outcome)
    BY <2>1
  <2> HIDE DEF refused, rest, started
  <2> QED
    BY <2>2, <2>3, <2>4, ReplyType, LifetimeType, ProxiesType, SetQueueType
    DEF BrokerType
<1>2. CASE ~MustServe(q, inProgress \ cleared)
  <2>1. /\ SetQueue(w, q)
        /\ Lifetime(born, done)
        /\ Reply(done, cleared, {})
        /\ Proxies(done, gone, {}, {}, "None")
    BY <1>2 DEF RunQueue
  <2>2. "None" \in Status /\ {} \in SUBSET Request
    BY DEF Status
  <2> QED
    BY <2>1, <2>2, ReplyType, LifetimeType, ProxiesType, SetQueueType
    DEF BrokerType
<1> QED
  BY <1>1, <1>2

\* The slots of completed() keep the types.
LEMMA CompletedType ==
  ASSUME BrokerType, svc \in {"running", "crashed"},
         NEW done \in SUBSET Request, NEW cleared, NEW gone,
         Completed(done, cleared, gone)
  PROVE  BrokerType' /\ svc' \in {"running", "crashed"}
<1>1. "None" \in Status /\ {} \in SUBSET Request
  BY DEF Status
<1>2. CASE CompletedElsewhere(done, cleared, gone)
  BY <1>1, <1>2, ReplyType, LifetimeType, ProxiesType
  DEF CompletedElsewhere, BrokerType, queueVars
<1>3. ASSUME NEW r \in done, CompletedHead(r, done, cleared, gone)
      PROVE  BrokerType' /\ svc' \in {"running", "crashed"}
  <2>1. WindowOf[r] \in Window
    BY RequestAssumption
  <2>2. queue[WindowOf[r]] \in Seq(Request) /\ queue[WindowOf[r]] # <<>>
    BY <1>3, <2>1 DEF CompletedHead, IsHead, BrokerType
  <2>3. Tail(queue[WindowOf[r]]) \in Seq(Request)
    BY <2>2
  <2> QED
    BY <1>3, <2>1, <2>3, RunQueueType DEF CompletedHead
<1>4. ASSUME NEW r \in done, CompletedNotFirst(r, done, cleared, gone)
      PROVE  BrokerType' /\ svc' \in {"running", "crashed"}
  <2>1. WindowOf[r] \in Window
    BY RequestAssumption
  <2> QED
    BY <1>1, <1>4, <2>1, ReplyType, LifetimeType, ProxiesType
    DEF CompletedNotFirst, BrokerType
<1> QED
  BY <1>2, <1>3, <1>4 DEF Completed

\* Init satisfies the types.
LEMMA TypeInit == Init => TypeOK
  BY DEF Init, TypeOK, Life, Status

\* The messages on a socket.
LEMMA MessageType ==
  ASSUME NEW p \in Request, inbox[p] \in Seq(Message), inbox[p] # <<>>
  PROVE  /\ Tail(inbox[p]) \in Seq(Message)
         /\ Head(inbox[p]) \in Message
         /\ Head(inbox[p]).code = "registerHandler" => Head(inbox[p]).handler \in Handler
  BY DEF Message, Answer, Register

\* Every action keeps the types.
LEMMA TypeStep == TypeOK /\ [Next]_vars => TypeOK'
<1> SUFFICES ASSUME TypeOK, [Next]_vars
             PROVE  TypeOK'
  OBVIOUS
<1> USE DEF requestVars, queueVars, proxyVars, uiVars
<1>0. BrokerType /\ UiType
  BY TypeSplit
<1>1. ASSUME NEW r \in Request, Enqueue(r)
      PROVE  TypeOK'
  <2>1. WindowOf[r] \in Window
    BY RequestAssumption
  <2>2. Append(queue[WindowOf[r]], r) \in Seq(Request)
    BY <1>0, <2>1 DEF BrokerType
  <2>3. BrokerType'
    BY <1>0, <1>1, <2>1, <2>2, RunQueueType DEF Enqueue
  <2>4. UiType'
    BY <1>0, <1>1 DEF Enqueue, UiType
  <2> QED
    BY <2>3, <2>4, TypeSplit
<1>2. ASSUME NEW r \in Request, NEW p \in proxies, HandOver(r, p)
      PROVE  TypeOK'
  <2>1. p \in Request
    BY <1>0 DEF BrokerType
  <2>2. life' \in [Request -> Life]
    BY <1>0, <1>2, LifetimeType DEF HandOver
  <2>3. BrokerType'
    BY <1>0, <1>2, <2>1, <2>2 DEF HandOver, BrokerType
  <2>4. UiType'
    BY <1>0, <1>2, <2>1 DEF HandOver, UiType
  <2> QED
    BY <2>3, <2>4, TypeSplit
<1>3. ASSUME NEW r \in Request, CancelUiRequest(r)
      PROVE  TypeOK'
  <2>1. BrokerType' /\ svc' \in {"running", "crashed"}
    BY <1>0, <1>3, CompletedType DEF CancelUiRequest, UiType
  <2>2. UiType'
    BY <1>0, <1>3, <2>1 DEF CancelUiRequest, UiType
  <2> QED
    BY <2>1, <2>2, TypeSplit
<1>4. ASSUME NEW r \in Request, DeleteRequest(r)
      PROVE  TypeOK'
  <2>1. BrokerType'
    BY <1>0, <1>4 DEF DeleteRequest, BrokerType, Life
  <2>2. UiType'
    BY <1>0, <1>4 DEF DeleteRequest, UiType
  <2> QED
    BY <2>1, <2>2, TypeSplit
<1>5. ASSUME NEW p \in Request, OnNewConnection(p)
      PROVE  TypeOK'
  <2>1. BrokerType'
    BY <1>0, <1>5 DEF OnNewConnection, BrokerType, Status
  <2>2. UiType'
    BY <1>0, <1>5 DEF OnNewConnection, BrokerType, UiType, PendingRequests
  <2> QED
    BY <2>1, <2>2, TypeSplit
<1>6. ASSUME NEW p \in Request, OnDataReady(p)
      PROVE  TypeOK'
  <2> DEFINE m == Head(inbox[p])
  <2>1. /\ inbox[p] \in Seq(Message) /\ inbox[p] # <<>>
        /\ inbox' = [inbox EXCEPT ![p] = Tail(@)]
        /\ UNCHANGED <<exited, unplugged, uiWork, created>>
    BY <1>0, <1>6 DEF OnDataReady, UiType
  <2>2. inbox' \in [Request -> Seq(Message)]
    BY <1>0, <2>1, MessageType DEF UiType
  <2>3. \/ m.code = "registerHandler" /\ OnRegisterHandler(p, m)
        \/ OnAnswer(p, m)
        \/ OnStaleAnswer(p, m)
    BY <1>6 DEF OnDataReady
  <2>4. CASE m.code = "registerHandler" /\ OnRegisterHandler(p, m)
    <3>1. m.handler \in Handler
      BY <2>1, <2>4, MessageType
    <3> HIDE DEF m
    <3>2. BrokerType' /\ svc' = svc
      BY <1>0, <2>4 DEF OnRegisterHandler, BrokerType
    <3>3. handlers' \in [Request -> SUBSET Handler]
      BY <1>0, <2>4, <3>1 DEF OnRegisterHandler, UiType
    <3> QED
      BY <1>0, <2>1, <2>2, <3>2, <3>3, TypeSplit DEF UiType
  <2>5. CASE OnAnswer(p, m)
    <3> HIDE DEF m
    <3>1. m.req \in Request
      BY <1>0, <2>5 DEF OnAnswer, BrokerType
    <3>2. BrokerType' /\ svc' \in {"running", "crashed"}
      <4>1. CASE Completed({m.req}, ClearedBy(m), {})
        BY <1>0, <3>1, <4>1, CompletedType DEF UiType
      <4>2. CASE UNCHANGED <<requestVars, queueVars, proxyVars, svc>>
        BY <1>0, <4>2 DEF BrokerType, UiType
      <4> QED
        BY <2>5, <4>1, <4>2 DEF OnAnswer
    <3>3. UiType'
      BY <1>0, <2>1, <2>2, <2>5, <3>2 DEF OnAnswer, UiType
    <3> QED
      BY <3>2, <3>3, TypeSplit
  <2>6. CASE OnStaleAnswer(p, m)
    <3>1. BrokerType'
      BY <1>0, <2>6 DEF OnStaleAnswer, BrokerType
    <3>2. UiType'
      BY <1>0, <2>1, <2>2, <2>6 DEF OnStaleAnswer, UiType
    <3> QED
      BY <3>1, <3>2, TypeSplit
  <2> QED
    BY <2>3, <2>4, <2>5, <2>6
<1>7. ASSUME NEW p \in Request, OnDisconnected(p)
      PROVE  TypeOK'
  <2>1. BrokerType'
    BY <1>0, <1>7 DEF OnDisconnected, Finished, BrokerType
  <2>2. UiType'
    BY <1>0, <1>7 DEF OnDisconnected, UiType
  <2> QED
    BY <2>1, <2>2, TypeSplit
<1>8. ASSUME NEW p \in Request, OnFinishedTimer(p)
      PROVE  TypeOK'
  <2>1. BrokerType'
    BY <1>0, <1>8 DEF OnFinishedTimer, Finished, BrokerType
  <2>2. UiType'
    BY <1>0, <1>8 DEF OnFinishedTimer, UiType
  <2> QED
    BY <2>1, <2>2, TypeSplit
<1>9. ASSUME NEW p \in Request, OnPromptSessionFinished(p)
      PROVE  TypeOK'
  <2>1. BrokerType'
    BY <1>0, <1>9 DEF OnPromptSessionFinished, Finished, BrokerType
  <2>2. UiType'
    BY <1>0, <1>9 DEF OnPromptSessionFinished, UiType
  <2> QED
    BY <2>1, <2>2, TypeSplit
<1>10. ASSUME NEW p \in Request, DeleteProxy(p)
       PROVE  TypeOK'
  <2>1. CancelledBy(p) \in SUBSET Request
    BY <1>0 DEF CancelledBy, BrokerType
  <2>2. BrokerType' /\ svc' \in {"running", "crashed"}
    BY <1>0, <1>10, <2>1, CompletedType DEF DeleteProxy, UiType
  <2>3. <<>> \in Seq(Message)
    OBVIOUS
  <2>4. UiType'
    BY <1>0, <1>10, <2>2, <2>3 DEF DeleteProxy, UiType
  <2> QED
    BY <2>2, <2>4, TypeSplit
<1>11. ASSUME NEW p \in Request, NEW r \in uiWork[p],
              NEW code \in {"finished", "failed"}, UiAnswer(p, r, code)
       PROVE  TypeOK'
  <2>1. [code |-> code, req |-> r] \in Message
    BY <1>0 DEF UiType, Message, Answer
  <2>2. BrokerType'
    BY <1>0, <1>11 DEF UiAnswer, BrokerType
  <2>3. UiType'
    BY <1>0, <1>11, <2>1 DEF UiAnswer, Send, Unanswered, UiType
  <2> QED
    BY <2>2, <2>3, TypeSplit
<1>12. ASSUME NEW p \in Request, NEW h \in Handler, UiRegister(p, h)
       PROVE  TypeOK'
  <2>1. [code |-> "registerHandler", handler |-> h] \in Message
    BY DEF Message, Register
  <2>2. BrokerType'
    BY <1>0, <1>12 DEF UiRegister, BrokerType
  <2>3. UiType'
    BY <1>0, <1>12, <2>1 DEF UiRegister, Send, UiType
  <2> QED
    BY <2>2, <2>3, TypeSplit
<1>13. ASSUME NEW p \in Request, UiExit(p)
       PROVE  TypeOK'
  <2>1. BrokerType'
    BY <1>0, <1>13 DEF UiExit, BrokerType
  <2>2. UiType'
    BY <1>0, <1>13 DEF UiExit, UiType
  <2> QED
    BY <2>1, <2>2, TypeSplit
<1>14. CASE UNCHANGED vars
  BY <1>14 DEF vars, TypeOK
<1> QED
  BY <1>1, <1>2, <1>3, <1>4, <1>5, <1>6, <1>7, <1>8, <1>9, <1>10, <1>11, <1>12,
     <1>13, <1>14
  DEF Next, RequestStep, ProxyStep, UiStep

\* Every reachable state of the broker is well typed (see TypeOK).
THEOREM TypeCorrect == Spec => []TypeOK
<1>1. Init => TypeOK
  BY TypeInit
<1>2. TypeOK /\ [Next]_vars => TypeOK'
  BY TypeStep
<1> QED
  BY <1>1, <1>2, PTL DEF Spec

-----------------------------------------------------------------------------
(***************************************************************************)
(* The inductive invariant.                                                *)
(***************************************************************************)

\* IInv without the types.
BrokerInv == QueuesOk /\ HeldOk /\ AliveOk /\ FreshOk /\ AccountRequestAnsweredOnce

\* The effect of a handler that completes, starts or refuses requests on the
\* window w, whose queue becomes rest.
EffectStep(w, rest, born, done, cleared, gone, refused, started, outcome) ==
  /\ queue' = [queue EXCEPT ![w] = rest]
  /\ windows \ {w} \subseteq windows'
  /\ rest # <<>> => w \in windows'
  /\ Lifetime(born, done \cup refused)
  /\ Reply(done \cup refused, cleared, started)
  /\ Proxies(done, gone, refused, started, outcome)

\* What its callers know.  The rest holds untouched requests, except that the
\* first one is either started now or was being served before.
RestPre(w, rest, born, done, refused, started) ==
  /\ \A i \in 1 .. Len(rest) :
       /\ WindowOf[rest[i]] = w
       /\ rest[i] \notin done \cup refused
       /\ life[rest[i]] = "alive" \/ rest[i] \in born
       /\ \/ rest[i] \in started /\ i = 1 /\ via[rest[i]] = NoProxy
          \/ rest[i] \notin started /\ i = 1 /\ rest[i] \in held[rest[i]]
          \/ rest[i] \notin started /\ i > 1 /\ via[rest[i]] = NoProxy
  /\ \A i, j \in 1 .. Len(rest) : rest[i] = rest[j] => i = j
  /\ \A r \in started : rest # <<>> /\ rest[1] = r

\* Refused and new requests were untouched, nothing leaves the queue but what
\* is refused or done.
QueuePre(w, rest, born, done, refused) ==
  /\ \A r \in refused : /\ WindowOf[r] = w
                        /\ via[r] = NoProxy
                        /\ life[r] = "alive" \/ r \in born
  /\ \A i \in 1 .. Len(queue[w]) :
       \/ queue[w][i] \in done \cup refused
       \/ \E j \in 1 .. Len(rest) : rest[j] = queue[w][i]
  /\ \A r \in born : /\ life[r] = "unborn"
                     /\ r \in refused \/ \E j \in 1 .. Len(rest) : rest[j] = r

\* Done requests were held by their proxies, and a proxy is destroyed with
\* everything it holds.
DonePre(w, done, gone) ==
  /\ \A r \in done : /\ via[r] \in Request
                     /\ r \in held[via[r]]
                     /\ via[r] = r => WindowOf[r] = w
  /\ \A p \in gone : p \in dying /\ held[p] \subseteq done

\* Such a step keeps the invariant.
LEMMA EffectInv ==
  ASSUME BrokerType, BrokerInv,
         NEW w \in Window, NEW rest \in Seq(Request),
         NEW born \in SUBSET Request, NEW done \in SUBSET Request,
         NEW cleared \in SUBSET done, NEW gone \in SUBSET Request,
         NEW refused \in SUBSET Request, NEW started \in SUBSET Request,
         NEW outcome,
         EffectStep(w, rest, born, done, cleared, gone, refused, started, outcome),
         RestPre(w, rest, born, done, refused, started),
         QueuePre(w, rest, born, done, refused),
         DonePre(w, done, gone),
         started # {} => outcome \in {"Loading", "Error"}
  PROVE  BrokerInv'
<1> USE DEF EffectStep, RestPre, QueuePre, DonePre
<1>1. queue \in [Window -> Seq(Request)] /\ Len(rest) \in Nat
  BY DEF BrokerType
<1>2. \A v \in Window : queue'[v] = IF v = w THEN rest ELSE queue[v]
  BY <1>1
<1>3. \A r \in Request :
        /\ life'[r] = IF r \in done \cup refused THEN "deleting"
                      ELSE IF r \in born THEN "alive" ELSE life[r]
        /\ replies'[r] = IF r \in done \cup refused THEN replies[r] + 1 ELSE replies[r]
        /\ via'[r] = IF r \in started THEN r ELSE via[r]
        /\ held'[r] = IF r \in started THEN {r} ELSE held[r] \ done
        /\ status'[r] = IF r \in started THEN outcome
                        ELSE IF r \in refused THEN "Null"
                        ELSE IF r \in gone THEN "Deleted" ELSE status[r]
  BY DEF Lifetime, Reply, Proxies
\* The same, by cases.
<1>4. \A r \in started : held'[r] = {r} /\ via'[r] = r /\ status'[r] = outcome
  BY <1>3
<1>5. \A r \in Request \ started : held'[r] = held[r] \ done /\ via'[r] = via[r]
  BY <1>3
<1>6. \A r \in done \cup refused : life'[r] = "deleting" /\ replies'[r] = replies[r] + 1
  BY <1>3
<1>7. \A r \in Request \ (done \cup refused) :
         life'[r] = (IF r \in born THEN "alive" ELSE life[r]) /\ replies'[r] = replies[r]
  BY <1>3
<1>8. /\ inProgress' = (inProgress \ cleared) \cup started
      /\ proxies' = proxies \cup started
      /\ dying' = dying \ gone
  BY DEF Reply, Proxies, ProxyLists
<1>9. /\ timer' \subseteq Request
       /\ \A p \in timer' : p \notin gone /\ (p \in timer \/ Live(p))
  BY DEF Proxies, TimersStarted, BrokerType
<1>10. \A r \in Request : rest # <<>> => Head(rest) = rest[1] /\ 1 \in 1 .. Len(rest)
  BY <1>1, TailOfQueue
<1>11. NoProxy \notin Request
  BY RequestAssumption
\* Requests that are started or refused were untouched, in particular they
\* had no proxy of their own.
<1>12. \A r \in started \cup refused :
        /\ via[r] = NoProxy
        /\ r \notin done
        /\ life[r] = "alive" \/ r \in born
        /\ life[r] \in {"unborn", "alive"}
        /\ status[r] = "None"
        /\ r \notin inProgress
        /\ replies[r] = 0
  <2>1. SUFFICES ASSUME NEW r \in started \cup refused
                 PROVE  /\ via[r] = NoProxy
                        /\ r \notin done
                        /\ life[r] = "alive" \/ r \in born
                        /\ life[r] \in {"unborn", "alive"}
                        /\ status[r] = "None"
                        /\ r \notin inProgress
                        /\ replies[r] = 0
    OBVIOUS
  <2>2. via[r] = NoProxy /\ (life[r] = "alive" \/ r \in born)
    BY <1>10
  <2>3. r \notin done
    BY <1>11, <2>2
  <2>4. life[r] \in {"unborn", "alive"}
    BY <2>2
  <2>5. status[r] = "None"
    BY <2>2, <2>4 DEF BrokerInv, FreshOk
  <2>6. r \notin inProgress /\ replies[r] = 0
    BY <1>11, <2>2, <2>4 DEF BrokerInv, FreshOk, AliveOk
  <2> QED
    BY <2>2, <2>3, <2>4, <2>5, <2>6
<1>13. \A p \in Request : Live(p) => p \notin started \cup refused
  BY <1>12 DEF Live
<1>14. \A p \in gone : Live(p) /\ p \notin proxies
  BY DEF BrokerInv, FreshOk
<1>15. QueuesOk'
  <2>1. SUFFICES ASSUME NEW v \in Window
                 PROVE  /\ \A i \in 1 .. Len(queue'[v]) :
                             LET r == queue'[v][i]
                             IN /\ WindowOf[r] = v
                                /\ life'[r] = "alive"
                                /\ i = 1 => r \in held'[r]
                                /\ i > 1 => via'[r] = NoProxy
                        /\ \A i, j \in 1 .. Len(queue'[v]) :
                             queue'[v][i] = queue'[v][j] => i = j
                        /\ queue'[v] # <<>> => v \in windows'
    BY DEF QueuesOk
  <2>2. CASE v = w
    <3>1. queue'[v] = rest
      BY <1>2, <2>2
    <3>2. ASSUME NEW i \in 1 .. Len(rest)
          PROVE  /\ WindowOf[rest[i]] = w
                 /\ life'[rest[i]] = "alive"
                 /\ i = 1 => rest[i] \in held'[rest[i]]
                 /\ i > 1 => via'[rest[i]] = NoProxy
      <4> DEFINE r == rest[i]
      <4>1. /\ r \in Request /\ i \in Nat /\ WindowOf[r] = w
            /\ r \notin done \cup refused
            /\ life[r] = "alive" \/ r \in born
            /\ \/ r \in started /\ i = 1
               \/ r \notin started /\ i = 1 /\ r \in held[r]
               \/ r \notin started /\ i > 1 /\ via[r] = NoProxy
        BY <1>1
      <4> HIDE DEF r
      <4>2. life'[r] = "alive"
        BY <1>7, <4>1
      <4>3. CASE r \in started
        BY <1>4, <4>1, <4>2, <4>3 DEF r
      <4>4. CASE r \notin started
        BY <1>5, <4>1, <4>2, <4>4 DEF r
      <4> QED
        BY <4>3, <4>4
    <3> QED
      BY <2>2, <3>1, <3>2
  <2>3. CASE v # w
    <3>1. queue'[v] = queue[v] /\ queue[v] \in Seq(Request)
      BY <1>1, <1>2, <2>3
    <3>2. ASSUME NEW i \in 1 .. Len(queue[v])
          PROVE  /\ WindowOf[queue[v][i]] = v
                 /\ life'[queue[v][i]] = "alive"
                 /\ i = 1 => queue[v][i] \in held'[queue[v][i]]
                 /\ i > 1 => via'[queue[v][i]] = NoProxy
      <4> DEFINE r == queue[v][i]
      <4>1. r \in Request
        BY <3>1
      <4>2. /\ WindowOf[r] = v /\ life[r] = "alive"
            /\ i = 1 => r \in held[r]
            /\ i > 1 => via[r] = NoProxy
            /\ i = 1 \/ i > 1
        BY <3>1 DEF BrokerInv, QueuesOk
      <4>3. i = 1 => via[r] = r
        BY <4>1, <4>2 DEF BrokerInv, HeldOk
      <4> HIDE DEF r
      <4>4. r \notin started /\ r \notin refused
        BY <1>10, <2>3, <4>2
      <4>5. r \notin done
        BY <1>11, <2>3, <4>1, <4>2, <4>3
      <4>6. life'[r] = "alive" /\ via'[r] = via[r] /\ held'[r] = held[r] \ done
        BY <1>3, <4>1, <4>2, <4>4, <4>5
      <4> QED
        BY <4>2, <4>5, <4>6 DEF r
    <3>3. \A i, j \in 1 .. Len(queue[v]) : queue[v][i] = queue[v][j] => i = j
      BY DEF BrokerInv, QueuesOk
    <3>4. queue[v] # <<>> => v \in windows'
      BY <2>3 DEF BrokerInv, QueuesOk
    <3> QED
      BY <3>1, <3>2, <3>3, <3>4
  <2> QED
    BY <2>2, <2>3
<1>16. HeldOk'
  <2>1. SUFFICES ASSUME NEW p \in Request, NEW r \in held'[p]
                 PROVE  /\ life'[r] = "alive"
                        /\ via'[r] = p
                        /\ r \in inProgress'
                        /\ Live(p)'
                        /\ p = r => IsHead(r)'
    BY DEF HeldOk
  <2>2. CASE p \in started
    <3>1. r = p /\ r \in Request
      BY <1>4, <2>2
    <3>2. life'[r] = "alive" /\ via'[r] = p /\ r \in inProgress' /\ Live(p)'
      BY <1>4, <1>7, <1>8, <1>10, <1>12, <2>2, <3>1 DEF Live
    <3>3. rest # <<>> /\ Head(rest) = r /\ WindowOf[r] = w
      BY <1>10, <2>2, <3>1
    <3>4. IsHead(r)'
      BY <1>2, <3>3 DEF IsHead
    <3> QED
      BY <3>2, <3>4
  <2>3. CASE p \notin started
    <3>1. r \in held[p] /\ r \notin done
      BY <1>5, <2>3
    <3>2. r \in Request
      BY <3>1 DEF BrokerType
    <3>3. life[r] = "alive" /\ via[r] = p /\ r \in inProgress /\ Live(p)
          /\ (p = r => IsHead(r))
      BY <3>1 DEF BrokerInv, HeldOk
    <3>4. r \notin started /\ r \notin refused
      BY <1>11, <1>12, <3>3
    <3>5. life'[r] = "alive" /\ via'[r] = p /\ r \in inProgress'
      BY <1>3, <1>8, <3>1, <3>2, <3>3, <3>4
    <3>6. p \notin refused /\ p \notin gone
      BY <1>13, <3>1, <3>3
    <3>7. Live(p)'
      BY <1>3, <2>3, <3>3, <3>6 DEF Live
    <3>8. ASSUME p = r
          PROVE  IsHead(r)'
      <4>1. queue[WindowOf[r]] # <<>> /\ Head(queue[WindowOf[r]]) = r
        BY <3>3, <3>8 DEF IsHead
      <4>2. WindowOf[r] \in Window
        BY <3>2, RequestAssumption
      <4>3. CASE WindowOf[r] # w
        BY <1>2, <4>1, <4>2, <4>3 DEF IsHead
      <4>4. CASE WindowOf[r] = w
        <5>1. 1 \in 1 .. Len(queue[w]) /\ queue[w][1] = r
          BY <1>1, <4>1, <4>4, TailOfQueue
        <5>2. PICK j \in 1 .. Len(rest) : rest[j] = r
          BY <3>1, <3>4, <5>1
        <5>3. j = 1
          BY <1>11, <3>2, <3>3, <3>4, <5>2
        <5>4. rest # <<>>
          BY <5>2
        <5> QED
          BY <1>2, <1>10, <3>2, <4>2, <4>4, <5>2, <5>3, <5>4 DEF IsHead
      <4> QED
        BY <4>3, <4>4
    <3> QED
      BY <3>5, <3>7, <3>8
  <2> QED
    BY <2>2, <2>3
<1>17. AliveOk'
  <2>1. SUFFICES ASSUME NEW r \in Request, life'[r] = "alive"
                 PROVE  /\ replies'[r] = 0
                        /\ \/ via'[r] = NoProxy /\ InQueue(r)' /\ r \notin inProgress'
                           \/ via'[r] \in Request /\ r \in held'[via'[r]]
    BY DEF AliveOk
  <2>2. r \notin done /\ r \notin refused
    BY <1>3, <2>1
  <2>3. CASE r \in started
    BY <1>12, <1>4, <1>7, <2>2, <2>3
  <2>4. CASE r \notin started /\ r \in born
    <3>1. PICK j \in 1 .. Len(rest) : rest[j] = r
      BY <2>2, <2>4
    <3>2. life[r] = "unborn"
      BY <2>4
    <3>3. via[r] = NoProxy /\ r \notin inProgress /\ replies[r] = 0
      BY <3>2 DEF BrokerInv, FreshOk
    <3>4. InQueue(r)'
      BY <1>2, <3>1 DEF InQueue
    <3> QED
      BY <1>3, <1>8, <2>2, <2>4, <3>3, <3>4
  <2>5. CASE r \notin started /\ r \notin born
    <3>1. life[r] = "alive" /\ replies[r] = 0
      <4>1. life[r] = "alive"
        BY <1>7, <2>1, <2>2, <2>5
      <4> QED
        BY <4>1 DEF BrokerInv, AliveOk
    <3>2. replies'[r] = 0 /\ via'[r] = via[r]
      BY <1>5, <1>7, <2>2, <2>5, <3>1
    <3>3. CASE via[r] = NoProxy /\ InQueue(r) /\ r \notin inProgress
      <4>1. r \notin inProgress'
        BY <1>8, <2>5, <3>3
      <4>2. WindowOf[r] \in Window
        BY RequestAssumption
      <4>3. PICK i \in 1 .. Len(queue[WindowOf[r]]) : queue[WindowOf[r]][i] = r
        BY <3>3 DEF InQueue
      <4>4. InQueue(r)'
        <5>1. CASE WindowOf[r] = w
          <6>1. PICK j \in 1 .. Len(rest) : rest[j] = r
            BY <2>2, <4>3, <5>1
          <6> QED
            BY <1>2, <4>2, <5>1, <6>1 DEF InQueue
        <5>2. CASE WindowOf[r] # w
          BY <1>2, <4>2, <4>3, <5>2 DEF InQueue
        <5> QED
          BY <5>1, <5>2
      <4> QED
        BY <3>2, <3>3, <4>1, <4>4
    <3>4. CASE via[r] \in Request /\ r \in held[via[r]]
      <4>1. via[r] \notin started
        BY <1>13, <3>4 DEF BrokerInv, HeldOk
      <4>2. r \in held'[via[r]]
        BY <1>5, <2>2, <3>4, <4>1
      <4> QED
        BY <3>2, <3>4, <4>2
    <3> QED
      BY <3>1, <3>3, <3>4 DEF BrokerInv, AliveOk
  <2> QED
    BY <2>3, <2>4, <2>5
<1>18. FreshOk'
  <2>1. ASSUME NEW r \in Request, life'[r] = "unborn"
        PROVE  via'[r] = NoProxy /\ r \notin inProgress' /\ replies'[r] = 0
    <3>1. r \notin done /\ r \notin refused /\ r \notin born /\ life[r] = "unborn"
      BY <1>3, <2>1
    <3>2. r \notin started
      BY <1>12, <3>1
    <3>3. via[r] = NoProxy /\ r \notin inProgress /\ replies[r] = 0
      BY <3>1 DEF BrokerInv, FreshOk
    <3> QED
      BY <1>3, <1>8, <3>1, <3>2, <3>3
  <2>2. ASSUME NEW r \in Request, via'[r] = NoProxy, life'[r] \in {"unborn", "alive"}
        PROVE  status'[r] = "None"
    <3>1. r \notin done /\ r \notin refused
      BY <1>3, <2>2
    <3>2. r \notin started
      BY <1>3, <1>11, <2>2
    <3>3. via[r] = NoProxy /\ life[r] \in {"unborn", "alive"}
      BY <1>3, <2>2, <3>1, <3>2
    <3>4. status[r] = "None"
      BY <3>3 DEF BrokerInv, FreshOk
    <3>5. r \notin gone
      BY <1>14, <3>4 DEF Live
    <3> QED
      BY <1>3, <3>1, <3>2, <3>4, <3>5
  <2>3. ASSUME NEW p \in proxies' \cup dying' \cup timer'
        PROVE  Live(p)'
    <3>1. p \in Request
      BY <1>8, <1>9, <2>3 DEF BrokerType
    <3>2. CASE p \in started
      BY <1>3, <3>1, <3>2 DEF Live
    <3>3. CASE p \notin started
      <4>1. Live(p) /\ p \notin gone
        BY <1>8, <1>14, <1>9, <2>3, <3>3 DEF BrokerInv, FreshOk
      <4> QED
        BY <1>3, <1>13, <3>1, <3>3, <4>1 DEF Live
    <3> QED
      BY <3>2, <3>3
  <2>4. proxies' \cap dying' = {}
    <3>1. proxies \cap dying = {} /\ \A p \in dying : Live(p)
      BY DEF BrokerInv, FreshOk
    <3>2. \A p \in dying : p \notin started
      BY <1>13, <3>1 DEF BrokerType
    <3> QED
      BY <1>8, <3>1, <3>2
  <2> QED
    BY <2>1, <2>2, <2>3, <2>4 DEF FreshOk
<1>19. AccountRequestAnsweredOnce'
  <2>1. SUFFICES ASSUME NEW r \in Request \ SignOn
                 PROVE  replies'[r] = IF life'[r] \in {"deleting", "deleted"} THEN 1 ELSE 0
    BY DEF AccountRequestAnsweredOnce
  <2>2. CASE r \in refused
    BY <1>6, <1>12, <2>2
  <2>3. CASE r \in done
    <3>1. life[r] = "alive"
      BY <2>3 DEF BrokerInv, HeldOk
    <3>2. replies[r] = 0
      BY <3>1 DEF BrokerInv, AliveOk
    <3> QED
      BY <1>6, <2>3, <3>2
  <2>4. CASE r \notin refused /\ r \notin done
    <3>1. replies[r] = IF life[r] \in {"deleting", "deleted"} THEN 1 ELSE 0
      BY DEF BrokerInv, AccountRequestAnsweredOnce
    <3> QED
      BY <1>3, <2>4, <3>1
  <2> QED
    BY <2>2, <2>3, <2>4
<1> QED
  BY <1>15, <1>16, <1>17, <1>18, <1>19 DEF BrokerInv

\* What the callers of runQueue know of the queue it works on: it is the queue
\* of w without done and with born, and only its first request may have been
\* touched.
RunPre(w, q, born, done) ==
  /\ \A i \in 1 .. Len(q) :
       /\ WindowOf[q[i]] = w
       /\ q[i] \notin done
       /\ life[q[i]] = "alive" \/ q[i] \in born
       /\ (i = 1 /\ q[i] \in held[q[i]]) \/ via[q[i]] = NoProxy
  /\ \A i, j \in 1 .. Len(q) : q[i] = q[j] => i = j
  /\ \A i \in 1 .. Len(queue[w]) :
       \/ queue[w][i] \in done
       \/ \E j \in 1 .. Len(q) : q[j] = queue[w][i]
  /\ \A r \in born : life[r] = "unborn" /\ \E j \in 1 .. Len(q) : q[j] = r

\* runQueue, in its two outcomes: with the head in progress nothing is started;
\* otherwise some requests are refused and the next one is started.
LEMMA RunQueueInv ==
  ASSUME BrokerType, BrokerInv,
         NEW w \in Window, NEW q \in Seq(Request),
         NEW born \in SUBSET Request, NEW done \in SUBSET Request,
         NEW cleared \in SUBSET done, NEW gone \in SUBSET Request,
         RunQueue(w, q, born, done, cleared, gone),
         RunPre(w, q, born, done), DonePre(w, done, gone)
  PROVE  BrokerInv'
<1> USE DEF RunPre
<1>1. NoProxy \notin Request /\ Len(q) \in Nat
  BY RequestAssumption
<1>2. q # <<>> => Head(q) = q[1] /\ 1 \in 1 .. Len(q) /\ q[1] \in Request
  BY TailOfQueue
<1>3. \A i \in 1 .. Len(q) : via[q[i]] = NoProxy => q[i] \notin inProgress
  <2>1. SUFFICES ASSUME NEW i \in 1 .. Len(q), via[q[i]] = NoProxy
                 PROVE  q[i] \notin inProgress
    OBVIOUS
  <2>2. q[i] \in Request /\ life[q[i]] \in {"unborn", "alive"}
    BY <1>1
  <2> QED
    BY <1>1, <2>1, <2>2 DEF BrokerInv, AliveOk, FreshOk
<1>4. CASE MustServe(q, inProgress \ cleared)
  <2>1. PICK k \in InitFailures(q), outcome \in StartOutcome :
          LET refused == {q[i] : i \in 1 .. k}
              rest    == SubSeq(q, k + 1, Len(q))
              started == IF rest = <<>> THEN {} ELSE {Head(rest)}
          IN /\ SetQueue(w, rest)
             /\ Lifetime(born, done \cup refused)
             /\ Reply(done \cup refused, cleared, started)
             /\ Proxies(done, gone, refused, started, outcome)
    BY <1>4 DEF RunQueue
  <2> DEFINE refused == {q[i] : i \in 1 .. k}
             rest    == SubSeq(q, k + 1, Len(q))
             started == IF rest = <<>> THEN {} ELSE {Head(rest)}
  <2>2. k \in 0 .. Len(q) /\ outcome \in {"Loading", "Error"}
    BY DEF InitFailures, StartOutcome
  <2>3. /\ rest \in Seq(Request)
        /\ Len(rest) = Len(q) - k
        /\ \A i \in 1 .. Len(q) - k : rest[i] = q[i + k]
        /\ rest # <<>> => Head(rest) = q[k + 1] /\ k + 1 \in 1 .. Len(q)
        /\ rest = <<>> <=> k = Len(q)
    BY <2>2, RestOfQueue
  <2>4. /\ SetQueue(w, rest)
        /\ Lifetime(born, done \cup refused)
        /\ Reply(done \cup refused, cleared, started)
        /\ Proxies(done, gone, refused, started, outcome)
    BY <2>1
  <2>5. \A i \in 1 .. Len(q) : via[q[i]] = NoProxy
    <3>1. Head(q) \notin inProgress
      BY <1>2, <1>4 DEF MustServe
    <3>2. q # <<>> => q[1] \notin held[q[1]]
      BY <1>2, <3>1 DEF BrokerInv, HeldOk
    <3> QED
      BY <1>4, <3>2 DEF MustServe
  <2>6. refused \in SUBSET Request
    BY <1>1, <2>2
  <2>7. \A r \in refused : \E i \in 1 .. k : r = q[i]
    OBVIOUS
  <2>8. \A i \in 1 .. k : q[i] \in refused
    OBVIOUS
  <2> HIDE DEF refused, rest
  <2>9. /\ started \in SUBSET Request
        /\ \A r \in started : rest # <<>> /\ r = rest[1] /\ r = q[k + 1]
        /\ rest # <<>> => rest[1] \in started /\ 1 \in 1 .. Len(rest)
    <3>1. rest # <<>> => Head(rest) = rest[1] /\ rest[1] \in Request /\ 1 \in 1 .. Len(rest)
      BY <2>3, TailOfQueue
    <3> QED
      BY <2>3, <3>1
  <2> HIDE DEF started
  <2>10. /\ queue' = [queue EXCEPT ![w] = rest]
         /\ windows \ {w} \subseteq windows'
         /\ rest # <<>> => w \in windows'
    BY <2>4 DEF SetQueue
  <2>11. ASSUME NEW i \in 1 .. Len(rest)
         PROVE  /\ WindowOf[rest[i]] = w
                /\ rest[i] \notin done \cup refused
                /\ life[rest[i]] = "alive" \/ rest[i] \in born
                /\ \/ rest[i] \in started /\ i = 1 /\ via[rest[i]] = NoProxy
                   \/ rest[i] \notin started /\ i = 1 /\ rest[i] \in held[rest[i]]
                   \/ rest[i] \notin started /\ i > 1 /\ via[rest[i]] = NoProxy
    <3>1. /\ i + k \in 1 .. Len(q) /\ rest[i] = q[i + k]
          /\ i \in 1 .. Len(q) - k /\ rest # <<>>
      <4>1. Len(q) \in Nat /\ k \in Nat /\ k <= Len(q) /\ i \in 1 .. Len(q) - k
        BY <1>1, <2>2, <2>3
      <4>2. i + k \in 1 .. Len(q) /\ k # Len(q)
        BY <4>1
      <4> QED
        BY <2>3, <4>1, <4>2
    <3>2. rest[i] \notin refused
      BY <1>1, <2>2, <2>7, <3>1
    <3>3. CASE i = 1
      BY <2>5, <2>9, <3>1, <3>2, <3>3
    <3>4. CASE i # 1
      <4>1. rest[i] \notin started
        BY <1>1, <2>2, <2>3, <2>9, <3>1, <3>4
      <4> QED
        BY <2>5, <3>1, <3>2, <3>4, <4>1
    <3> QED
      BY <3>3, <3>4
  <2>12. \A i, j \in 1 .. Len(rest) : rest[i] = rest[j] => i = j
    <3>1. \A i \in 1 .. Len(rest) : rest[i] = q[i + k] /\ i + k \in 1 .. Len(q)
      BY <1>1, <2>2, <2>3
    <3> QED
      BY <1>1, <2>2, <2>3, <3>1
  <2>13. \A r \in refused : /\ WindowOf[r] = w
                            /\ via[r] = NoProxy
                            /\ life[r] = "alive" \/ r \in born
    BY <1>1, <2>2, <2>5, <2>7
  <2>14. \A j \in 1 .. Len(q) :
           q[j] \in refused \/ \E i \in 1 .. Len(rest) : rest[i] = q[j]
    <3>1. SUFFICES ASSUME NEW j \in 1 .. Len(q), ~(j \in 1 .. k)
                   PROVE  \E i \in 1 .. Len(rest) : rest[i] = q[j]
      BY <2>8
    <3>2. j - k \in 1 .. Len(rest) /\ j - k + k = j
      BY <1>1, <2>2, <2>3, <3>1
    <3> QED
      BY <2>3, <3>2
  <2>15. \A i \in 1 .. Len(queue[w]) :
           \/ queue[w][i] \in done \cup refused
           \/ \E j \in 1 .. Len(rest) : rest[j] = queue[w][i]
    BY <2>14
  <2>16. \A r \in born : /\ life[r] = "unborn"
                         /\ r \in refused \/ \E j \in 1 .. Len(rest) : rest[j] = r
    BY <2>14
  <2>17. EffectStep(w, rest, born, done, cleared, gone, refused, started, outcome)
    BY <2>4, <2>10 DEF EffectStep
  <2>18. RestPre(w, rest, born, done, refused, started)
    BY <2>9, <2>11, <2>12 DEF RestPre
  <2>19. QueuePre(w, rest, born, done, refused)
    BY <2>13, <2>15, <2>16 DEF QueuePre
  <2> QED
    BY <2>2, <2>3, <2>6, <2>9, <2>17, <2>18, <2>19, EffectInv
<1>5. CASE ~MustServe(q, inProgress \ cleared)
  <2>1. /\ SetQueue(w, q)
        /\ Lifetime(born, done \cup {})
        /\ Reply(done \cup {}, cleared, {})
        /\ Proxies(done, gone, {}, {}, "None")
    BY <1>5 DEF RunQueue
  <2>2. /\ queue' = [queue EXCEPT ![w] = q]
        /\ windows \ {w} \subseteq windows'
        /\ q # <<>> => w \in windows'
    BY <2>1 DEF SetQueue
  <2>3. q # <<>> => q[1] \in held[q[1]]
    BY <1>2, <1>3, <1>5 DEF MustServe
  <2>4. ASSUME NEW i \in 1 .. Len(q)
        PROVE  /\ WindowOf[q[i]] = w
               /\ q[i] \notin done \cup {}
               /\ life[q[i]] = "alive" \/ q[i] \in born
               /\ \/ q[i] \in {} /\ i = 1 /\ via[q[i]] = NoProxy
                  \/ q[i] \notin {} /\ i = 1 /\ q[i] \in held[q[i]]
                  \/ q[i] \notin {} /\ i > 1 /\ via[q[i]] = NoProxy
    <3>1. q # <<>> /\ (i = 1 \/ i > 1)
      BY <1>1
    <3> QED
      BY <2>3, <3>1
  <2>5. {} \in SUBSET Request
    OBVIOUS
  <2>6. EffectStep(w, q, born, done, cleared, gone, {}, {}, "None")
    BY <2>1, <2>2 DEF EffectStep
  <2>7. RestPre(w, q, born, done, {}, {})
    BY <2>4 DEF RestPre
  <2>8. QueuePre(w, q, born, done, {})
    BY DEF QueuePre
  <2> QED
    BY <2>5, <2>6, <2>7, <2>8, EffectInv
<1> QED
  BY <1>4, <1>5

\* Completing requests that one proxy holds keeps the invariant.
LEMMA CompletedInv ==
  ASSUME BrokerType, BrokerInv,
         NEW p \in Request, NEW done \in SUBSET held[p],
         NEW cleared \in SUBSET done, NEW gone \in SUBSET Request,
         \A x \in gone : x \in dying /\ held[x] \subseteq done,
         Completed(done, cleared, gone)
  PROVE  BrokerInv'
<1>1. NoProxy \notin Request
  BY RequestAssumption
<1>2. done \in SUBSET Request /\ \A r \in done : via[r] = p /\ r \in held[via[r]]
  BY DEF BrokerType, BrokerInv, HeldOk
<1>3. ASSUME NEW w \in Window, NEW i \in 1 .. Len(queue[w])
      PROVE  LET r == queue[w][i]
             IN /\ r \in Request
                /\ WindowOf[r] = w
                /\ life[r] = "alive"
                /\ i = 1 => r \in held[r] /\ via[r] = r
                /\ i > 1 => via[r] = NoProxy /\ r \notin done
                /\ i = 1 \/ i > 1
  <2> DEFINE r == queue[w][i]
  <2>1. queue[w] \in Seq(Request) /\ r \in Request /\ (i = 1 \/ i > 1)
    BY DEF BrokerType
  <2>2. /\ WindowOf[r] = w
        /\ life[r] = "alive"
        /\ i = 1 => r \in held[r]
        /\ i > 1 => via[r] = NoProxy
    BY DEF BrokerInv, QueuesOk
  <2> HIDE DEF r
  <2>3. i = 1 => via[r] = r
    BY <2>1, <2>2 DEF BrokerInv, HeldOk
  <2>4. i > 1 => r \notin done
    BY <1>1, <1>2, <2>2
  <2> QED
    BY <2>1, <2>2, <2>3, <2>4 DEF r
<1>4. CASE CompletedElsewhere(done, cleared, gone)
  <2> DEFINE w == WindowOf[p]
  <2>1. w \in Window
    BY RequestAssumption
  <2>2. queue[w] \in Seq(Request) /\ queue \in [Window -> Seq(Request)]
    BY <2>1 DEF BrokerType
  <2> HIDE DEF w
  <2>3. EffectStep(w, queue[w], {}, done, cleared, gone, {}, {}, "None")
    <3>1. queue' = queue /\ windows' = windows
      BY <1>4 DEF CompletedElsewhere, queueVars
    <3>2. queue[w] # <<>> => w \in windows'
      BY <2>1, <3>1 DEF BrokerInv, QueuesOk
    <3>3. queue' = [queue EXCEPT ![w] = queue[w]]
      BY <2>1, <2>2, <3>1
    <3>4. done \cup {} = done
      OBVIOUS
    <3> QED
      BY <1>4, <3>1, <3>2, <3>3, <3>4 DEF CompletedElsewhere, EffectStep
  <2>4. \A i \in 1 .. Len(queue[w]) : queue[w][i] \notin done
    BY <1>3, <1>4, <2>1 DEF CompletedElsewhere, IsQueued
  <2>5. RestPre(w, queue[w], {}, done, {}, {})
    <3>1. \A i, j \in 1 .. Len(queue[w]) : queue[w][i] = queue[w][j] => i = j
      BY <2>1 DEF BrokerInv, QueuesOk
    <3> QED
      BY <1>3, <2>1, <2>4, <3>1 DEF RestPre
  <2>6. QueuePre(w, queue[w], {}, done, {})
    BY DEF QueuePre
  <2>7. DonePre(w, done, gone)
    BY <1>2, <1>4 DEF DonePre, CompletedElsewhere, IsQueued
  <2>8. {} \in SUBSET Request
    OBVIOUS
  <2> QED
    BY <1>2, <2>1, <2>2, <2>3, <2>5, <2>6, <2>7, <2>8, EffectInv
<1>5. ASSUME NEW r \in done, CompletedHead(r, done, cleared, gone)
      PROVE  BrokerInv'
  <2> DEFINE w == WindowOf[r]
             q == Tail(queue[w])
  <2>1. w \in Window /\ queue[w] \in Seq(Request) /\ queue[w] # <<>>
    BY <1>2, <1>5, RequestAssumption DEF CompletedHead, IsHead, BrokerType
  <2>2. /\ q \in Seq(Request)
        /\ Len(q) = Len(queue[w]) - 1
        /\ \A i \in 1 .. Len(queue[w]) - 1 : q[i] = queue[w][i + 1]
        /\ Head(queue[w]) = queue[w][1]
        /\ Len(queue[w]) \in Nat
    BY <2>1, TailOfQueue
  <2>3. Head(queue[w]) = r /\ r = p
    BY <1>2, <1>5 DEF CompletedHead, IsHead, IsQueued
  <2>4. RunQueue(w, q, {}, done, cleared, gone)
    BY <1>5 DEF CompletedHead
  <2> HIDE DEF w, q
  <2>5. \A i \in 1 .. Len(q) : q[i] = queue[w][i + 1] /\ i + 1 \in 1 .. Len(queue[w]) /\ i + 1 > 1
    BY <2>2
  <2>6. ASSUME NEW i \in 1 .. Len(q)
        PROVE  /\ WindowOf[q[i]] = w
               /\ q[i] \notin done
               /\ life[q[i]] = "alive" \/ q[i] \in {}
               /\ (i = 1 /\ q[i] \in held[q[i]]) \/ via[q[i]] = NoProxy
    BY <1>3, <2>1, <2>5
  <2>7. \A i, j \in 1 .. Len(q) : q[i] = q[j] => i = j
    <3>1. \A i, j \in 1 .. Len(queue[w]) : queue[w][i] = queue[w][j] => i = j
      BY <2>1 DEF BrokerInv, QueuesOk
    <3>2. SUFFICES ASSUME NEW i \in 1 .. Len(q), NEW j \in 1 .. Len(q), q[i] = q[j]
                   PROVE  i = j
      OBVIOUS
    <3>3. i + 1 = j + 1
      BY <2>5, <3>1, <3>2
    <3> QED
      BY <3>3
  <2>8. \A i \in 1 .. Len(queue[w]) :
          queue[w][i] \in done \/ \E j \in 1 .. Len(q) : q[j] = queue[w][i]
    <3>1. SUFFICES ASSUME NEW i \in 1 .. Len(queue[w]), i # 1
                   PROVE  \E j \in 1 .. Len(q) : q[j] = queue[w][i]
      BY <2>2, <2>3
    <3>2. i - 1 \in 1 .. Len(q) /\ (i - 1) + 1 = i
      BY <2>2, <3>1
    <3> QED
      BY <2>5, <3>2
  <2>9. DonePre(w, done, gone)
    BY <1>2, <2>3 DEF DonePre, w
  <2>10. {} \in SUBSET Request
    OBVIOUS
  <2>11. RunPre(w, q, {}, done)
    BY <2>6, <2>7, <2>8 DEF RunPre
  <2> QED
    BY <1>2, <2>1, <2>2, <2>4, <2>9, <2>10, <2>11, RunQueueInv
<1>6. ASSUME NEW r \in done, CompletedNotFirst(r, done, cleared, gone)
      PROVE  BrokerInv'
  <2>1. r = p /\ r \in held[p]
    BY <1>2, <1>6 DEF CompletedNotFirst, IsQueued
  <2>2. IsHead(r)
    BY <2>1 DEF BrokerInv, HeldOk
  <2> QED
    BY <1>6, <2>2 DEF CompletedNotFirst
<1> QED
  BY <1>4, <1>5, <1>6 DEF Completed

\* A second reply to a sign-on request that waits for its deferred delete
\* changes nothing the invariant is about.
LEMMA SecondReplyInv ==
  ASSUME BrokerType, BrokerInv, NEW r \in SignOn, life[r] = "deleting",
         Completed({r}, {r}, {})
  PROVE  BrokerInv'
<1>1. r \in Request
  BY RequestAssumption
<1>2. \A p \in Request : r \notin held[p]
  BY DEF BrokerInv, HeldOk
<1>3. ~CompletedHead(r, {r}, {r}, {})
  <2>1. SUFFICES ASSUME IsHead(r)
                 PROVE  FALSE
    BY DEF CompletedHead
  <2>2. WindowOf[r] \in Window /\ queue[WindowOf[r]] \in Seq(Request)
    BY <1>1, RequestAssumption DEF BrokerType
  <2>3. 1 \in 1 .. Len(queue[WindowOf[r]]) /\ queue[WindowOf[r]][1] = r
    BY <2>1, <2>2, TailOfQueue DEF IsHead
  <2> QED
    BY <2>2, <2>3 DEF BrokerInv, QueuesOk
<1>4. /\ \E freed \in SUBSET {r} : Lifetime({}, freed)
      /\ Reply({r}, {r}, {})
      /\ Proxies({r}, {}, {}, {}, "None")
      /\ queue' = queue
      /\ windows \subseteq windows'
  <2>1. CompletedElsewhere({r}, {r}, {}) \/ CompletedNotFirst(r, {r}, {r}, {})
    BY <1>3 DEF Completed
  <2>2. CASE CompletedElsewhere({r}, {r}, {})
    BY <2>2 DEF CompletedElsewhere, queueVars
  <2>3. CASE CompletedNotFirst(r, {r}, {r}, {})
    BY <2>3 DEF CompletedNotFirst
  <2> QED
    BY <2>1, <2>2, <2>3
<1>5. /\ \A x \in Request : /\ life'[x] = life[x]
                            /\ via'[x] = via[x]
                            /\ status'[x] = status[x]
                            /\ x # r => replies'[x] = replies[x]
      /\ inProgress' = inProgress \ {r}
      /\ proxies' = proxies /\ dying' = dying
      /\ \A p \in timer' : p \in Request /\ (p \in timer \/ Live(p))
  BY <1>4 DEF Lifetime, Reply, Proxies, ProxyLists, TimersStarted, BrokerType
<1>6. \A x \in Request : held'[x] = held[x]
  BY <1>2, <1>4 DEF Proxies
<1>7. QueuesOk'
  <2>1. \A w \in Window : queue[w] \in Seq(Request)
    BY DEF BrokerType
  <2>2. ASSUME NEW w \in Window, NEW i \in 1 .. Len(queue[w])
        PROVE  /\ WindowOf[queue[w][i]] = w
               /\ life'[queue[w][i]] = "alive"
               /\ i = 1 => queue[w][i] \in held'[queue[w][i]]
               /\ i > 1 => via'[queue[w][i]] = NoProxy
    <3>1. queue[w][i] \in Request
      BY <2>1
    <3> QED
      BY <1>5, <1>6, <3>1 DEF BrokerInv, QueuesOk
  <2> QED
    BY <1>4, <2>2 DEF BrokerInv, QueuesOk
<1>8. HeldOk'
  <2>1. SUFFICES ASSUME NEW p \in Request, NEW x \in held'[p]
                 PROVE  /\ life'[x] = "alive"
                        /\ via'[x] = p
                        /\ x \in inProgress'
                        /\ Live(p)'
                        /\ p = x => IsHead(x)'
    BY DEF HeldOk
  <2>2. x \in held[p] /\ x \in Request /\ x # r
    BY <1>2, <1>6, <2>1 DEF BrokerType
  <2>3. life[x] = "alive" /\ via[x] = p /\ x \in inProgress /\ Live(p)
        /\ (p = x => IsHead(x))
    BY <2>2 DEF BrokerInv, HeldOk
  <2> QED
    BY <1>4, <1>5, <2>2, <2>3 DEF Live, IsHead
<1>9. AliveOk'
  <2>1. SUFFICES ASSUME NEW x \in Request, life'[x] = "alive"
                 PROVE  /\ replies'[x] = 0
                        /\ \/ via'[x] = NoProxy /\ InQueue(x)' /\ x \notin inProgress'
                           \/ via'[x] \in Request /\ x \in held'[via'[x]]
    BY DEF AliveOk
  <2>2. life[x] = "alive" /\ x # r
    BY <1>5, <2>1
  <2>3. /\ replies[x] = 0
        /\ \/ via[x] = NoProxy /\ InQueue(x) /\ x \notin inProgress
           \/ via[x] \in Request /\ x \in held[via[x]]
    BY <2>2 DEF BrokerInv, AliveOk
  <2> QED
    BY <1>4, <1>5, <1>6, <2>2, <2>3 DEF InQueue
<1>10. FreshOk'
  <2>1. \A p \in proxies \cup dying : p \in Request
    BY DEF BrokerType
  <2>2. \A p \in proxies' \cup dying' \cup timer' : Live(p)'
    BY <1>5, <2>1 DEF BrokerInv, FreshOk, Live
  <2> QED
    BY <1>5, <2>2 DEF BrokerInv, FreshOk
<1>11. AccountRequestAnsweredOnce'
  BY <1>5 DEF BrokerInv, AccountRequestAnsweredOnce
<1> QED
  BY <1>7, <1>8, <1>9, <1>10, <1>11 DEF BrokerInv

\* Steps that move proxies between the lists and leave requests alone.
LEMMA FrameInv ==
  ASSUME BrokerInv, UNCHANGED <<requestVars, queueVars, held>>,
         \A p \in Request : /\ Live(p) => Live(p)'
                            /\ status[p] = "None" => status'[p] = "None",
         \A p \in proxies' \cup dying' \cup timer' : Live(p)',
         proxies' \cap dying' = {}
  PROVE  BrokerInv'
<1> USE DEF requestVars, queueVars
<1>1. QueuesOk' /\ AliveOk' /\ AccountRequestAnsweredOnce'
  BY DEF BrokerInv, QueuesOk, AliveOk, AccountRequestAnsweredOnce, InQueue
<1>2. HeldOk'
  BY DEF BrokerInv, HeldOk, IsHead
<1>3. FreshOk'
  BY DEF BrokerInv, FreshOk
<1> QED
  BY <1>1, <1>2, <1>3 DEF BrokerInv

\* A request that arrives through the queue of its window.
LEMMA EnqueueInv ==
  ASSUME BrokerType, BrokerInv, NEW r \in Request, Enqueue(r)
  PROVE  BrokerInv'
<1> DEFINE w == WindowOf[r]
           q == Append(queue[w], r)
<1>1. w \in Window /\ queue[w] \in Seq(Request) /\ NoProxy \notin Request
  BY RequestAssumption DEF BrokerType
<1>2. /\ q \in Seq(Request)
      /\ Len(q) = Len(queue[w]) + 1
      /\ \A i \in 1 .. Len(queue[w]) : q[i] = queue[w][i]
      /\ q[Len(queue[w]) + 1] = r
      /\ Len(queue[w]) \in Nat
  BY <1>1, AppendToQueue
<1>3. life[r] = "unborn" /\ via[r] = NoProxy
  BY DEF Enqueue, MayArrive, BrokerInv, FreshOk
<1>4. RunQueue(w, q, {r}, {}, {}, {})
  BY DEF Enqueue
<1>5. WindowOf[r] = w
  OBVIOUS
<1> HIDE DEF w, q
<1>6. \A i \in 1 .. Len(queue[w]) :
        /\ WindowOf[queue[w][i]] = w
        /\ life[queue[w][i]] = "alive"
        /\ i = 1 => queue[w][i] \in held[queue[w][i]]
        /\ i > 1 => via[queue[w][i]] = NoProxy
        /\ i = 1 \/ i > 1
  BY <1>1, <1>2 DEF BrokerInv, QueuesOk
<1>7. \A i \in 1 .. Len(q) : \/ i \in 1 .. Len(queue[w]) /\ q[i] = queue[w][i]
                             \/ i = Len(queue[w]) + 1 /\ q[i] = r
  BY <1>2
<1>8. \A i, j \in 1 .. Len(q) : q[i] = q[j] => i = j
  <2>1. \A i, j \in 1 .. Len(queue[w]) : queue[w][i] = queue[w][j] => i = j
    BY <1>1 DEF BrokerInv, QueuesOk
  <2>2. \A i \in 1 .. Len(queue[w]) : queue[w][i] # r
    BY <1>3, <1>6
  <2> QED
    BY <1>7, <2>1, <2>2
<1>9. RunPre(w, q, {r}, {})
  <2>1. \A i \in 1 .. Len(q) :
          /\ WindowOf[q[i]] = w
          /\ q[i] \notin {}
          /\ life[q[i]] = "alive" \/ q[i] \in {r}
          /\ (i = 1 /\ q[i] \in held[q[i]]) \/ via[q[i]] = NoProxy
    BY <1>3, <1>5, <1>6, <1>7
  <2>2. \A i \in 1 .. Len(queue[w]) : i \in 1 .. Len(q) /\ q[i] = queue[w][i]
    BY <1>2
  <2>3. Len(queue[w]) + 1 \in 1 .. Len(q)
    BY <1>2
  <2> QED
    BY <1>2, <1>3, <1>8, <2>1, <2>2, <2>3 DEF RunPre
<1>10. DonePre(w, {}, {})
  BY DEF DonePre
<1> QED
  BY <1>1, <1>2, <1>4, <1>9, <1>10, RunQueueInv

\* A request that arrives through a handler.
LEMMA HandOverInv ==
  ASSUME BrokerType, BrokerInv, NEW r \in Request, NEW p \in proxies,
         HandOver(r, p)
  PROVE  BrokerInv'
<1>1. p \in Request /\ NoProxy \notin Request
  BY RequestAssumption DEF BrokerType
<1>2. life[r] = "unborn" /\ via[r] = NoProxy /\ replies[r] = 0 /\ status[r] = "None"
  BY DEF HandOver, MayArrive, BrokerInv, FreshOk
<1>3. Live(p) /\ p # r
  BY <1>2 DEF BrokerInv, FreshOk, Live
<1>4. /\ \A x \in Request : /\ life'[x] = IF x = r THEN "alive" ELSE life[x]
                            /\ via'[x] = IF x = r THEN p ELSE via[x]
                            /\ x # p => held'[x] = held[x]
      /\ held'[p] = held[p] \cup {r}
      /\ inProgress' = inProgress \cup {r}
      /\ UNCHANGED <<replies, queue, windows, status, proxies, dying, timer>>
  BY <1>1 DEF HandOver, Lifetime, BrokerType, queueVars
<1>5. \A w \in Window : \A i \in 1 .. Len(queue[w]) :
        queue[w][i] \in Request /\ queue[w][i] # r
  <2>1. \A w \in Window : queue[w] \in Seq(Request)
    BY DEF BrokerType
  <2> QED
    BY <1>2, <2>1 DEF BrokerInv, QueuesOk
<1>6. \A x, y \in Request : x # r => (x \in held'[y] <=> x \in held[y])
  BY <1>1, <1>4
<1>7. QueuesOk'
  <2>1. \A w \in Window : \A i \in 1 .. Len(queue[w]) :
          /\ WindowOf[queue[w][i]] = w
          /\ life'[queue[w][i]] = "alive"
          /\ i = 1 => queue[w][i] \in held'[queue[w][i]]
          /\ i > 1 => via'[queue[w][i]] = NoProxy
    BY <1>4, <1>5, <1>6 DEF BrokerInv, QueuesOk
  <2> QED
    BY <1>4, <2>1 DEF BrokerInv, QueuesOk
<1>8. HeldOk'
  <2>1. SUFFICES ASSUME NEW y \in Request, NEW x \in held'[y]
                 PROVE  /\ life'[x] = "alive"
                        /\ via'[x] = y
                        /\ x \in inProgress'
                        /\ Live(y)'
                        /\ y = x => IsHead(x)'
    BY DEF HeldOk
  <2>2. CASE x = r
    <3>1. y = p
      <4>1. SUFFICES ASSUME y # p
                     PROVE  FALSE
        OBVIOUS
      <4>2. r \in held[y]
        BY <1>4, <2>2, <4>1
      <4> QED
        BY <1>2, <4>2 DEF BrokerInv, HeldOk
    <3> QED
      BY <1>3, <1>4, <2>2, <3>1 DEF Live
  <2>3. CASE x # r
    <3>1. x \in held[y] /\ x \in Request
      BY <1>4, <2>3 DEF BrokerType
    <3>2. /\ life[x] = "alive" /\ via[x] = y /\ x \in inProgress /\ Live(y)
          /\ y = x => IsHead(x)
      BY <3>1 DEF BrokerInv, HeldOk
    <3> QED
      BY <1>4, <2>3, <3>1, <3>2 DEF Live, IsHead
  <2> QED
    BY <2>2, <2>3
<1>9. AliveOk'
  <2>1. SUFFICES ASSUME NEW x \in Request, life'[x] = "alive"
                 PROVE  /\ replies'[x] = 0
                        /\ \/ via'[x] = NoProxy /\ InQueue(x)' /\ x \notin inProgress'
                           \/ via'[x] \in Request /\ x \in held'[via'[x]]
    BY DEF AliveOk
  <2>2. CASE x = r
    BY <1>1, <1>2, <1>4, <2>2
  <2>3. CASE x # r
    <3>1. /\ replies[x] = 0
          /\ \/ via[x] = NoProxy /\ InQueue(x) /\ x \notin inProgress
             \/ via[x] \in Request /\ x \in held[via[x]]
      BY <1>4, <2>1, <2>3 DEF BrokerInv, AliveOk
    <3> QED
      BY <1>4, <1>6, <2>3, <3>1 DEF InQueue
  <2> QED
    BY <2>2, <2>3
<1>10. FreshOk'
  BY <1>1, <1>2, <1>4 DEF BrokerInv, FreshOk, Live
<1>11. AccountRequestAnsweredOnce'
  BY <1>2, <1>4 DEF BrokerInv, AccountRequestAnsweredOnce
<1> QED
  BY <1>7, <1>8, <1>9, <1>10, <1>11 DEF BrokerInv

\* The deferred delete of a request touches only its own object.
LEMMA DeleteRequestInv ==
  ASSUME BrokerType, BrokerInv, NEW r \in Request, DeleteRequest(r)
  PROVE  BrokerInv'
<1>1. /\ life[r] = "deleting"
      /\ \A x \in Request : life'[x] = IF x = r THEN "deleted" ELSE life[x]
      /\ inProgress' = inProgress \ {r}
      /\ UNCHANGED <<replies, via, queue, windows, held, status, proxies, dying, timer>>
  BY DEF DeleteRequest, queueVars, proxyVars, BrokerType
<1>2. \A w \in Window : \A i \in 1 .. Len(queue[w]) :
        queue[w][i] \in Request /\ queue[w][i] # r
  <2>1. \A w \in Window : queue[w] \in Seq(Request)
    BY DEF BrokerType
  <2> QED
    BY <1>1, <2>1 DEF BrokerInv, QueuesOk
<1>3. QueuesOk'
  BY <1>1, <1>2 DEF BrokerInv, QueuesOk
<1>4. \A p \in Request : \A x \in held[p] : x \in Request /\ x # r
  BY <1>1 DEF BrokerType, BrokerInv, HeldOk
<1>5. HeldOk'
  BY <1>1, <1>4 DEF BrokerInv, HeldOk, Live, IsHead
<1>6. AliveOk'
  BY <1>1 DEF BrokerInv, AliveOk, InQueue
<1>7. FreshOk'
  BY <1>1 DEF BrokerInv, FreshOk, Live
<1>8. AccountRequestAnsweredOnce'
  BY <1>1 DEF BrokerInv, AccountRequestAnsweredOnce
<1> QED
  BY <1>3, <1>5, <1>6, <1>7, <1>8 DEF BrokerInv

LEMMA BrokerInit == Init => BrokerInv
<1> SUFFICES ASSUME Init
             PROVE  BrokerInv
  OBVIOUS
<1>1. QueuesOk
  BY DEF Init, QueuesOk
<1>2. HeldOk /\ AliveOk /\ FreshOk
  BY DEF Init, HeldOk, AliveOk, FreshOk
<1>3. AccountRequestAnsweredOnce
  BY DEF Init, AccountRequestAnsweredOnce
<1> QED
  BY <1>1, <1>2, <1>3 DEF BrokerInv

\* Every action keeps the invariant.
LEMMA BrokerInvStep == TypeOK /\ BrokerInv /\ [Next]_vars => BrokerInv'
<1> SUFFICES ASSUME TypeOK, BrokerInv, [Next]_vars
             PROVE  BrokerInv'
  OBVIOUS
<1>0. BrokerType
  BY TypeSplit
<1> USE DEF proxyVars
<1>1. /\ \A p \in proxies \cup dying \cup timer : Live(p)
      /\ proxies \cap dying = {}
  BY DEF BrokerInv, FreshOk
<1>2. ASSUME NEW r \in Request, CancelUiRequest(r)
      PROVE  BrokerInv'
  <2>1. /\ life[r] \in {"alive", "deleting"} /\ r \in inProgress /\ r \in SignOn
        /\ Completed({r}, {r}, {})
    BY <1>2 DEF CancelUiRequest, MayCancel
  <2>2. CASE life[r] = "alive"
    <3>1. via[r] \in Request /\ r \in held[via[r]]
      BY <2>1, <2>2 DEF BrokerInv, AliveOk
    <3>2. {r} \in SUBSET held[via[r]] /\ {r} \in SUBSET {r} /\ {} \in SUBSET Request
      BY <3>1
    <3> QED
      BY <1>0, <2>1, <3>1, <3>2, CompletedInv
  <2>3. CASE life[r] = "deleting"
    BY <1>0, <2>1, <2>3, SecondReplyInv
  <2> QED
    BY <2>1, <2>2, <2>3
<1>3. ASSUME NEW p \in Request, OnNewConnection(p)
      PROVE  BrokerInv'
  <2>1. /\ status[p] = "Loading"
        /\ \A x \in Request : status'[x] = IF x = p THEN "Ready" ELSE status[x]
        /\ UNCHANGED <<requestVars, queueVars, held, proxies, dying, timer>>
    BY <1>0, <1>3 DEF OnNewConnection, BrokerType
  <2>2. \A x \in Request : /\ Live(x) => Live(x)'
                           /\ status[x] = "None" => status'[x] = "None"
    BY <2>1 DEF Live
  <2>3. \A x \in proxies' \cup dying' \cup timer' : Live(x)'
    BY <1>0, <1>1, <2>1, <2>2 DEF BrokerType
  <2> QED
    BY <1>1, <2>1, <2>2, <2>3, FrameInv
<1>4. ASSUME NEW p \in Request, OnDataReady(p)
      PROVE  BrokerInv'
  <2> DEFINE m == Head(inbox[p])
  <2>1. \/ OnRegisterHandler(p, m)
        \/ OnAnswer(p, m)
        \/ OnStaleAnswer(p, m)
    BY <1>4 DEF OnDataReady
  <2> HIDE DEF m
  <2>2. CASE UNCHANGED <<requestVars, queueVars, proxyVars>>
    <3>1. \A x \in Request : /\ Live(x) => Live(x)'
                             /\ status[x] = "None" => status'[x] = "None"
      BY <2>2 DEF Live
    <3>2. \A x \in proxies' \cup dying' \cup timer' : Live(x)'
      BY <1>0, <1>1, <2>2, <3>1 DEF BrokerType
    <3> QED
      BY <1>1, <2>2, <3>1, <3>2, FrameInv
  <2>3. CASE m.req \in held[p] /\ Completed({m.req}, ClearedBy(m), {})
    <3>1. /\ {m.req} \in SUBSET held[p]
          /\ ClearedBy(m) \in SUBSET {m.req}
          /\ {} \in SUBSET Request
      BY <2>3 DEF ClearedBy
    <3> QED
      BY <1>0, <2>3, <3>1, CompletedInv
  <2>4. UNCHANGED <<requestVars, queueVars, proxyVars>>
        \/ (m.req \in held[p] /\ Completed({m.req}, ClearedBy(m), {}))
    BY <2>1 DEF OnRegisterHandler, OnAnswer, OnStaleAnswer
  <2> QED
    BY <2>2, <2>3, <2>4
<1>5. ASSUME NEW p \in Request, Live(p),
             UNCHANGED <<requestVars, queueVars, held, status>>,
             timer' \subseteq timer,
             Finished(p) \/ UNCHANGED <<proxies, dying>>
      PROVE  BrokerInv'
  <2>1. \A x \in Request : /\ Live(x) => Live(x)'
                           /\ status[x] = "None" => status'[x] = "None"
    BY <1>5 DEF Live
  <2>2. \A x \in proxies' \cup dying' \cup timer' : Live(x)'
    BY <1>0, <1>1, <1>5, <2>1 DEF BrokerType, Finished
  <2>3. proxies' \cap dying' = {}
    BY <1>1, <1>5 DEF Finished
  <2> QED
    BY <1>5, <2>1, <2>2, <2>3, FrameInv
<1>6. ASSUME NEW p \in Request, OnDisconnected(p)
      PROVE  BrokerInv'
  <2>1. Live(p)
    BY <1>6 DEF OnDisconnected, Live
  <2> QED
    BY <1>5, <1>6, <2>1 DEF OnDisconnected
<1>7. ASSUME NEW p \in Request, OnFinishedTimer(p)
      PROVE  BrokerInv'
  <2>1. Live(p)
    BY <1>1, <1>7 DEF OnFinishedTimer
  <2> QED
    BY <1>5, <1>7, <2>1 DEF OnFinishedTimer
<1>8. ASSUME NEW p \in Request, OnPromptSessionFinished(p)
      PROVE  BrokerInv'
  <2>1. Live(p)
    BY <1>1, <1>8 DEF OnPromptSessionFinished
  <2> QED
    BY <1>5, <1>8, <2>1 DEF OnPromptSessionFinished
<1>9. ASSUME NEW p \in Request, DeleteProxy(p)
      PROVE  BrokerInv'
  <2>1. p \in dying /\ Completed(CancelledBy(p), CancelledBy(p), {p})
    BY <1>9 DEF DeleteProxy
  <2>2. CancelledBy(p) = held[p]
    BY <1>0 DEF BrokerInv, HeldOk, CancelledBy, BrokerType
  <2>3. \A x \in {p} : x \in dying /\ held[x] \subseteq CancelledBy(p)
    BY <2>1, <2>2
  <2>4. CancelledBy(p) \in SUBSET held[p] /\ {p} \in SUBSET Request
    BY <2>2
  <2> QED
    BY <1>0, <2>1, <2>3, <2>4, CompletedInv
<1>10. ASSUME NEW p \in Request, UiStep(p) \/ UNCHANGED vars
       PROVE  BrokerInv'
  <2>1. UNCHANGED <<requestVars, queueVars, proxyVars>>
    BY <1>10 DEF UiStep, UiAnswer, UiRegister, UiExit, vars
  <2>2. \A x \in Request : /\ Live(x) => Live(x)'
                           /\ status[x] = "None" => status'[x] = "None"
    BY <2>1 DEF Live
  <2>3. \A x \in proxies' \cup dying' \cup timer' : Live(x)'
    BY <1>0, <1>1, <2>1, <2>2 DEF BrokerType
  <2> QED
    BY <1>1, <2>1, <2>2, <2>3, FrameInv
<1>11. CASE UNCHANGED vars
  <2>1. UNCHANGED <<requestVars, queueVars, proxyVars>>
    BY <1>11 DEF vars
  <2>2. \A x \in Request : /\ Live(x) => Live(x)'
                           /\ status[x] = "None" => status'[x] = "None"
    BY <2>1 DEF Live
  <2>3. \A x \in proxies' \cup dying' \cup timer' : Live(x)'
    BY <1>0, <1>1, <2>1, <2>2 DEF BrokerType
  <2> QED
    BY <1>1, <2>1, <2>2, <2>3, FrameInv
<1>12. ASSUME NEW r \in Request, RequestStep(r)
       PROVE  BrokerInv'
  BY <1>0, <1>2, <1>12, EnqueueInv, HandOverInv, DeleteRequestInv DEF RequestStep
<1>13. ASSUME NEW p \in Request, ProxyStep(p)
       PROVE  BrokerInv'
  BY <1>3, <1>4, <1>6, <1>7, <1>8, <1>9, <1>13 DEF ProxyStep
<1> QED
  BY <1>10, <1>11, <1>12, <1>13 DEF Next

\* IInv is inductive.
THEOREM IInvCorrect == Spec => []IInv
<1>1. Init => TypeOK /\ BrokerInv
  BY TypeInit, BrokerInit
<1>2. (TypeOK /\ BrokerInv) /\ [Next]_vars => (TypeOK /\ BrokerInv)'
  BY TypeStep, BrokerInvStep
<1>3. TypeOK /\ BrokerInv => IInv
  BY DEF BrokerInv, IInv
<1> QED
  BY <1>1, <1>2, <1>3, PTL DEF Spec

\* The head of every window's queue, and only the head, is being served.
THEOREM HeadIsServedCorrect == Spec => []HeadIsServed
<1>1. IInv => HeadIsServed
  <2>1. SUFFICES ASSUME IInv, NEW w \in Window, NEW i \in 1 .. Len(queue[w])
                 PROVE  LET r == queue[w][i]
                        IN IF i = 1
                           THEN r \in inProgress /\ r \in held[r] /\ via[r] = r /\ Live(r)
                           ELSE r \notin inProgress /\ via[r] = NoProxy
    BY DEF HeadIsServed
  <2> DEFINE r == queue[w][i]
  <2>2. queue[w] \in Seq(Request) /\ r \in Request /\ NoProxy \notin Request
    BY <2>1, RequestAssumption DEF IInv, TypeOK
  <2>3. /\ life[r] = "alive"
        /\ i = 1 => r \in held[r]
        /\ i # 1 => via[r] = NoProxy
    BY <2>1, <2>2 DEF IInv, QueuesOk
  <2> HIDE DEF r
  <2>4. i = 1 => r \in inProgress /\ via[r] = r /\ Live(r)
    BY <2>1, <2>2, <2>3 DEF IInv, HeldOk
  <2>5. i # 1 => r \notin inProgress
    BY <2>1, <2>2, <2>3 DEF IInv, AliveOk
  <2> QED
    BY <2>3, <2>4, <2>5 DEF r
<1> QED
  BY <1>1, IInvCorrect, PTL

\* No request that was accepted is ever dropped without a reply.
THEOREM NoOrphanCorrect == Spec => []NoOrphan
<1>1. IInv => NoOrphan
  <2>1. SUFFICES ASSUME IInv, NEW r \in Request, life[r] = "alive"
                 PROVE  /\ replies[r] = 0
                        /\ \/ \E i \in 1 .. Len(queue[WindowOf[r]]) : queue[WindowOf[r]][i] = r
                           \/ via[r] \in Request /\ r \in held[via[r]]
                        /\ via[r] \in Request => Live(via[r]) /\ r \in inProgress
    BY DEF NoOrphan
  <2>2. NoProxy \notin Request
    BY RequestAssumption
  <2>3. /\ replies[r] = 0
        /\ \/ via[r] = NoProxy /\ InQueue(r) /\ r \notin inProgress
           \/ via[r] \in Request /\ r \in held[via[r]]
    BY <2>1 DEF IInv, AliveOk
  <2>4. via[r] \in Request => Live(via[r]) /\ r \in inProgress
    BY <2>1, <2>2, <2>3 DEF IInv, HeldOk
  <2> QED
    BY <2>3, <2>4 DEF InQueue
<1> QED
  BY <1>1, IInvCorrect, PTL

\* A requestAccess call is answered exactly once.
THEOREM AnsweredOnceCorrect == Spec => []AccountRequestAnsweredOnce
<1>1. IInv => AccountRequestAnsweredOnce
  BY DEF IInv
<1> QED
  BY <1>1, IInvCorrect, PTL

\* The manager is never idle while a queue has a request in it.
THEOREM QueuedMeansNotIdleCorrect == Spec => []QueuedMeansNotIdle
<1>1. IInv => QueuedMeansNotIdle
  BY DEF IInv, QueuesOk, QueuedMeansNotIdle
<1> QED
  BY <1>1, IInvCorrect, PTL

-----------------------------------------------------------------------------
(***************************************************************************)
(* What a connected UI process knows.                                      *)
(***************************************************************************)

\* r is known to the UI process of p, or its answer is on the way.
Known(p, r) ==
  \/ r \in uiWork[p]
  \/ \E i \in 1 .. Len(inbox[p]) :
       inbox[p][i].code # "registerHandler" /\ inbox[p][i].req = r

\* Running a queue connects no proxy, and takes what is done from the others.
LEMMA RunQueueReady ==
  ASSUME BrokerType, NEW w, NEW q, NEW born, NEW done, NEW cleared, NEW gone,
         RunQueue(w, q, born, done, cleared, gone), NEW p \in Request,
         status'[p] = "Ready"
  PROVE  status[p] = "Ready" /\ held'[p] = held[p] \ done
<1>1. CASE MustServe(q, inProgress \ cleared)
  <2>1. PICK k \in InitFailures(q), outcome \in StartOutcome :
          LET refused == {q[i] : i \in 1 .. k}
              rest    == SubSeq(q, k + 1, Len(q))
              started == IF rest = <<>> THEN {} ELSE {Head(rest)}
          IN Proxies(done, gone, refused, started, outcome)
    BY <1>1 DEF RunQueue
  <2>2. outcome # "Ready"
    BY DEF StartOutcome
  <2> DEFINE refused == {q[i] : i \in 1 .. k}
             rest    == SubSeq(q, k + 1, Len(q))
             started == IF rest = <<>> THEN {} ELSE {Head(rest)}
  <2>3. Proxies(done, gone, refused, started, outcome)
    BY <2>1
  <2> HIDE DEF refused, rest, started
  <2> QED
    BY <2>2, <2>3 DEF Proxies
<1>2. CASE ~MustServe(q, inProgress \ cleared)
  <2>1. Proxies(done, gone, {}, {}, "None")
    BY <1>2 DEF RunQueue
  <2> QED
    BY <2>1 DEF Proxies
<1> QED
  BY <1>1, <1>2

LEMMA CompletedReady ==
  ASSUME BrokerType, NEW done, NEW cleared, NEW gone,
         Completed(done, cleared, gone), NEW p \in Request,
         status'[p] = "Ready"
  PROVE  status[p] = "Ready" /\ held'[p] = held[p] \ done
<1>1. CASE Proxies(done, gone, {}, {}, "None")
  BY <1>1 DEF Proxies
<1>2. ASSUME NEW r \in done, CompletedHead(r, done, cleared, gone)
      PROVE  status[p] = "Ready" /\ held'[p] = held[p] \ done
  BY <1>2, RunQueueReady DEF CompletedHead
<1> QED
  BY <1>1, <1>2 DEF Completed, CompletedElsewhere, CompletedNotFirst

\* Sending a message and reading one: only the message read is forgotten.
LEMMA SendKnown ==
  ASSUME UiType, NEW p \in Request, NEW m \in Message, Send(p, m),
         NEW x \in Request, NEW i \in 1 .. Len(inbox[x])
  PROVE  i \in 1 .. Len(inbox'[x]) /\ inbox'[x][i] = inbox[x][i]
<1>1. inbox[x] \in Seq(Message)
  BY DEF UiType
<1>2. inbox'[x] = IF x = p THEN Append(inbox[x], m) ELSE inbox[x]
  BY DEF Send, UiType
<1> QED
  BY <1>1, <1>2, AppendToQueue

LEMMA ReadKnown ==
  ASSUME UiType, NEW p \in Request, inbox[p] # <<>>,
         inbox' = [inbox EXCEPT ![p] = Tail(@)], uiWork' = uiWork,
         NEW x \in Request, NEW r, Known(x, r),
         \/ x # p
         \/ Head(inbox[p]).code = "registerHandler"
         \/ Head(inbox[p]).req # r
  PROVE  Known(x, r)'
<1>1. inbox[x] \in Seq(Message) /\ inbox[p] \in Seq(Message)
  BY DEF UiType
<1>2. CASE r \in uiWork[x] \/ x # p
  <2>1. inbox'[x] = IF x = p THEN Tail(inbox[x]) ELSE inbox[x]
    BY DEF UiType
  <2> QED
    BY <1>2, <2>1 DEF Known
<1>3. CASE r \notin uiWork[x] /\ x = p
  <2>1. inbox'[p] = Tail(inbox[p])
    BY DEF UiType
  <2>2. /\ Len(Tail(inbox[p])) = Len(inbox[p]) - 1
        /\ \A i \in 1 .. Len(inbox[p]) - 1 : Tail(inbox[p])[i] = inbox[p][i + 1]
        /\ Head(inbox[p]) = inbox[p][1]
        /\ Len(inbox[p]) \in Nat
    BY <1>1, TailOfQueue
  <2>3. PICK i \in 1 .. Len(inbox[p]) :
          inbox[p][i].code # "registerHandler" /\ inbox[p][i].req = r
    BY <1>3 DEF Known
  <2>4. i # 1
    BY <1>3, <2>2, <2>3
  <2>5. i - 1 \in 1 .. Len(inbox[p]) - 1 /\ (i - 1) + 1 = i
    BY <2>2, <2>4
  <2>6. Tail(inbox[p])[i - 1] = inbox[p][i] /\ i - 1 \in 1 .. Len(Tail(inbox[p]))
    BY <2>2, <2>5
  <2> QED
    BY <1>3, <2>1, <2>3, <2>6 DEF Known
<1> QED
  BY <1>2, <1>3

\* Every action keeps UiKnowsHeldRequests.
LEMMA UiKnowsStep == IInv /\ UiKnowsHeldRequests /\ [Next]_vars => UiKnowsHeldRequests'
<1> SUFFICES ASSUME IInv, UiKnowsHeldRequests, [Next]_vars,
                    NEW x \in Request, status'[x] = "Ready", x \notin exited',
                    NEW r \in held'[x]
             PROVE  Known(x, r)'
  BY DEF UiKnowsHeldRequests, Known
<1>0. BrokerType /\ UiType
  BY TypeSplit DEF IInv
<1>1. status[x] = "Ready" /\ x \notin exited /\ r \in held[x] => Known(x, r)
  BY DEF UiKnowsHeldRequests, Known
<1>2. CASE /\ status[x] = "Ready" /\ x \notin exited /\ r \in held[x]
           /\ uiWork' = uiWork /\ inbox' = inbox
  BY <1>1, <1>2 DEF Known
<1>3. ASSUME NEW p \in Request, Enqueue(p)
      PROVE  Known(x, r)'
  BY <1>0, <1>2, <1>3, RunQueueReady DEF Enqueue, uiVars
<1>4. ASSUME NEW s \in Request, NEW p \in proxies, HandOver(s, p)
      PROVE  Known(x, r)'
  <2>1. p \in Request
    BY <1>0 DEF BrokerType
  <2>2. /\ status' = status /\ exited' = exited /\ inbox' = inbox
        /\ held'[x] = IF x = p THEN held[x] \cup {s} ELSE held[x]
    BY <1>0, <1>4, <2>1 DEF HandOver, BrokerType
  <2>3. /\ uiWork[x] \subseteq uiWork'[x]
        /\ x = p => s \in uiWork'[x]
    BY <1>0, <1>4, <2>1, <2>2 DEF HandOver, UiType
  <2>4. CASE r \in held[x]
    BY <1>1, <2>2, <2>3, <2>4 DEF Known
  <2>5. CASE r \notin held[x]
    BY <2>2, <2>3, <2>5 DEF Known
  <2> QED
    BY <2>4, <2>5
<1>5. ASSUME NEW s \in Request, CancelUiRequest(s)
      PROVE  Known(x, r)'
  BY <1>0, <1>2, <1>5, CompletedReady DEF CancelUiRequest, uiVars
<1>6. ASSUME NEW s \in Request, DeleteRequest(s)
      PROVE  Known(x, r)'
  BY <1>2, <1>6 DEF DeleteRequest, uiVars, proxyVars
<1>7. ASSUME NEW p \in Request, OnNewConnection(p)
      PROVE  Known(x, r)'
  <2>1. /\ held' = held /\ inbox' = inbox /\ exited' = exited
        /\ status'[x] = IF x = p THEN "Ready" ELSE status[x]
        /\ uiWork'[x] = IF x = p THEN held[x] ELSE uiWork[x]
    BY <1>0, <1>7 DEF OnNewConnection, PendingRequests, BrokerType, UiType
  <2> QED
    BY <1>1, <2>1 DEF Known
<1>8. ASSUME NEW p \in Request, OnDataReady(p)
      PROVE  Known(x, r)'
  <2> DEFINE m == Head(inbox[p])
  <2>1. /\ inbox[p] # <<>>
        /\ inbox' = [inbox EXCEPT ![p] = Tail(@)]
        /\ UNCHANGED <<exited, uiWork>>
        /\ \/ m.code = "registerHandler" /\ OnRegisterHandler(p, m)
           \/ m.code # "registerHandler" /\ OnAnswer(p, m)
           \/ m.code # "registerHandler" /\ OnStaleAnswer(p, m)
    BY <1>8 DEF OnDataReady
  <2>2. ASSUME /\ status[x] = "Ready" /\ r \in held[x]
               /\ m.code = "registerHandler" \/ m.req # r \/ x # p
        PROVE  Known(x, r)'
    <3>1. Known(x, r)
      BY <1>1, <2>1, <2>2
    <3> QED
      BY <1>0, <2>1, <2>2, <3>1, ReadKnown
  <2> HIDE DEF m
  <2>3. CASE m.code = "registerHandler" /\ OnRegisterHandler(p, m)
    BY <2>2, <2>3 DEF OnRegisterHandler, proxyVars
  <2>4. CASE OnAnswer(p, m)
    <3>1. m.req \in held[p] /\ m.req \in inProgress
      BY <2>4 DEF OnAnswer, IInv, HeldOk
    <3>2. Completed({m.req}, ClearedBy(m), {})
      BY <2>4, <3>1 DEF OnAnswer
    <3>3. status[x] = "Ready" /\ held'[x] = held[x] \ {m.req}
      BY <1>0, <3>2, CompletedReady
    <3> QED
      BY <2>2, <3>3
  <2>5. CASE OnStaleAnswer(p, m)
    BY <2>2, <2>5 DEF OnStaleAnswer, proxyVars
  <2> QED
    BY <2>1, <2>3, <2>4, <2>5
<1>9. ASSUME NEW p \in Request,
             OnDisconnected(p) \/ OnFinishedTimer(p) \/ OnPromptSessionFinished(p)
      PROVE  Known(x, r)'
  BY <1>2, <1>9 DEF OnDisconnected, OnFinishedTimer, OnPromptSessionFinished, uiVars
<1>10. ASSUME NEW p \in Request, DeleteProxy(p)
       PROVE  Known(x, r)'
  <2>1. x # p /\ x \notin exited
    BY <1>10 DEF DeleteProxy
  <2>2. uiWork'[x] = uiWork[x] /\ inbox'[x] = inbox[x]
    BY <1>0, <1>10, <2>1 DEF DeleteProxy, UiType
  <2>3. status[x] = "Ready" /\ r \in held[x]
    BY <1>0, <1>10, CompletedReady DEF DeleteProxy
  <2> QED
    BY <1>1, <2>1, <2>2, <2>3 DEF Known
<1>11. ASSUME NEW p \in Request, NEW s \in uiWork[p],
              NEW code \in {"finished", "failed"}, UiAnswer(p, s, code)
       PROVE  Known(x, r)'
  <2> DEFINE m == [code |-> code, req |-> s]
  <2>1. m \in Message /\ m.code # "registerHandler" /\ m.req = s
    BY <1>0 DEF UiType, Message, Answer
  <2>2. /\ Send(p, m) /\ status' = status /\ held' = held /\ exited' = exited
        /\ uiWork' = [uiWork EXCEPT ![p] = @ \ {s}]
    BY <1>11 DEF UiAnswer, Unanswered, proxyVars
  <2> HIDE DEF m
  <2>3. Known(x, r)
    BY <1>1, <2>2
  <2>4. CASE r \in uiWork[x] /\ x = p /\ r = s
    <3>1. inbox[p] \in Seq(Message) /\ inbox'[p] = Append(inbox[p], m)
      BY <1>0, <2>2 DEF Send, UiType
    <3>2. Len(inbox'[p]) \in 1 .. Len(inbox'[p]) /\ inbox'[p][Len(inbox'[p])] = m
      BY <2>1, <3>1, AppendToQueue
    <3> QED
      BY <2>1, <2>4, <3>2 DEF Known
  <2>5. CASE r \in uiWork[x] /\ ~(x = p /\ r = s)
    <3>1. r \in uiWork'[x]
      BY <1>0, <2>2, <2>5 DEF UiType
    <3> QED
      BY <3>1 DEF Known
  <2>6. CASE r \notin uiWork[x]
    <3>1. PICK i \in 1 .. Len(inbox[x]) :
            inbox[x][i].code # "registerHandler" /\ inbox[x][i].req = r
      BY <2>3, <2>6 DEF Known
    <3>2. i \in 1 .. Len(inbox'[x]) /\ inbox'[x][i] = inbox[x][i]
      BY <1>0, <2>1, <2>2, SendKnown
    <3> QED
      BY <3>1, <3>2 DEF Known
  <2> QED
    BY <2>4, <2>5, <2>6
<1>12. ASSUME NEW p \in Request, NEW h \in Handler, UiRegister(p, h)
       PROVE  Known(x, r)'
  <2> DEFINE m == [code |-> "registerHandler", handler |-> h]
  <2>1. m \in Message
    BY DEF Message, Register
  <2>2. /\ Send(p, m) /\ status' = status /\ held' = held /\ exited' = exited
        /\ uiWork' = uiWork
    BY <1>12 DEF UiRegister, proxyVars
  <2> HIDE DEF m
  <2>3. Known(x, r)
    BY <1>1, <2>2
  <2>4. CASE r \in uiWork[x]
    BY <2>2, <2>4 DEF Known
  <2>5. CASE r \notin uiWork[x]
    <3>1. PICK i \in 1 .. Len(inbox[x]) :
            inbox[x][i].code # "registerHandler" /\ inbox[x][i].req = r
      BY <2>3, <2>5 DEF Known
    <3>2. i \in 1 .. Len(inbox'[x]) /\ inbox'[x][i] = inbox[x][i]
      BY <1>0, <2>1, <2>2, SendKnown
    <3> QED
      BY <3>1, <3>2 DEF Known
  <2> QED
    BY <2>4, <2>5
<1>13. ASSUME NEW p \in Request, UiExit(p)
       PROVE  Known(x, r)'
  <2>1. x # p /\ x \notin exited
    BY <1>13 DEF UiExit
  <2>2. /\ uiWork'[x] = uiWork[x] /\ inbox' = inbox
        /\ status' = status /\ held' = held
    BY <1>0, <1>13, <2>1 DEF UiExit, UiType, proxyVars
  <2> QED
    BY <1>1, <2>1, <2>2 DEF Known
<1>14. CASE UNCHANGED vars
  BY <1>2, <1>14 DEF vars, uiVars, proxyVars
<1> QED
  BY <1>3, <1>4, <1>5, <1>6, <1>7, <1>8, <1>9, <1>10, <1>11, <1>12, <1>13, <1>14
  DEF Next, RequestStep, ProxyStep, UiStep

\* A connected UI process has been sent every request its proxy holds, however
\* handleRequest, onNewConnection and the answers interleave.
THEOREM UiKnowsHeldRequestsCorrect == Spec => []UiKnowsHeldRequests
<1>1. Init => UiKnowsHeldRequests
  BY DEF Init, UiKnowsHeldRequests
<1> QED
  BY <1>1, UiKnowsStep, IInvCorrect, PTL DEF Spec

-----------------------------------------------------------------------------
(***************************************************************************)
(* RequestManager implements WindowQueues.                                 *)
(***************************************************************************)

\* An object that waits for its deferred delete, or is gone, was answered.
GoneAnswered ==
  \A r \in Request : life[r] \in {"deleting", "deleted"} => replies[r] > 0

\* No reply is taken back, and an object is freed in the step that answers it.
Answering ==
  \A r \in Request : /\ replies'[r] \in {replies[r], replies[r] + 1}
                     /\ life'[r] = "deleting" =>
                          life[r] = "deleting" \/ replies'[r] = replies[r] + 1
                     /\ life'[r] = "deleted" => life[r] \in {"deleting", "deleted"}

LEMMA RunQueueAnswering ==
  ASSUME BrokerType, NEW w, NEW q, NEW born, NEW done, NEW cleared, NEW gone,
         RunQueue(w, q, born, done, cleared, gone)
  PROVE  Answering
<1>1. ASSUME NEW freed, NEW started, Lifetime(born, freed), Reply(freed, cleared, started)
      PROVE  Answering
  BY <1>1 DEF Lifetime, Reply, Answering, BrokerType
<1>2. CASE MustServe(q, inProgress \ cleared)
  <2>1. PICK k \in InitFailures(q), outcome \in StartOutcome :
          LET refused == {q[i] : i \in 1 .. k}
              rest    == SubSeq(q, k + 1, Len(q))
              started == IF rest = <<>> THEN {} ELSE {Head(rest)}
          IN /\ Lifetime(born, done \cup refused)
             /\ Reply(done \cup refused, cleared, started)
    BY <1>2 DEF RunQueue
  <2> QED
    BY <1>1, <2>1
<1>3. CASE ~MustServe(q, inProgress \ cleared)
  BY <1>1, <1>3 DEF RunQueue
<1> QED
  BY <1>2, <1>3

LEMMA CompletedAnswering ==
  ASSUME BrokerType, NEW done, NEW cleared, NEW gone, Completed(done, cleared, gone)
  PROVE  Answering
<1>1. ASSUME NEW freed \in SUBSET done, Lifetime({}, freed), Reply(done, cleared, {})
      PROVE  Answering
  BY <1>1 DEF Lifetime, Reply, Answering, BrokerType
<1>2. CASE CompletedElsewhere(done, cleared, gone)
  BY <1>1, <1>2 DEF CompletedElsewhere
<1>3. ASSUME NEW r \in done, CompletedHead(r, done, cleared, gone)
      PROVE  Answering
  BY <1>3, RunQueueAnswering DEF CompletedHead
<1>4. ASSUME NEW r \in done, CompletedNotFirst(r, done, cleared, gone)
      PROVE  Answering
  BY <1>1, <1>4 DEF CompletedNotFirst
<1> QED
  BY <1>2, <1>3, <1>4 DEF Completed

LEMMA GoneAnsweredStep == TypeOK /\ GoneAnswered /\ [Next]_vars => GoneAnswered'
<1> SUFFICES ASSUME TypeOK, GoneAnswered, [Next]_vars
             PROVE  GoneAnswered'
  OBVIOUS
<1>0. BrokerType
  BY TypeSplit
<1>1. CASE Answering
  <2>1. SUFFICES ASSUME NEW r \in Request, life'[r] \in {"deleting", "deleted"}
                 PROVE  replies'[r] > 0
    BY DEF GoneAnswered
  <2>2. replies[r] \in Nat /\ replies'[r] \in {replies[r], replies[r] + 1}
    BY <1>0, <1>1 DEF Answering, BrokerType
  <2>3. life[r] \in {"deleting", "deleted"} \/ replies'[r] = replies[r] + 1
    BY <1>1, <2>1 DEF Answering
  <2>4. life[r] \in {"deleting", "deleted"} => replies[r] > 0
    BY DEF GoneAnswered
  <2> QED
    BY <2>2, <2>3, <2>4
<1>2. CASE UNCHANGED <<life, replies>>
  BY <1>2 DEF GoneAnswered
<1>3. ASSUME NEW r \in Request, RequestStep(r)
      PROVE  GoneAnswered'
  <2>1. CASE Enqueue(r)
    BY <1>0, <1>1, <2>1, RunQueueAnswering DEF Enqueue
  <2>2. ASSUME NEW p \in proxies, HandOver(r, p)
        PROVE  GoneAnswered'
    BY <1>0, <2>2 DEF HandOver, Lifetime, GoneAnswered, BrokerType
  <2>3. CASE CancelUiRequest(r)
    BY <1>0, <1>1, <2>3, CompletedAnswering DEF CancelUiRequest
  <2>4. CASE DeleteRequest(r)
    BY <1>0, <2>4 DEF DeleteRequest, GoneAnswered, BrokerType
  <2> QED
    BY <1>3, <2>1, <2>2, <2>3, <2>4 DEF RequestStep
<1>4. ASSUME NEW p \in Request, ProxyStep(p)
      PROVE  GoneAnswered'
  <2>1. CASE OnDataReady(p)
    BY <1>0, <1>1, <1>2, <2>1, CompletedAnswering
    DEF OnDataReady, OnRegisterHandler, OnAnswer, OnStaleAnswer, requestVars
  <2>2. CASE DeleteProxy(p)
    BY <1>0, <1>1, <2>2, CompletedAnswering DEF DeleteProxy
  <2> QED
    BY <1>2, <1>4, <2>1, <2>2
    DEF ProxyStep, OnNewConnection, OnDisconnected, OnFinishedTimer,
        OnPromptSessionFinished, requestVars
<1>5. ASSUME NEW p \in Request, UiStep(p)
      PROVE  GoneAnswered'
  BY <1>2, <1>5 DEF UiStep, UiAnswer, UiRegister, UiExit, requestVars
<1>6. CASE UNCHANGED vars
  BY <1>2, <1>6 DEF vars, requestVars
<1> QED
  BY <1>3, <1>4, <1>5, <1>6 DEF Next

\* What the updates of requests and proxies do to the abstract state.
LEMMA OpenElements ==
  /\ \A x : x \in OpenRequests <=> \E p \in Request : x \in held[p]
  /\ \A x : x \in OpenRequests' <=> \E p \in Request : x \in held'[p]
  BY DEF OpenRequests

LEMMA OpenAfter ==
  ASSUME BrokerType, NEW done, NEW gone, NEW refused, NEW started \in SUBSET Request,
         NEW outcome, Proxies(done, gone, refused, started, outcome),
         \A p \in started : held[p] = {}
  PROVE  OpenRequests' = (OpenRequests \ done) \cup started
<1>1. \A p \in Request : \A x :
        x \in held'[p] <=> IF p \in started THEN x = p ELSE x \in held[p] /\ x \notin done
  BY DEF Proxies
<1>2. ASSUME NEW x, x \in OpenRequests'
      PROVE  (x \in OpenRequests /\ x \notin done) \/ x \in started
  BY <1>1, <1>2, OpenElements
<1>3. ASSUME NEW x \in OpenRequests, x \notin done
      PROVE  x \in OpenRequests'
  <2>1. PICK p \in Request : x \in held[p]
    BY OpenElements
  <2>2. x \in held'[p]
    BY <1>1, <1>3, <2>1
  <2> QED
    BY <2>2, OpenElements
<1>4. ASSUME NEW x \in started
      PROVE  x \in OpenRequests'
  <2>1. x \in held'[x]
    BY <1>1
  <2> QED
    BY <2>1, OpenElements
<1> QED
  BY <1>2, <1>3, <1>4

LEMMA AnsweredAfter ==
  ASSUME BrokerType, NEW done \in SUBSET Request, NEW cleared, NEW started,
         Reply(done, cleared, started)
  PROVE  AnsweredRequests' = AnsweredRequests \cup done
<1>1. \A r \in Request : /\ replies'[r] = IF r \in done THEN replies[r] + 1 ELSE replies[r]
                         /\ replies[r] \in Nat
  BY DEF Reply, BrokerType
<1>2. \A r \in Request : replies'[r] > 0 <=> replies[r] > 0 \/ r \in done
  BY <1>1
<1> QED
  BY <1>2 DEF AnsweredRequests

\* A new object is in no queue, in no proxy and has not been answered.
LEMMA UnbornIsNew ==
  ASSUME BrokerType, BrokerInv, NEW r \in Request, life[r] = "unborn"
  PROVE  Broker!New(r)
<1>1. r \notin Broker!Lined
  BY DEF Broker!Lined, BrokerInv, QueuesOk
<1>2. r \notin OpenRequests
  BY DEF OpenRequests, BrokerInv, HeldOk
<1>3. r \notin AnsweredRequests
  BY DEF AnsweredRequests, BrokerInv, FreshOk
<1> QED
  BY <1>1, <1>2, <1>3 DEF Broker!New

\* What a proxy holds is open; unless it created the proxy, it is in no queue.
LEMMA HeldIsOpen ==
  ASSUME BrokerType, BrokerInv, NEW p \in Request, NEW r \in held[p]
  PROVE  r \in OpenRequests /\ (r # p => r \notin Broker!Lined)
<1>1. r \in OpenRequests
  BY DEF OpenRequests
<1>2. r \in Request /\ via[r] = p /\ p # NoProxy
  BY RequestAssumption DEF BrokerInv, HeldOk, BrokerType
<1>3. SUFFICES ASSUME NEW w \in Window, NEW i \in 1 .. Len(queue[w]), queue[w][i] = r
               PROVE  r = p
  BY <1>1 DEF Broker!Lined
<1>4. i = 1 \/ i > 1
  BY DEF BrokerType
<1>5. r \in held[r]
  BY <1>2, <1>3, <1>4 DEF BrokerInv, QueuesOk
<1> QED
  BY <1>2, <1>5 DEF BrokerInv, HeldOk

\* A request nobody has touched has no proxy of its own.
LEMMA UntouchedHoldsNothing ==
  ASSUME BrokerInv, NEW r \in Request, via[r] = NoProxy,
         life[r] \in {"unborn", "alive"}
  PROVE  held[r] = {} /\ r \notin inProgress
<1>1. status[r] = "None"
  BY DEF BrokerInv, FreshOk
<1>2. held[r] = {}
  BY <1>1 DEF BrokerInv, HeldOk, Live
<1>3. r \notin inProgress
  BY RequestAssumption DEF BrokerInv, FreshOk, AliveOk
<1> QED
  BY <1>2, <1>3

Refines == [Broker!Next]_(Broker!qvars)

\* A request that arrives for the queue of its window joins it or is refused.
LEMMA EnqueueRefines ==
  ASSUME BrokerType, BrokerInv, NEW r \in Request, Enqueue(r)
  PROVE  Refines
<1> DEFINE w == WindowOf[r]
           q == Append(queue[w], r)
<1>1. w \in Window /\ queue[w] \in Seq(Request) /\ queue \in [Window -> Seq(Request)]
  BY RequestAssumption DEF BrokerType
<1>2. /\ q \in Seq(Request)
      /\ Len(q) = Len(queue[w]) + 1
      /\ \A i \in 1 .. Len(queue[w]) : q[i] = queue[w][i]
      /\ q[Len(queue[w]) + 1] = r
      /\ q # <<>>
      /\ Len(queue[w]) \in Nat
  BY <1>1, AppendToQueue
<1>3. life[r] = "unborn" /\ via[r] = NoProxy
  BY DEF Enqueue, MayArrive, BrokerInv, FreshOk
<1>4. held[r] = {} /\ r \notin inProgress /\ Broker!New(r)
  BY <1>3, UntouchedHoldsNothing, UnbornIsNew
<1>5. RunQueue(w, q, {r}, {}, {}, {})
  BY DEF Enqueue
<1>6. w = WindowOf[r] /\ q = Append(queue[w], r) /\ Head(q) = q[1]
  BY <1>2, TailOfQueue
<1> HIDE DEF w, q
<1>7. CASE queue[w] # <<>>
  <2>1. 1 \in 1 .. Len(queue[w])
    BY <1>1, <1>7, TailOfQueue
  <2>2. queue[w][1] \in Request /\ queue[w][1] \in held[queue[w][1]]
    BY <1>1, <2>1 DEF BrokerInv, QueuesOk
  <2>3. ~MustServe(q, inProgress \ {})
    BY <1>2, <1>6, <2>1, <2>2 DEF MustServe, BrokerInv, HeldOk
  <2>4. SetQueue(w, q) /\ Reply({}, {}, {}) /\ Proxies({}, {}, {}, {}, "None")
    BY <1>5, <2>3 DEF RunQueue
  <2>5. OpenRequests' = OpenRequests /\ AnsweredRequests' = AnsweredRequests
    BY <2>4, OpenAfter, AnsweredAfter
  <2>6. Broker!Join(r)
    BY <1>1, <1>4, <1>6, <1>7, <2>4, <2>5 DEF Broker!Join, SetQueue
  <2> QED
    BY <2>6 DEF Refines, Broker!Next
<1>8. CASE queue[w] = <<>>
  <2>1. Len(q) = 1 /\ q[1] = r
    BY <1>2, <1>8
  <2>2. MustServe(q, inProgress \ {})
    BY <1>2, <1>4, <1>6, <2>1 DEF MustServe
  <2>3. PICK k \in InitFailures(q), outcome \in StartOutcome :
          LET refused == {q[i] : i \in 1 .. k}
              rest    == SubSeq(q, k + 1, Len(q))
              started == IF rest = <<>> THEN {} ELSE {Head(rest)}
          IN /\ SetQueue(w, rest)
             /\ Reply({} \cup refused, {}, started)
             /\ Proxies({}, {}, refused, started, outcome)
    BY <1>5, <2>2 DEF RunQueue
  <2> DEFINE refused == {q[i] : i \in 1 .. k}
             rest    == SubSeq(q, k + 1, Len(q))
             started == IF rest = <<>> THEN {} ELSE {Head(rest)}
  <2>4. k \in 0 .. Len(q) /\ (k = 0 \/ k = 1)
    BY <2>1 DEF InitFailures
  <2>5. /\ rest \in Seq(Request)
        /\ Len(rest) = Len(q) - k
        /\ \A i \in 1 .. Len(q) - k : rest[i] = q[i + k]
        /\ rest # <<>> => Head(rest) = q[k + 1]
        /\ rest = <<>> <=> k = Len(q)
    BY <1>2, <2>4, RestOfQueue
  <2>6. refused = IF k = 0 THEN {} ELSE {r}
    BY <2>1, <2>4
  <2> HIDE DEF rest
  <2>7. started = IF k = 0 THEN {r} ELSE {}
    <3>1. CASE k = 0
      <4>1. rest # <<>> /\ k + 1 = 1
        BY <2>1, <2>5, <3>1
      <4> QED
        BY <2>1, <2>5, <3>1, <4>1
    <3>2. CASE k = 1
      BY <2>1, <2>5, <3>2
    <3> QED
      BY <2>4, <3>1, <3>2
  <2>8. /\ SetQueue(w, rest)
        /\ Reply(refused, {}, started)
        /\ Proxies({}, {}, refused, started, outcome)
    BY <2>3 DEF rest
  <2> HIDE DEF refused, started
  <2>9. /\ OpenRequests' = OpenRequests \cup started
        /\ AnsweredRequests' = AnsweredRequests \cup refused
    <3>1. started \in SUBSET Request /\ refused \in SUBSET Request
          /\ \A p \in started : held[p] = {}
      BY <1>4, <2>6, <2>7
    <3>2. OpenRequests' = (OpenRequests \ {}) \cup started
      BY <2>8, <3>1, OpenAfter
    <3>3. AnsweredRequests' = AnsweredRequests \cup refused
      BY <2>8, <3>1, AnsweredAfter
    <3> QED
      BY <3>2, <3>3
  <2>10. CASE k = 0
    <3>1. rest = Append(queue[w], r)
      BY <1>2, <1>6, <2>1, <2>5, <2>10, SeqEqual
    <3>2. Broker!Join(r)
      BY <1>1, <1>4, <1>6, <1>8, <2>6, <2>7, <2>8, <2>9, <2>10, <3>1 DEF Broker!Join, SetQueue
    <3> QED
      BY <3>2 DEF Refines, Broker!Next
  <2>11. CASE k = 1
    <3>1. queue' = queue
      BY <1>1, <1>8, <2>1, <2>5, <2>8, <2>11 DEF SetQueue
    <3>2. Broker!Refuse(r)
      BY <1>4, <1>6, <1>8, <2>6, <2>7, <2>9, <2>11, <3>1 DEF Broker!Refuse
    <3> QED
      BY <3>2 DEF Refines, Broker!Next
  <2> QED
    BY <2>4, <2>10, <2>11
<1> QED
  BY <1>7, <1>8

\* A request that arrives through a handler is opened at once.
LEMMA HandOverRefines ==
  ASSUME BrokerType, BrokerInv, NEW r \in Request, NEW p \in proxies, HandOver(r, p)
  PROVE  Refines
<1>1. p \in Request /\ Broker!New(r)
  BY UnbornIsNew DEF BrokerType, HandOver, MayArrive
<1>2. OpenRequests' = OpenRequests \cup {r}
  <2>1. \A x \in Request : held'[x] = IF x = p THEN held[x] \cup {r} ELSE held[x]
    BY <1>1 DEF HandOver, BrokerType
  <2>2. \A x : x \in OpenRequests' <=> x \in OpenRequests \/ x = r
    BY <1>1, <2>1, OpenElements
  <2> QED
    BY <2>2
<1>3. Broker!Delegate(r)
  BY <1>1, <1>2 DEF HandOver, Broker!Delegate, AnsweredRequests, queueVars
<1> QED
  BY <1>3 DEF Refines, Broker!Next

\* Completing what one proxy holds answers delegated requests, and the open one
\* of the window if it is among them; the queue then runs on.
LEMMA CompletedRefines ==
  ASSUME BrokerType, BrokerInv,
         NEW p \in Request, NEW done \in SUBSET held[p], NEW cleared, NEW gone,
         Completed(done, cleared, gone)
  PROVE  Refines
<1>1. /\ done \in SUBSET Request
      /\ \A r \in done : via[r] = p
      /\ \A r \in done : r \in OpenRequests /\ (r # p => r \notin Broker!Lined)
  BY HeldIsOpen DEF BrokerType, BrokerInv, HeldOk
<1>2. CASE CompletedElsewhere(done, cleared, gone)
  <2>1. \A r \in done : r # p
    BY <1>1, <1>2 DEF CompletedElsewhere, IsQueued
  <2>2. OpenRequests' = OpenRequests \ done /\ AnsweredRequests' = AnsweredRequests \cup done
    BY <1>1, <1>2, OpenAfter, AnsweredAfter DEF CompletedElsewhere
  <2>3. Broker!AnswerDelegated(done)
    BY <1>1, <1>2, <2>1, <2>2 DEF CompletedElsewhere, Broker!AnswerDelegated, queueVars
  <2>4. done \in SUBSET (OpenRequests \ Broker!Lined)
    BY <1>1, <2>1
  <2> QED
    BY <2>3, <2>4 DEF Refines, Broker!Next
<1>3. ASSUME NEW r \in done, CompletedHead(r, done, cleared, gone)
      PROVE  Refines
  <2> DEFINE w == WindowOf[r]
             s == queue[w]
             q == Tail(s)
             D == done \ {r}
  <2>1. r = p /\ r \in Request
    BY <1>1, <1>3 DEF CompletedHead, IsQueued
  <2>2. w \in Window /\ s \in Seq(Request) /\ s # <<>> /\ queue \in [Window -> Seq(Request)]
    BY <1>3, <2>1, RequestAssumption DEF CompletedHead, IsHead, BrokerType
  <2>3. /\ q \in Seq(Request)
        /\ Len(q) = Len(s) - 1
        /\ \A i \in 1 .. Len(s) - 1 : q[i] = s[i + 1]
        /\ Head(s) = s[1]
        /\ Len(s) \in Nat \ {0}
    BY <2>2, TailOfQueue
  <2>4. s[1] = r
    BY <1>3, <2>3 DEF CompletedHead, IsHead
  <2>5. D \subseteq OpenRequests \ Broker!Lined
    BY <1>1, <2>1
  <2>6. RunQueue(w, q, {}, done, cleared, gone)
    BY <1>3 DEF CompletedHead
  <2>7. \A i \in 1 .. Len(q) : /\ q[i] \in Request
                               /\ held[q[i]] = {} /\ q[i] \notin inProgress
    <3>1. SUFFICES ASSUME NEW i \in 1 .. Len(q)
                   PROVE  /\ q[i] \in Request
                          /\ held[q[i]] = {} /\ q[i] \notin inProgress
      OBVIOUS
    <3>2. q[i] = s[i + 1] /\ i + 1 \in 1 .. Len(s) /\ i + 1 > 1 /\ q[i] \in Request
      BY <2>3
    <3>3. via[s[i + 1]] = NoProxy /\ life[s[i + 1]] = "alive"
      BY <2>2, <3>2 DEF BrokerInv, QueuesOk
    <3> HIDE DEF q, s
    <3> QED
      BY <3>2, <3>3, UntouchedHoldsNothing
  <2> HIDE DEF s, q, D
  <2>8. ASSUME NEW k \in 0 .. Len(q), NEW refused, refused = {q[i] : i \in 1 .. k},
               queue' = [queue EXCEPT ![w] = SubSeq(q, k + 1, Len(q))],
               OpenRequests' = (OpenRequests \ done) \cup
                               (IF k = Len(q) THEN {} ELSE {q[k + 1]}),
               AnsweredRequests' = AnsweredRequests \cup done \cup refused
        PROVE  Refines
    <3>1. k \in Nat /\ k + 1 \in 1 .. Len(s) /\ (k = Len(q) <=> k + 1 = Len(s))
      BY <2>3
    <3>2. SubSeq(q, k + 1, Len(q)) = SubSeq(s, (k + 1) + 1, Len(s))
      <4> DEFINE a == SubSeq(q, k + 1, Len(q))
                 b == SubSeq(s, (k + 1) + 1, Len(s))
      <4>1. /\ a \in Seq(Request) /\ Len(a) = Len(q) - k
            /\ \A i \in 1 .. Len(q) - k : a[i] = q[i + k]
        BY <2>3, RestOfQueue
      <4>2. /\ b \in Seq(Request) /\ Len(b) = Len(s) - (k + 1)
            /\ \A i \in 1 .. Len(s) - (k + 1) : b[i] = s[i + (k + 1)]
        <5>1. k + 1 \in 0 .. Len(s)
          BY <3>1, <2>3
        <5>2. ASSUME NEW j \in 0 .. Len(s)
              PROVE  /\ SubSeq(s, j + 1, Len(s)) \in Seq(Request)
                     /\ Len(SubSeq(s, j + 1, Len(s))) = Len(s) - j
                     /\ \A i \in 1 .. Len(s) - j : SubSeq(s, j + 1, Len(s))[i] = s[i + j]
          BY <2>2, RestOfQueue
        <5> QED
          BY <5>1, <5>2
      <4> HIDE DEF a, b
      <4>3. Len(a) = Len(b)
        BY <2>3, <3>1, <4>1, <4>2
      <4>4. ASSUME NEW i \in 1 .. Len(a)
            PROVE  a[i] = b[i]
        <5>0. /\ Len(a) = Len(q) - k /\ Len(q) = Len(s) - 1
              /\ Len(s) \in Nat /\ k \in Nat /\ i \in 1 .. Len(a)
          BY <2>3, <3>1, <4>1, <4>4
        <5>1. /\ i \in 1 .. Len(q) - k /\ i \in 1 .. Len(s) - (k + 1)
              /\ i + k \in 1 .. Len(s) - 1 /\ (i + k) + 1 = i + (k + 1)
          BY <5>0
        <5> QED
          BY <2>3, <4>1, <4>2, <5>1
      <4>5. a = b
        BY <4>1, <4>2, <4>3, <4>4, SeqEqual
      <4> QED
        BY <4>5 DEF a, b
    <3>3. done \cup refused = D \cup {s[i] : i \in 1 .. k + 1}
      <4>1. \A i \in 1 .. k : q[i] = s[i + 1] /\ i + 1 \in 1 .. k + 1
        BY <2>3, <3>1
      <4>2. \A i \in 1 .. k + 1 : i = 1 \/ (i - 1 \in 1 .. k /\ s[i] = q[i - 1])
        BY <2>3, <3>1
      <4>3. 1 \in 1 .. k + 1
        BY <3>1
      <4>4. \A x : x \in refused <=> \E i \in 1 .. k : x = q[i]
        BY <2>8
      <4>5. ASSUME NEW x
            PROVE  (\E i \in 1 .. k + 1 : x = s[i]) <=> x = r \/ x \in refused
        <5>1. ASSUME NEW i \in 1 .. k + 1, x = s[i]
              PROVE  x = r \/ x \in refused
          BY <2>4, <4>2, <4>4, <5>1
        <5>2. x = r => \E i \in 1 .. k + 1 : x = s[i]
          BY <2>4, <4>3
        <5>3. ASSUME NEW i \in 1 .. k, x = q[i]
              PROVE  \E j \in 1 .. k + 1 : x = s[j]
          BY <4>1, <5>3
        <5> QED
          BY <4>4, <5>1, <5>2, <5>3
      <4>6. \A x : x \in D <=> x \in done /\ x # r
        BY DEF D
      <4> QED
        BY <4>5, <4>6
    <3>4. ASSUME k # Len(q)
          PROVE  q[k + 1] = s[(k + 1) + 1]
      <4>1. k + 1 \in 1 .. Len(s) - 1
        BY <2>3, <3>1, <3>4
      <4> QED
        BY <2>3, <4>1
    <3>5. refused \cap OpenRequests = {}
      <4>1. SUFFICES ASSUME NEW i \in 1 .. k, NEW x \in Request, q[i] \in held[x]
                     PROVE  FALSE
        BY <2>8 DEF OpenRequests
      <4>2. i \in 1 .. Len(q)
        BY <2>3, <3>1
      <4> QED
        BY <2>7, <4>1, <4>2 DEF BrokerInv, HeldOk
    <3>6. OpenRequests' = (OpenRequests \ (D \cup {s[i] : i \in 1 .. k + 1}))
                          \cup (IF k + 1 = Len(s) THEN {} ELSE {s[(k + 1) + 1]})
      BY <2>8, <3>1, <3>3, <3>4, <3>5
    <3>7. AnsweredRequests' = AnsweredRequests \cup (D \cup {s[i] : i \in 1 .. k + 1})
      BY <2>8, <3>3
    <3>8. Broker!Advance(w, k + 1, D)
      BY <2>5, <2>8, <3>1, <3>2, <3>6, <3>7 DEF Broker!Advance, s
    <3>9. k + 1 \in 1 .. Len(queue[w]) /\ D \in SUBSET (OpenRequests \ Broker!Lined)
      BY <2>5, <3>1 DEF s
    <3> QED
      BY <2>2, <3>8, <3>9 DEF Refines, Broker!Next
  <2>9. CASE MustServe(q, inProgress \ cleared)
    <3>1. PICK k \in InitFailures(q), outcome \in StartOutcome :
            LET refused == {q[i] : i \in 1 .. k}
                rest    == SubSeq(q, k + 1, Len(q))
                started == IF rest = <<>> THEN {} ELSE {Head(rest)}
            IN /\ SetQueue(w, rest)
               /\ Reply(done \cup refused, cleared, started)
               /\ Proxies(done, gone, refused, started, outcome)
      BY <2>6, <2>9 DEF RunQueue
    <3> DEFINE refused == {q[i] : i \in 1 .. k}
               rest    == SubSeq(q, k + 1, Len(q))
               started == IF rest = <<>> THEN {} ELSE {Head(rest)}
    <3>2. k \in 0 .. Len(q)
      BY DEF InitFailures
    <3>3. /\ rest \in Seq(Request)
          /\ Len(rest) = Len(q) - k
          /\ \A i \in 1 .. Len(q) - k : rest[i] = q[i + k]
          /\ rest # <<>> => Head(rest) = q[k + 1] /\ k + 1 \in 1 .. Len(q)
          /\ rest = <<>> <=> k = Len(q)
      <4>1. q \in Seq(Request)
        BY <2>3
      <4>2. ASSUME NEW j \in 0 .. Len(q)
            PROVE  LET part == SubSeq(q, j + 1, Len(q))
                   IN  /\ part \in Seq(Request)
                       /\ Len(part) = Len(q) - j
                       /\ \A i \in 1 .. Len(q) - j : part[i] = q[i + j]
                       /\ part # <<>> => Head(part) = q[j + 1] /\ j + 1 \in 1 .. Len(q)
                       /\ part = <<>> <=> j = Len(q)
        BY <4>1, RestOfQueue
      <4> QED
        BY <3>2, <4>2
    <3>4. refused \in SUBSET Request
      BY <2>7, <3>2, <2>3
    <3>5. /\ queue' = [queue EXCEPT ![w] = rest]
          /\ Reply(done \cup refused, cleared, started)
          /\ Proxies(done, gone, refused, started, outcome)
      BY <3>1 DEF SetQueue
    <3>6. started = IF k = Len(q) THEN {} ELSE {q[k + 1]}
      BY <3>3
    <3>7. started \in SUBSET Request /\ \A x \in started : held[x] = {}
      <4> HIDE DEF started, rest
      <4> QED
        BY <2>7, <3>3, <3>6
    <3> HIDE DEF refused, started
    <3>8. /\ OpenRequests' = (OpenRequests \ done) \cup started
          /\ AnsweredRequests' = AnsweredRequests \cup (done \cup refused)
      BY <1>1, <3>4, <3>5, <3>7, OpenAfter, AnsweredAfter
    <3>9. refused = {q[i] : i \in 1 .. k}
      BY DEF refused
    <3>10. AnsweredRequests' = AnsweredRequests \cup done \cup refused
      BY <3>8
    <3> QED
      BY <2>8, <3>2, <3>5, <3>6, <3>8, <3>9, <3>10
  <2>10. CASE ~MustServe(q, inProgress \ cleared)
    <3>1. q = <<>>
      <4>1. SUFFICES ASSUME q # <<>>
                     PROVE  FALSE
        OBVIOUS
      <4>2. Head(q) = q[1] /\ 1 \in 1 .. Len(q)
        BY <2>3, <4>1, TailOfQueue
      <4> QED
        BY <2>7, <2>10, <4>1, <4>2 DEF MustServe
    <3>2. /\ queue' = [queue EXCEPT ![w] = q]
          /\ Reply(done, cleared, {})
          /\ Proxies(done, gone, {}, {}, "None")
      BY <2>6, <2>10 DEF RunQueue, SetQueue
    <3>3. OpenRequests' = OpenRequests \ done
      BY <3>2, OpenAfter
    <3>4. AnsweredRequests' = AnsweredRequests \cup done
      BY <1>1, <3>2, AnsweredAfter
    <3>5. Len(q) = 0 /\ 0 \in 0 .. Len(q)
      BY <3>1
    <3>6. SubSeq(q, 0 + 1, Len(q)) = q
      BY <2>3, <3>1, <3>5, RestOfQueue
    <3>7. {} = {q[i] : i \in 1 .. 0}
      OBVIOUS
    <3> QED
      BY <2>8, <3>2, <3>3, <3>5, <3>6, <3>7, <3>4
  <2> QED
    BY <2>9, <2>10
<1>4. ASSUME NEW r \in done, CompletedNotFirst(r, done, cleared, gone)
      PROVE  Refines
  <2>1. r = p /\ r \in held[p]
    BY <1>1, <1>4 DEF CompletedNotFirst, IsQueued
  <2> QED
    BY <1>4, <2>1 DEF CompletedNotFirst, BrokerInv, HeldOk
<1> QED
  BY <1>2, <1>3, <1>4 DEF Completed

\* A second reply to a sign-on request that has been answered is not seen.
LEMMA SecondReplyRefines ==
  ASSUME BrokerType, BrokerInv, GoneAnswered, NEW r \in SignOn,
         life[r] = "deleting", Completed({r}, {r}, {})
  PROVE  Refines
<1>1. r \in Request /\ {r} \in SUBSET Request /\ r \in AnsweredRequests
  BY RequestAssumption DEF GoneAnswered, AnsweredRequests
<1>2. r \notin OpenRequests
  BY DEF OpenRequests, BrokerInv, HeldOk
<1>3. ~CompletedHead(r, {r}, {r}, {})
  <2>1. SUFFICES ASSUME IsHead(r)
                 PROVE  FALSE
    BY DEF CompletedHead
  <2>2. WindowOf[r] \in Window /\ queue[WindowOf[r]] \in Seq(Request)
    BY <1>1, RequestAssumption DEF BrokerType
  <2>3. 1 \in 1 .. Len(queue[WindowOf[r]]) /\ queue[WindowOf[r]][1] = r
    BY <2>1, <2>2, TailOfQueue DEF IsHead
  <2> QED
    BY <2>2, <2>3 DEF BrokerInv, QueuesOk
<1>4. /\ Reply({r}, {r}, {})
      /\ Proxies({r}, {}, {}, {}, "None")
      /\ queue' = queue
  BY <1>3 DEF Completed, CompletedElsewhere, CompletedNotFirst, queueVars
<1>5. OpenRequests' = OpenRequests \ {r}
  <2>1. OpenRequests' = (OpenRequests \ {r}) \cup {}
    BY <1>4, OpenAfter
  <2> QED
    BY <2>1
<1>6. AnsweredRequests' = AnsweredRequests \cup {r}
  BY <1>1, <1>4, AnsweredAfter
<1>7. UNCHANGED <<queue, OpenRequests, AnsweredRequests>>
  BY <1>1, <1>2, <1>4, <1>5, <1>6
<1> QED
  BY <1>7 DEF Refines, Broker!qvars

\* Every other step is not seen.
LEMMA FrameRefines ==
  ASSUME UNCHANGED <<queue, held, replies>>
  PROVE  Refines
<1>1. UNCHANGED <<queue, OpenRequests, AnsweredRequests>>
  BY DEF OpenRequests, AnsweredRequests
<1> QED
  BY <1>1 DEF Refines, Broker!qvars

LEMMA RefinementInit == Init => Broker!Init
<1> SUFFICES ASSUME Init
             PROVE  Broker!Init
  OBVIOUS
<1>1. OpenRequests = {} /\ AnsweredRequests = {}
  BY DEF Init, OpenRequests, AnsweredRequests
<1> QED
  BY <1>1 DEF Init, Broker!Init

LEMMA RefinementStep == TypeOK /\ BrokerInv /\ GoneAnswered /\ [Next]_vars => Refines
<1> SUFFICES ASSUME TypeOK, BrokerInv, GoneAnswered, [Next]_vars
             PROVE  Refines
  OBVIOUS
<1>0. BrokerType
  BY TypeSplit
<1> USE DEF requestVars, queueVars, proxyVars
<1>1. ASSUME NEW r \in Request, RequestStep(r)
      PROVE  Refines
  <2>1. CASE CancelUiRequest(r)
    <3>1. /\ life[r] \in {"alive", "deleting"} /\ r \in inProgress /\ r \in SignOn
          /\ Completed({r}, {r}, {})
      BY <2>1 DEF CancelUiRequest, MayCancel
    <3>2. CASE life[r] = "alive"
      <4>1. via[r] \in Request /\ {r} \in SUBSET held[via[r]]
        BY <3>1, <3>2 DEF BrokerInv, AliveOk
      <4> QED
        BY <1>0, <3>1, <4>1, CompletedRefines
    <3>3. CASE life[r] = "deleting"
      BY <1>0, <3>1, <3>3, SecondReplyRefines
    <3> QED
      BY <3>1, <3>2, <3>3
  <2>2. CASE DeleteRequest(r)
    BY <2>2, FrameRefines DEF DeleteRequest
  <2> QED
    BY <1>0, <1>1, <2>1, <2>2, EnqueueRefines, HandOverRefines DEF RequestStep
<1>2. ASSUME NEW p \in Request, ProxyStep(p)
      PROVE  Refines
  <2>1. CASE OnDataReady(p)
    <3> DEFINE m == Head(inbox[p])
    <3>1. \/ OnRegisterHandler(p, m)
          \/ OnAnswer(p, m)
          \/ OnStaleAnswer(p, m)
      BY <2>1 DEF OnDataReady
    <3> HIDE DEF m
    <3>2. CASE m.req \in held[p] /\ Completed({m.req}, ClearedBy(m), {})
      <4>1. {m.req} \in SUBSET held[p]
        BY <3>2
      <4> QED
        BY <1>0, <3>2, <4>1, CompletedRefines
    <3>3. CASE UNCHANGED <<requestVars, queueVars, proxyVars>>
      BY <3>3, FrameRefines
    <3> QED
      BY <3>1, <3>2, <3>3 DEF OnRegisterHandler, OnAnswer, OnStaleAnswer
  <2>2. CASE DeleteProxy(p)
    <3>1. CancelledBy(p) \in SUBSET held[p]
      BY DEF CancelledBy
    <3> QED
      BY <1>0, <2>2, <3>1, CompletedRefines DEF DeleteProxy
  <2>3. CASE \/ OnNewConnection(p) \/ OnDisconnected(p)
             \/ OnFinishedTimer(p) \/ OnPromptSessionFinished(p)
    BY <2>3, FrameRefines
    DEF OnNewConnection, OnDisconnected, OnFinishedTimer, OnPromptSessionFinished
  <2> QED
    BY <1>2, <2>1, <2>2, <2>3 DEF ProxyStep
<1>3. ASSUME NEW p \in Request, UiStep(p)
      PROVE  Refines
  BY <1>3, FrameRefines DEF UiStep, UiAnswer, UiRegister, UiExit
<1>4. CASE UNCHANGED vars
  BY <1>4, FrameRefines DEF vars
<1> QED
  BY <1>1, <1>2, <1>3, <1>4 DEF Next

\* The broker with its proxies, processes, failures and deferred deletes serves
\* each window like the abstract queues: in order of arrival and one at a time.
THEOREM ImplementsWindowQueuesCorrect == Spec => ImplementsWindowQueues
<1>1. Init => Broker!Init /\ GoneAnswered
  BY RefinementInit DEF Init, GoneAnswered
<1>2. TypeOK /\ BrokerInv /\ GoneAnswered /\ [Next]_vars => [Broker!Next]_(Broker!qvars)
  BY RefinementStep DEF Refines
<1>3. TypeOK /\ GoneAnswered /\ [Next]_vars => GoneAnswered'
  BY GoneAnsweredStep
<1>4. IInv => TypeOK /\ BrokerInv
  BY DEF IInv, BrokerInv
<1> QED
  BY <1>1, <1>2, <1>3, <1>4, IInvCorrect, PTL DEF Spec, ImplementsWindowQueues, Broker!Spec

-----------------------------------------------------------------------------
(***************************************************************************)
(* What only a cancellation can break: NeverCrashes and CompletedIsFirst   *)
(* are violated when signond cancels a request whose answer is on its way, *)
(* and hold whatever else fails.                                           *)
(***************************************************************************)

\* Every request the UI process of p knows or has answered is one p holds, so
\* the look-up of its answer succeeds; it is answered once, and nothing was
\* sent before the process connected.
SocketOk(p) ==
  /\ \A r \in Request : Known(p, r) => r \in held[p] /\ status[p] # "Loading"
  /\ \A i \in 1 .. Len(inbox[p]) :
       inbox[p][i].code # "registerHandler" => inbox[p][i].req \notin uiWork[p]
  /\ \A i, j \in 1 .. Len(inbox[p]) :
       /\ inbox[p][i].code # "registerHandler"
       /\ inbox[p][j].code # "registerHandler"
       /\ inbox[p][i].req = inbox[p][j].req
       => i = j

SocketsOk == \A p \in Request : SocketOk(p)

\* A request has its one reply when it has been answered, and none before.
RequestAnsweredOnce ==
  \A r \in Request :
    replies[r] = IF life[r] \in {"deleting", "deleted"} THEN 1 ELSE 0

\* A step that answers the requests in freed, which are those in done and some
\* nobody has touched: nothing else leaves its proxy, and a proxy that starts
\* held nothing.
Frees(freed, born, done) ==
  /\ \A r \in Request : /\ replies'[r] = IF r \in freed THEN replies[r] + 1 ELSE replies[r]
                        /\ life'[r] = IF r \in freed THEN "deleting"
                                      ELSE IF r \in born THEN "alive" ELSE life[r]
  /\ \A r \in freed : r \in done \/ (via[r] = NoProxy /\ life[r] \in {"unborn", "alive"})
  /\ \A x \in Request : /\ held[x] \ done \subseteq held'[x]
                        /\ status'[x] = "Loading" => status[x] = "Loading" \/ held[x] = {}

\* Running a queue whose requests are untouched frees what is done and what
\* fails init.
LEMMA RunQueueFrees ==
  ASSUME BrokerType, BrokerInv, NEW w, NEW q \in Seq(Request), NEW born, NEW done,
         NEW cleared, NEW gone, RunQueue(w, q, born, done, cleared, gone),
         MustServe(q, inProgress \ cleared) =>
           \A i \in 1 .. Len(q) : via[q[i]] = NoProxy /\ life[q[i]] \in {"unborn", "alive"}
  PROVE  \E freed : Frees(freed, born, done)
<1>1. CASE MustServe(q, inProgress \ cleared)
  <2>1. PICK k \in InitFailures(q), outcome \in StartOutcome :
          LET refused == {q[i] : i \in 1 .. k}
              rest    == SubSeq(q, k + 1, Len(q))
              started == IF rest = <<>> THEN {} ELSE {Head(rest)}
          IN /\ Lifetime(born, done \cup refused)
             /\ Reply(done \cup refused, cleared, started)
             /\ Proxies(done, gone, refused, started, outcome)
    BY <1>1 DEF RunQueue
  <2> DEFINE refused == {q[i] : i \in 1 .. k}
             rest    == SubSeq(q, k + 1, Len(q))
             started == IF rest = <<>> THEN {} ELSE {Head(rest)}
  <2>2. k \in 0 .. Len(q) /\ Len(q) \in Nat
    BY DEF InitFailures
  <2>3. rest # <<>> => Head(rest) = q[k + 1] /\ k + 1 \in 1 .. Len(q)
    BY <2>2, RestOfQueue
  <2>4. /\ Lifetime(born, done \cup refused)
        /\ Reply(done \cup refused, cleared, started)
        /\ Proxies(done, gone, refused, started, outcome)
    BY <2>1
  <2>5. \A r \in refused : via[r] = NoProxy /\ life[r] \in {"unborn", "alive"}
    BY <1>1, <2>2
  <2> HIDE DEF rest, refused
  <2>6. \A r \in started : r \in Request /\ held[r] = {}
    <3>1. SUFFICES ASSUME rest # <<>>
                   PROVE  q[k + 1] \in Request /\ held[q[k + 1]] = {}
      BY <2>3
    <3>2. /\ q[k + 1] \in Request /\ via[q[k + 1]] = NoProxy
          /\ life[q[k + 1]] \in {"unborn", "alive"}
      BY <1>1, <2>3, <3>1
    <3> QED
      BY <3>2, UntouchedHoldsNothing
  <2> HIDE DEF started
  <2>7. \A x \in Request : /\ held[x] \ done \subseteq held'[x]
                           /\ status'[x] = "Loading" => status[x] = "Loading" \/ held[x] = {}
    BY <2>4, <2>6 DEF Proxies, BrokerType
  <2>8. Frees(done \cup refused, born, done)
    BY <2>4, <2>5, <2>7 DEF Frees, Lifetime, Reply
  <2> QED
    BY <2>8
<1>2. CASE ~MustServe(q, inProgress \ cleared)
  <2>1. Lifetime(born, done) /\ Reply(done, cleared, {}) /\ Proxies(done, gone, {}, {}, "None")
    BY <1>2 DEF RunQueue
  <2>2. Frees(done, born, done)
    BY <2>1 DEF Frees, Lifetime, Reply, Proxies, BrokerType
  <2> QED
    BY <2>2
<1> QED
  BY <1>1, <1>2

\* Completing what a proxy holds: the request of a queue is its head, and the
\* service goes on.
LEMMA CompletedFrees ==
  ASSUME BrokerType, BrokerInv, NEW p \in Request, NEW done \in SUBSET held[p],
         NEW cleared, NEW gone, Completed(done, cleared, gone)
  PROVE  /\ svc' = svc
         /\ \A r \in done : IsQueued(r) => IsHead(r)
         /\ \E freed : Frees(freed, {}, done)
<1>1. \A r \in done : /\ r \in Request
                      /\ life[r] = "alive"
                      /\ IsQueued(r) => IsHead(r)
  BY DEF BrokerType, BrokerInv, HeldOk, IsQueued
<1>2. CASE CompletedElsewhere(done, cleared, gone)
  <2>1. Frees(done, {}, done)
    BY <1>2 DEF CompletedElsewhere, Frees, Lifetime, Reply, Proxies, BrokerType
  <2> QED
    BY <1>1, <1>2, <2>1 DEF CompletedElsewhere
<1>3. ASSUME NEW r \in done, CompletedHead(r, done, cleared, gone)
      PROVE  svc' = svc /\ \E freed : Frees(freed, {}, done)
  <2> DEFINE w == WindowOf[r]
             q == Tail(queue[w])
  <2>1. w \in Window /\ queue[w] \in Seq(Request) /\ queue[w] # <<>>
    BY <1>1, <1>3, RequestAssumption DEF BrokerType, CompletedHead, IsHead
  <2>2. /\ q \in Seq(Request)
        /\ Len(q) = Len(queue[w]) - 1
        /\ \A i \in 1 .. Len(queue[w]) - 1 : q[i] = queue[w][i + 1]
        /\ Len(queue[w]) \in Nat
    BY <2>1, TailOfQueue
  <2>3. RunQueue(w, q, {}, done, cleared, gone) /\ svc' = svc
    BY <1>3 DEF CompletedHead
  <2> HIDE DEF q, w
  <2>4. ASSUME NEW i \in 1 .. Len(q)
        PROVE  via[q[i]] = NoProxy /\ life[q[i]] = "alive"
    <3>1. i + 1 \in 1 .. Len(queue[w]) /\ i + 1 > 1 /\ q[i] = queue[w][i + 1]
      BY <2>2
    <3> QED
      BY <2>1, <3>1 DEF BrokerInv, QueuesOk
  <2> QED
    BY <2>2, <2>3, <2>4, RunQueueFrees
<1> QED
  BY <1>1, <1>2, <1>3 DEF Completed, CompletedNotFirst

\* A request that joins a queue that is being served waits; alone, it is fresh.
LEMMA EnqueueFrees ==
  ASSUME BrokerType, BrokerInv, NEW r \in Request, Enqueue(r)
  PROVE  \E freed : Frees(freed, {r}, {})
<1> DEFINE w == WindowOf[r]
           q == Append(queue[w], r)
<1>1. w \in Window /\ queue[w] \in Seq(Request)
  BY RequestAssumption DEF BrokerType
<1>2. /\ q \in Seq(Request)
      /\ Len(q) = Len(queue[w]) + 1
      /\ \A i \in 1 .. Len(queue[w]) : q[i] = queue[w][i]
      /\ q[Len(queue[w]) + 1] = r
      /\ q # <<>>
      /\ Len(queue[w]) \in Nat
  BY <1>1, AppendToQueue
<1>3. life[r] = "unborn" /\ via[r] = NoProxy
  BY DEF Enqueue, MayArrive, BrokerInv, FreshOk
<1>4. RunQueue(w, q, {r}, {}, {}, {})
  BY DEF Enqueue
<1> HIDE DEF w, q
<1>5. CASE queue[w] # <<>>
  <2>1. 1 \in 1 .. Len(queue[w]) /\ Head(q) = q[1]
    BY <1>1, <1>2, <1>5, TailOfQueue
  <2>2. queue[w][1] \in Request /\ queue[w][1] \in held[queue[w][1]]
    BY <1>1, <2>1 DEF BrokerInv, QueuesOk
  <2>3. ~MustServe(q, inProgress \ {})
    BY <1>2, <2>1, <2>2 DEF MustServe, BrokerInv, HeldOk
  <2> QED
    BY <1>2, <1>4, <2>3, RunQueueFrees
<1>6. CASE queue[w] = <<>>
  <2>1. \A i \in 1 .. Len(q) : q[i] = r
    BY <1>2, <1>6
  <2> QED
    BY <1>2, <1>3, <1>4, <2>1, RunQueueFrees
<1> QED
  BY <1>5, <1>6

\* A socket on which nothing was sent: what the process knows is still held.
LEMMA SocketFrame ==
  ASSUME NEW x \in Request, SocketOk(x),
         uiWork'[x] \subseteq uiWork[x], inbox'[x] = inbox[x],
         \A r \in held[x] : Known(x, r) => r \in held'[x],
         status'[x] = "Loading" => status[x] = "Loading" \/ held[x] = {}
  PROVE  SocketOk(x)'
<1>1. ASSUME NEW r, Known(x, r)'
      PROVE  Known(x, r)
  BY <1>1 DEF Known
<1>2. \A r \in Request : Known(x, r)' => r \in held'[x] /\ status'[x] # "Loading"
  BY <1>1 DEF SocketOk
<1>3. \A i \in 1 .. Len(inbox'[x]) :
        inbox'[x][i].code # "registerHandler" => inbox'[x][i].req \notin uiWork'[x]
  BY DEF SocketOk
<1> QED
  BY <1>2, <1>3 DEF SocketOk

\* Reading the first message of a socket: its request is not answered again.
LEMMA SocketRead ==
  ASSUME UiType, NEW p \in Request, SocketOk(p), inbox[p] # <<>>,
         inbox' = [inbox EXCEPT ![p] = Tail(@)], uiWork' = uiWork,
         status'[p] = "Loading" => status[p] = "Loading" \/ held[p] = {},
         \/ Head(inbox[p]).code = "registerHandler" /\ held[p] \subseteq held'[p]
         \/ /\ Head(inbox[p]).code # "registerHandler"
            /\ held[p] \ {Head(inbox[p]).req} \subseteq held'[p]
  PROVE  SocketOk(p)'
<1> DEFINE m == Head(inbox[p])
<1>1. /\ inbox[p] \in Seq(Message)
      /\ inbox'[p] = Tail(inbox[p])
  BY DEF UiType
<1>2. /\ Len(inbox'[p]) = Len(inbox[p]) - 1
      /\ \A i \in 1 .. Len(inbox[p]) - 1 : inbox'[p][i] = inbox[p][i + 1]
      /\ m = inbox[p][1]
      /\ 1 \in 1 .. Len(inbox[p])
      /\ Len(inbox[p]) \in Nat
  BY <1>1, TailOfQueue
<1> HIDE DEF m
<1>3. \A i \in 1 .. Len(inbox'[p]) :
        i + 1 \in 1 .. Len(inbox[p]) /\ i + 1 # 1 /\ inbox'[p][i] = inbox[p][i + 1]
  BY <1>2
<1>4. ASSUME NEW r \in Request, Known(p, r)'
      PROVE  Known(p, r) /\ (m.code # "registerHandler" => m.req # r)
  <2>1. CASE r \in uiWork[p]
    BY <1>2, <2>1 DEF SocketOk, Known
  <2>2. CASE r \notin uiWork[p]
    <3>1. PICK i \in 1 .. Len(inbox'[p]) :
            inbox'[p][i].code # "registerHandler" /\ inbox'[p][i].req = r
      BY <1>4, <2>2 DEF Known
    <3>2. /\ i + 1 \in 1 .. Len(inbox[p]) /\ i + 1 # 1
          /\ inbox[p][i + 1].code # "registerHandler" /\ inbox[p][i + 1].req = r
      BY <1>3, <3>1
    <3>3. m.code # "registerHandler" => m.req # r
      BY <1>2, <3>2 DEF SocketOk
    <3> QED
      BY <3>2, <3>3 DEF Known
  <2> QED
    BY <2>1, <2>2
<1>5. \A r \in Request : Known(p, r)' => r \in held'[p] /\ status'[p] # "Loading"
  BY <1>4 DEF SocketOk, m
<1>6. \A i \in 1 .. Len(inbox'[p]) :
        inbox'[p][i].code # "registerHandler" => inbox'[p][i].req \notin uiWork'[p]
  BY <1>3 DEF SocketOk
<1>7. ASSUME NEW i \in 1 .. Len(inbox'[p]), NEW j \in 1 .. Len(inbox'[p]),
             inbox'[p][i].code # "registerHandler",
             inbox'[p][j].code # "registerHandler",
             inbox'[p][i].req = inbox'[p][j].req
      PROVE  i = j
  <2>1. i + 1 = j + 1
    BY <1>3, <1>7 DEF SocketOk
  <2>2. i \in Int /\ j \in Int
    BY <1>2
  <2> QED
    BY <2>1, <2>2
<1> QED
  BY <1>5, <1>6, <1>7 DEF SocketOk

\* Sending a message: an answer is to a request that had none.
LEMMA SocketSend ==
  ASSUME UiType, NEW p \in Request, SocketOk(p), NEW m \in Message, Send(p, m),
         \/ m.code = "registerHandler" /\ uiWork'[p] = uiWork[p]
         \/ m.code # "registerHandler" /\ m.req \in uiWork[p] /\ uiWork'[p] = uiWork[p] \ {m.req},
         held'[p] = held[p], status'[p] = status[p]
  PROVE  SocketOk(p)'
<1>1. inbox[p] \in Seq(Message) /\ inbox'[p] = Append(inbox[p], m)
  BY DEF UiType, Send
<1>2. /\ Len(inbox'[p]) = Len(inbox[p]) + 1
      /\ \A i \in 1 .. Len(inbox[p]) : inbox'[p][i] = inbox[p][i]
      /\ inbox'[p][Len(inbox[p]) + 1] = m
      /\ Len(inbox[p]) \in Nat
  BY <1>1, AppendToQueue
<1>3. \A i \in 1 .. Len(inbox'[p]) :
        \/ i \in 1 .. Len(inbox[p]) /\ inbox'[p][i] = inbox[p][i]
        \/ i = Len(inbox[p]) + 1 /\ inbox'[p][i] = m
  BY <1>2
<1>4. ASSUME NEW r \in Request, Known(p, r)'
      PROVE  Known(p, r)
  BY <1>3, <1>4 DEF Known
<1>5. \A r \in Request : Known(p, r)' => r \in held'[p] /\ status'[p] # "Loading"
  BY <1>4 DEF SocketOk
<1>6. \A i \in 1 .. Len(inbox'[p]) :
        inbox'[p][i].code # "registerHandler" => inbox'[p][i].req \notin uiWork'[p]
  BY <1>3 DEF SocketOk
<1>7. ASSUME NEW i \in 1 .. Len(inbox'[p]), NEW j \in 1 .. Len(inbox'[p]),
             inbox'[p][i].code # "registerHandler",
             inbox'[p][j].code # "registerHandler",
             inbox'[p][i].req = inbox'[p][j].req
      PROVE  i = j
  BY <1>3, <1>7 DEF SocketOk
<1> QED
  BY <1>5, <1>6, <1>7 DEF SocketOk

\* Freeing requests that one proxy holds leaves every other socket as it was.
LEMMA FreesSockets ==
  ASSUME BrokerInv, SocketsOk, NEW p \in Request, NEW done \in SUBSET held[p],
         NEW freed, NEW born, Frees(freed, born, done), NEW x \in Request,
         uiWork'[x] = uiWork[x], inbox'[x] = inbox[x], x # p \/ done = {}
  PROVE  SocketOk(x)'
<1>1. held[x] \cap done = {}
  <2>1. \A r \in done : via[r] = p
    BY DEF BrokerInv, HeldOk
  <2>2. \A r \in held[x] : via[r] = x
    BY DEF BrokerInv, HeldOk
  <2> QED
    BY <2>1, <2>2
<1>2. held[x] \subseteq held'[x]
  BY <1>1 DEF Frees
<1>3. status'[x] = "Loading" => status[x] = "Loading" \/ held[x] = {}
  BY DEF Frees
<1> QED
  BY <1>2, <1>3, SocketFrame DEF SocketsOk

\* What is freed had no reply, so it has one afterwards.
LEMMA FreesAnswered ==
  ASSUME BrokerType, BrokerInv, RequestAnsweredOnce,
         NEW p \in Request, NEW done \in SUBSET held[p],
         NEW freed, NEW born, \A r \in born : r \in Request => life[r] = "unborn",
         Frees(freed, born, done)
  PROVE  RequestAnsweredOnce'
<1>1. \A r \in done : life[r] = "alive"
  BY DEF BrokerInv, HeldOk
<1>2. \A r \in freed : life[r] \in {"unborn", "alive"}
  BY <1>1 DEF Frees
<1> SUFFICES ASSUME NEW r \in Request
             PROVE  replies'[r] = IF life'[r] \in {"deleting", "deleted"} THEN 1 ELSE 0
  BY DEF RequestAnsweredOnce
<1>3. /\ replies'[r] = IF r \in freed THEN replies[r] + 1 ELSE replies[r]
      /\ life'[r] = IF r \in freed THEN "deleting"
                    ELSE IF r \in born THEN "alive" ELSE life[r]
  BY DEF Frees
<1>4. replies[r] = IF life[r] \in {"deleting", "deleted"} THEN 1 ELSE 0
  BY DEF RequestAnsweredOnce
<1> QED
  BY <1>2, <1>3, <1>4

\* What only a cancellation can break, as one inductive invariant.
UncancelledInv == SocketsOk /\ RequestAnsweredOnce /\ svc = "running"

\* A request of a queue gets its reply as the head of that queue.
HeadAnswered ==
  \A r \in Request : replies'[r] > replies[r] /\ IsQueued(r) => IsHead(r)

\* A step that frees what p holds, or nothing, answers only heads of queues.
LEMMA FreesHeads ==
  ASSUME BrokerType, NEW done, \A r \in done : IsQueued(r) => IsHead(r),
         NEW freed, NEW born, Frees(freed, born, done)
  PROVE  HeadAnswered
<1> SUFFICES ASSUME NEW r \in Request, replies'[r] > replies[r], IsQueued(r)
             PROVE  IsHead(r)
  BY DEF HeadAnswered
<1>1. r \in freed
  BY DEF Frees, BrokerType
<1>2. via[r] # NoProxy
  BY RequestAssumption DEF IsQueued
<1> QED
  BY <1>1, <1>2 DEF Frees

\* A D-Bus call that arrives, and a deferred delete.
LEMMA UncancelledRequestStep ==
  ASSUME TypeOK, BrokerInv, UncancelledInv, "cancel" \notin Faults,
         NEW s \in Request, RequestStep(s)
  PROVE  UncancelledInv' /\ HeadAnswered
<1>0. BrokerType /\ UiType
  BY TypeSplit
<1>1. CASE Enqueue(s)
  <2>1. PICK freed : Frees(freed, {s}, {})
    BY <1>0, <1>1, EnqueueFrees
  <2>2. /\ uiWork' = uiWork /\ inbox' = inbox /\ svc' = svc /\ life[s] = "unborn"
        /\ {} \in SUBSET held[s]
    BY <1>1 DEF Enqueue, uiVars, MayArrive
  <2>3. SocketsOk'
    BY <2>1, <2>2, FreesSockets DEF UncancelledInv, SocketsOk
  <2>4. RequestAnsweredOnce'
    BY <1>0, <2>1, <2>2, FreesAnswered DEF UncancelledInv
  <2>5. HeadAnswered
    BY <1>0, <2>1, FreesHeads
  <2> QED
    BY <2>2, <2>3, <2>4, <2>5 DEF UncancelledInv
<1>2. ASSUME NEW p \in proxies, HandOver(s, p)
      PROVE  UncancelledInv' /\ HeadAnswered
  <2>1. p \in Request
    BY <1>0 DEF BrokerType
  <2>2. /\ status' = status /\ inbox' = inbox /\ svc' = svc /\ replies' = replies
        /\ \A x \in Request : held'[x] = IF x = p THEN held[x] \cup {s} ELSE held[x]
        /\ \A r \in Request : life'[r] = IF r = s THEN "alive" ELSE life[r]
        /\ life[s] = "unborn"
    BY <1>0, <1>2, <2>1 DEF HandOver, BrokerType, MayArrive, Lifetime
  <2>3. \A x \in Request : x # p => uiWork'[x] = uiWork[x]
    BY <1>0, <1>2 DEF HandOver, UiType
  <2>4. \/ uiWork'[p] = uiWork[p]
        \/ uiWork'[p] = uiWork[p] \cup {s} /\ status[p] = "Ready"
    BY <1>0, <1>2, <2>1 DEF HandOver, UiType
  <2>5. ~Known(p, s)
    <3>1. s \notin held[p]
      BY <2>1, <2>2 DEF BrokerInv, HeldOk
    <3> QED
      BY <2>1, <3>1 DEF UncancelledInv, SocketsOk, SocketOk
  <2>6. SocketOk(p)'
    <3>1. \A r \in Request : Known(p, r)' => Known(p, r) \/ (r = s /\ status[p] = "Ready")
      BY <2>2, <2>4 DEF Known
    <3>2. \A r \in Request : Known(p, r)' => r \in held'[p] /\ status'[p] # "Loading"
      BY <2>1, <2>2, <3>1 DEF UncancelledInv, SocketsOk, SocketOk
    <3>3. \A i \in 1 .. Len(inbox[p]) :
            inbox[p][i].code # "registerHandler" => inbox[p][i].req # s
      BY <2>5 DEF Known
    <3>4. \A i \in 1 .. Len(inbox'[p]) :
            inbox'[p][i].code # "registerHandler" => inbox'[p][i].req \notin uiWork'[p]
      BY <2>1, <2>2, <2>4, <3>3 DEF UncancelledInv, SocketsOk, SocketOk
    <3> QED
      BY <2>1, <2>2, <3>2, <3>4 DEF UncancelledInv, SocketsOk, SocketOk
  <2>7. \A x \in Request : x # p => SocketOk(x)'
    BY <2>2, <2>3, SocketFrame DEF UncancelledInv, SocketsOk
  <2>8. RequestAnsweredOnce'
    BY <2>2 DEF UncancelledInv, RequestAnsweredOnce
  <2>9. HeadAnswered
    BY <1>0, <2>2 DEF HeadAnswered, BrokerType
  <2> QED
    BY <2>2, <2>6, <2>7, <2>8, <2>9 DEF UncancelledInv, SocketsOk
<1>3. CASE DeleteRequest(s)
  <2>1. /\ uiWork' = uiWork /\ inbox' = inbox /\ svc' = svc /\ held' = held
        /\ status' = status /\ replies' = replies
        /\ life[s] = "deleting"
        /\ \A r \in Request : life'[r] = IF r = s THEN "deleted" ELSE life[r]
    BY <1>0, <1>3 DEF DeleteRequest, proxyVars, uiVars, BrokerType
  <2>2. SocketsOk'
    BY <2>1, SocketFrame DEF UncancelledInv, SocketsOk
  <2>3. RequestAnsweredOnce'
    BY <2>1 DEF UncancelledInv, RequestAnsweredOnce
  <2>4. HeadAnswered
    BY <1>0, <2>1 DEF HeadAnswered, BrokerType
  <2> QED
    BY <2>1, <2>2, <2>3, <2>4 DEF UncancelledInv
<1> QED
  BY <1>1, <1>2, <1>3 DEF RequestStep, CancelUiRequest

\* A step that answers nothing.
LEMMA NothingAnswered ==
  ASSUME BrokerType, RequestAnsweredOnce, UNCHANGED requestVars
  PROVE  RequestAnsweredOnce' /\ HeadAnswered
<1>1. life' = life /\ replies' = replies
  BY DEF requestVars
<1>2. \A r \in Request : ~(replies'[r] > replies[r])
  BY <1>1 DEF BrokerType
<1> QED
  BY <1>1, <1>2 DEF RequestAnsweredOnce, HeadAnswered

\* Socket, timer and prompt session events, and the end of a proxy.
LEMMA UncancelledProxyStep ==
  ASSUME TypeOK, BrokerInv, UncancelledInv, NEW p \in Request, ProxyStep(p)
  PROVE  UncancelledInv' /\ HeadAnswered
<1>0. BrokerType /\ UiType /\ SocketsOk /\ RequestAnsweredOnce /\ svc = "running"
  BY TypeSplit DEF UncancelledInv
<1>1. CASE OnNewConnection(p)
  <2>1. /\ status[p] = "Loading" /\ UNCHANGED requestVars /\ svc' = svc
        /\ held' = held /\ inbox' = inbox
        /\ uiWork'[p] = held[p] /\ status'[p] = "Ready"
        /\ \A x \in Request : x # p => uiWork'[x] = uiWork[x] /\ status'[x] = status[x]
    BY <1>0, <1>1 DEF OnNewConnection, PendingRequests, BrokerType, UiType
  <2>2. SocketOk(p)'
    <3>1. \A r \in Request : ~Known(p, r)
      BY <1>0, <2>1 DEF SocketsOk, SocketOk
    <3>2. \A i \in 1 .. Len(inbox[p]) :
            inbox[p][i].code # "registerHandler" => inbox[p][i].req \notin held[p]
      BY <1>0, <3>1 DEF Known, BrokerType
    <3>3. \A r \in Request : Known(p, r)' => r \in held'[p] /\ status'[p] # "Loading"
      BY <2>1, <3>1 DEF Known
    <3> QED
      BY <1>0, <2>1, <3>2, <3>3 DEF SocketsOk, SocketOk
  <2>3. \A x \in Request : x # p => SocketOk(x)'
    BY <1>0, <2>1, SocketFrame DEF SocketsOk
  <2> QED
    BY <1>0, <2>1, <2>2, <2>3, NothingAnswered DEF UncancelledInv, SocketsOk
<1>2. CASE OnDataReady(p)
  <2> DEFINE m == Head(inbox[p])
  <2>1. /\ inbox[p] # <<>> /\ inbox[p] \in Seq(Message)
        /\ inbox' = [inbox EXCEPT ![p] = Tail(@)]
        /\ uiWork' = uiWork
        /\ \A x \in Request : x # p => inbox'[x] = inbox[x]
        /\ \/ m.code = "registerHandler" /\ OnRegisterHandler(p, m)
           \/ m.code # "registerHandler" /\ OnAnswer(p, m)
           \/ m.code # "registerHandler" /\ OnStaleAnswer(p, m)
    BY <1>0, <1>2 DEF OnDataReady, UiType
  <2>2. m.code # "registerHandler" => m.req \in held[p]
    <3>1. 1 \in 1 .. Len(inbox[p]) /\ m = inbox[p][1] /\ m \in Message
      BY <2>1, TailOfQueue
    <3>2. m.code # "registerHandler" => m.req \in Request /\ Known(p, m.req)
      BY <3>1 DEF Known, Message, Answer, Register
    <3> QED
      BY <1>0, <3>2 DEF SocketsOk, SocketOk
  <2>3. CASE m.code = "registerHandler" /\ OnRegisterHandler(p, m)
    <3>1. UNCHANGED requestVars /\ svc' = svc /\ held' = held /\ status' = status
      BY <2>3 DEF OnRegisterHandler, proxyVars
    <3>2. SocketOk(p)'
      BY <1>0, <2>1, <2>3, <3>1, SocketRead DEF SocketsOk
    <3>3. \A x \in Request : x # p => SocketOk(x)'
      BY <1>0, <2>1, <3>1, SocketFrame DEF SocketsOk
    <3> QED
      BY <1>0, <3>1, <3>2, <3>3, NothingAnswered DEF UncancelledInv, SocketsOk
  <2>4. CASE m.code # "registerHandler" /\ OnAnswer(p, m)
    <3> DEFINE done == {m.req}
    <3>1. m.req \in held[p] /\ m.req \in inProgress
      BY <2>4 DEF OnAnswer, BrokerInv, HeldOk
    <3>2. Completed(done, ClearedBy(m), {}) /\ done \in SUBSET held[p]
      BY <2>4, <3>1 DEF OnAnswer
    <3> HIDE DEF m, done
    <3>3. svc' = svc /\ \A r \in done : IsQueued(r) => IsHead(r)
      BY <1>0, <3>2, CompletedFrees
    <3>4. PICK freed : Frees(freed, {}, done)
      BY <1>0, <3>2, CompletedFrees
    <3>5. SocketOk(p)'
      <4>1. held[p] \ done \subseteq held'[p]
            /\ (status'[p] = "Loading" => status[p] = "Loading" \/ held[p] = {})
        BY <3>4 DEF Frees
      <4> QED
        BY <1>0, <2>1, <2>4, <4>1, SocketRead DEF SocketsOk, m, done
    <3>6. \A x \in Request : x # p => SocketOk(x)'
      BY <1>0, <2>1, <3>2, <3>4, FreesSockets
    <3>7. RequestAnsweredOnce'
      BY <1>0, <3>2, <3>4, FreesAnswered
    <3>8. HeadAnswered
      BY <1>0, <3>3, <3>4, FreesHeads
    <3> QED
      BY <1>0, <3>3, <3>5, <3>6, <3>7, <3>8 DEF UncancelledInv, SocketsOk
  <2>5. CASE m.code # "registerHandler" /\ OnStaleAnswer(p, m)
    BY <2>2, <2>5 DEF OnStaleAnswer
  <2> QED
    BY <2>1, <2>3, <2>4, <2>5
<1>3. CASE OnDisconnected(p) \/ OnFinishedTimer(p) \/ OnPromptSessionFinished(p)
  <2>1. /\ UNCHANGED requestVars /\ svc' = svc /\ held' = held
        /\ inbox' = inbox /\ uiWork' = uiWork /\ status' = status
    BY <1>3 DEF OnDisconnected, OnFinishedTimer, OnPromptSessionFinished, uiVars
  <2>2. SocketsOk'
    BY <1>0, <2>1, SocketFrame DEF SocketsOk
  <2> QED
    BY <1>0, <2>1, <2>2, NothingAnswered DEF UncancelledInv
<1>4. CASE DeleteProxy(p)
  <2> DEFINE done == CancelledBy(p)
  <2>1. /\ Completed(done, done, {p}) /\ done \in SUBSET held[p]
        /\ uiWork'[p] = {} /\ inbox'[p] = <<>>
        /\ \A x \in Request : x # p => uiWork'[x] = uiWork[x] /\ inbox'[x] = inbox[x]
    BY <1>0, <1>4 DEF DeleteProxy, CancelledBy, UiType
  <2> HIDE DEF done
  <2>2. svc' = svc /\ \A r \in done : IsQueued(r) => IsHead(r)
    BY <1>0, <2>1, CompletedFrees
  <2>3. PICK freed : Frees(freed, {}, done)
    BY <1>0, <2>1, CompletedFrees
  <2>4. SocketOk(p)'
    BY <2>1 DEF SocketOk, Known
  <2>5. \A x \in Request : x # p => SocketOk(x)'
    BY <1>0, <2>1, <2>3, FreesSockets
  <2>6. RequestAnsweredOnce'
    BY <1>0, <2>1, <2>3, FreesAnswered
  <2>7. HeadAnswered
    BY <1>0, <2>2, <2>3, FreesHeads
  <2> QED
    BY <1>0, <2>2, <2>4, <2>5, <2>6, <2>7 DEF UncancelledInv, SocketsOk
<1> QED
  BY <1>1, <1>2, <1>3, <1>4 DEF ProxyStep

\* The steps of a UI process answer nothing by themselves.
LEMMA UncancelledUiStep ==
  ASSUME TypeOK, BrokerInv, UncancelledInv, NEW p \in Request, UiStep(p)
  PROVE  UncancelledInv' /\ HeadAnswered
<1>0. BrokerType /\ UiType /\ SocketsOk /\ RequestAnsweredOnce /\ svc = "running"
  BY TypeSplit DEF UncancelledInv
<1>1. UNCHANGED requestVars /\ svc' = svc /\ held' = held /\ status' = status
  BY DEF UiStep, UiAnswer, UiRegister, UiExit, proxyVars
<1>2. ASSUME NEW r \in uiWork[p], NEW code \in {"finished", "failed"}, UiAnswer(p, r, code)
      PROVE  SocketsOk'
  <2> DEFINE m == [code |-> code, req |-> r]
  <2>1. m \in Message /\ m.code # "registerHandler" /\ m.req = r
    BY <1>0 DEF UiType, Message, Answer
  <2>2. /\ Send(p, m) /\ uiWork'[p] = uiWork[p] \ {r}
        /\ \A x \in Request : x # p => uiWork'[x] = uiWork[x] /\ inbox'[x] = inbox[x]
    BY <1>0, <1>2 DEF UiAnswer, Unanswered, Send, UiType
  <2> HIDE DEF m
  <2>3. SocketOk(p)'
    BY <1>0, <1>1, <2>1, <2>2, SocketSend DEF SocketsOk
  <2>4. \A x \in Request : x # p => SocketOk(x)'
    BY <1>0, <1>1, <2>2, SocketFrame DEF SocketsOk
  <2> QED
    BY <2>3, <2>4 DEF SocketsOk
<1>3. ASSUME NEW h \in Handler, UiRegister(p, h)
      PROVE  SocketsOk'
  <2> DEFINE m == [code |-> "registerHandler", handler |-> h]
  <2>1. m \in Message /\ m.code = "registerHandler"
    BY DEF Message, Register
  <2>2. /\ Send(p, m) /\ uiWork' = uiWork
        /\ \A x \in Request : x # p => inbox'[x] = inbox[x]
    BY <1>0, <1>3 DEF UiRegister, Send, UiType
  <2> HIDE DEF m
  <2>3. SocketOk(p)'
    BY <1>0, <1>1, <2>1, <2>2, SocketSend DEF SocketsOk
  <2>4. \A x \in Request : x # p => SocketOk(x)'
    BY <1>0, <1>1, <2>2, SocketFrame DEF SocketsOk
  <2> QED
    BY <2>3, <2>4 DEF SocketsOk
<1>4. ASSUME UiExit(p)
      PROVE  SocketsOk'
  <2>1. inbox' = inbox /\ \A x \in Request : uiWork'[x] \subseteq uiWork[x]
    BY <1>0, <1>4 DEF UiExit, UiType
  <2> QED
    BY <1>0, <1>1, <2>1, SocketFrame DEF SocketsOk
<1>5. SocketsOk'
  BY <1>2, <1>3, <1>4 DEF UiStep
<1> QED
  BY <1>0, <1>1, <1>5, NothingAnswered DEF UncancelledInv

LEMMA UncancelledStep ==
  ASSUME TypeOK, BrokerInv, UncancelledInv, "cancel" \notin Faults, [Next]_vars
  PROVE  UncancelledInv' /\ HeadAnswered
<1>1. CASE UNCHANGED vars
  <2>1. /\ BrokerType /\ UNCHANGED requestVars /\ svc' = svc
        /\ held' = held /\ status' = status /\ uiWork' = uiWork /\ inbox' = inbox
    BY <1>1, TypeSplit DEF vars, proxyVars, uiVars
  <2>2. SocketsOk'
    BY <2>1, SocketFrame DEF UncancelledInv, SocketsOk
  <2> QED
    BY <2>1, <2>2, NothingAnswered DEF UncancelledInv
<1> QED
  BY <1>1, UncancelledRequestStep, UncancelledProxyStep, UncancelledUiStep DEF Next

LEMMA UncancelledInit == Init => UncancelledInv
<1> SUFFICES ASSUME Init
             PROVE  UncancelledInv
  OBVIOUS
<1>1. \A p \in Request : inbox[p] = <<>> /\ uiWork[p] = {}
  BY DEF Init
<1>2. SocketsOk
  BY <1>1 DEF SocketsOk, SocketOk, Known
<1>3. RequestAnsweredOnce /\ svc = "running"
  BY DEF Init, RequestAnsweredOnce
<1> QED
  BY <1>2, <1>3 DEF UncancelledInv

LEMMA UncancelledCorrect ==
  ASSUME "cancel" \notin Faults
  PROVE  Spec => []UncancelledInv /\ [][HeadAnswered]_vars
<1>1. IInv /\ UncancelledInv /\ [Next]_vars => UncancelledInv' /\ HeadAnswered
  BY UncancelledStep DEF IInv, BrokerInv
<1> QED
  BY <1>1, UncancelledInit, IInvCorrect, PTL DEF Spec

\* Unless signond cancels a request, the service never stops on an answer to a
\* request its proxy no longer has (the Q_ASSERT of UiProxyPrivate::onDataReady)
\* nor on a completed request with an empty queue, whichever UI processes,
\* sockets and prompt sessions fail.
THEOREM NeverCrashesUncancelled ==
  ASSUME "cancel" \notin Faults
  PROVE  Spec => []NeverCrashes
<1>1. UncancelledInv => NeverCrashes
  BY DEF UncancelledInv, NeverCrashes
<1> QED
  BY <1>1, UncancelledCorrect, PTL

\* Unless signond cancels a request, the "not the first in the queue" branch of
\* onRequestCompleted is never taken: a queued request is answered as the head
\* of its queue.
THEOREM CompletedIsFirstUncancelled ==
  ASSUME "cancel" \notin Faults
  PROVE  Spec => CompletedIsFirst
BY UncancelledCorrect, PTL DEF CompletedIsFirst, HeadAnswered

\* Unless signond cancels a request, queryDialog calls, too, get exactly one
\* D-Bus reply by the time their Request object goes away.
THEOREM RequestAnsweredOnceUncancelled ==
  ASSUME "cancel" \notin Faults
  PROVE  Spec => []RequestAnsweredOnce
<1>1. UncancelledInv => RequestAnsweredOnce
  BY DEF UncancelledInv
<1> QED
  BY <1>1, UncancelledCorrect, PTL

=============================================================================
