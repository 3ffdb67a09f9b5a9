----------------------------- MODULE PartsProofs -----------------------------
(***************************************************************************)
(* Machine-checked proofs about the parts that MCParts runs one at a time: *)
(* LibaccountsService, LoopbackServer, OAuth, ApplicationManager,          *)
(* IdentityData and Ipc.  They share no state; each theorem is about its   *)
(* part alone.                                                             *)
(***************************************************************************)
EXTENDS LibaccountsService, LoopbackServer, OAuth, ApplicationManager,
        IdentityData, Ipc, SequenceTheorems, WellFoundedInduction, TLAPS

(***************************************************************************)
(* LibaccountsService: no store call is answered twice, for any calls and  *)
(* accounts, whether Account objects are shared or not.                    *)
(***************************************************************************)

\* A call that waits in m_pendingWrites has no reply, and waits there once.
WaitsOnce ==
  /\ \A o \in Object : pendingWrites[o] # NoCaller =>
       callState[pendingWrites[o]] = "held" /\ storeReplies[pendingWrites[o]] = <<>>
  /\ \A o, q \in Object : pendingWrites[o] # NoCaller /\ pendingWrites[o] = pendingWrites[q] => o = q

\* A call that has not been made has no reply.
NotBefore == \A c \in StoreCall : callState[c] = "none" => storeReplies[c] = <<>>

\* Only calls that passed the access check are ever written.
WritersAllowed == syncs \in [Object -> Seq(StoreCall \ Intruder)]

StoreInv == StoreTypeOK /\ WaitsOnce /\ NotBefore /\ WritersAllowed /\ RepliedOnce

StoreReply == {"denied", "stored", "error"}

LEMMA AnswerOnce ==
  ASSUME NEW c \in StoreCall, NEW reply \in StoreReply,
         storeReplies \in [StoreCall -> Seq(StoreReply)],
         storeReplies[c] = <<>>, RepliedOnce, Answer(c, reply)
  PROVE  /\ storeReplies' \in [StoreCall -> Seq(StoreReply)]
         /\ RepliedOnce'
         /\ \A d \in StoreCall \ {c} : storeReplies'[d] = storeReplies[d]
<1>1. Append(storeReplies[c], reply) \in Seq(StoreReply) /\ Len(Append(storeReplies[c], reply)) = 1
  OBVIOUS
<1>. QED
  BY <1>1 DEF Answer, RepliedOnce

LEMMA StoreInitInv == ASSUME StoreInit PROVE StoreInv
<1>1. \A c \in StoreCall : storeReplies[c] = <<>>
  BY DEF StoreInit
<1>2. /\ <<>> \in Seq({"denied", "stored", "error"}) /\ Len(<<>>) <= 1
      /\ <<>> \in Seq(StoreCall \ Intruder)
  OBVIOUS
<1>. QED
  BY <1>1, <1>2, StoreAssumption
     DEF StoreInit, StoreInv, StoreTypeOK, WaitsOnce, NotBefore, WritersAllowed, RepliedOnce

LEMMA StoreNextInv == ASSUME StoreInv, [StoreNext]_storeVars PROVE StoreInv'
<1>. USE StoreAssumption DEF StoreInv, StoreReply
<1>1. ASSUME NEW c \in StoreCall, AccessDenied(c) PROVE StoreInv'
  <2>1. storeReplies[c] = <<>>
    BY <1>1 DEF AccessDenied, NotBefore
  <2>2. /\ storeReplies' \in [StoreCall -> Seq(StoreReply)]
        /\ RepliedOnce'
        /\ \A d \in StoreCall \ {c} : storeReplies'[d] = storeReplies[d]
    BY <1>1, <2>1, AnswerOnce DEF AccessDenied, StoreTypeOK
  <2>3. callState' = [callState EXCEPT ![c] = "held"] /\ callState[c] = "none"
    BY <1>1 DEF AccessDenied
  <2>4. StoreTypeOK'
    BY <1>1, <2>2 DEF AccessDenied, StoreTypeOK
  <2>5. NotBefore'
    BY <2>2, <2>3 DEF NotBefore, StoreTypeOK
  <2>6. pendingWrites' = pendingWrites /\ \A o \in Object : pendingWrites[o] # c
    BY <1>1, <2>3 DEF AccessDenied, WaitsOnce, StoreTypeOK
  <2>7. WaitsOnce'
    BY <2>2, <2>3, <2>6 DEF WaitsOnce, StoreTypeOK
  <2>8. WritersAllowed'
    BY <1>1 DEF AccessDenied, WritersAllowed
  <2>. QED
    BY <2>2, <2>4, <2>5, <2>7, <2>8
<1>2. ASSUME NEW c \in StoreCall, Unloadable(c) PROVE StoreInv'
  <2>1. StoreTypeOK'
    BY <1>2 DEF Unloadable, StoreTypeOK
  <2>2. WaitsOnce'
    BY <1>2 DEF Unloadable, WaitsOnce, StoreTypeOK
  <2>3. NotBefore' /\ RepliedOnce' /\ WritersAllowed'
    BY <1>2 DEF Unloadable, NotBefore, RepliedOnce, WritersAllowed, StoreTypeOK
  <2>. QED
    BY <2>1, <2>2, <2>3
<1>3. ASSUME NEW c \in StoreCall, WriteChanges(c) PROVE StoreInv'
  <2>. DEFINE o == ObjectOf(c)
  <2>1. o \in Object
    BY DEF ObjectOf, Object
  <2>2. /\ callState[c] = "none" /\ callState' = [callState EXCEPT ![c] = "held"]
        /\ pendingWrites' = [pendingWrites EXCEPT ![o] = c]
        /\ storeReplies' = storeReplies /\ storedCalls' = storedCalls
    BY <1>3 DEF WriteChanges
  <2>3. storeReplies[c] = <<>>
    BY <2>2 DEF NotBefore
  <2>4. \A q \in Object : pendingWrites[q] # c
    BY <2>2 DEF WaitsOnce, StoreTypeOK
  <2>. HIDE DEF o
  <2>5. StoreTypeOK'
    BY <2>1, <2>2 DEF StoreTypeOK
  <2>6. WaitsOnce'
    BY <2>1, <2>2, <2>3, <2>4 DEF WaitsOnce, StoreTypeOK
  <2>7. NotBefore' /\ RepliedOnce'
    BY <2>2 DEF NotBefore, RepliedOnce, StoreTypeOK
  <2>8. WritersAllowed'
    <3>1. /\ syncs' = [syncs EXCEPT ![o] = Append(syncs[o], c)]
          /\ c \in StoreCall \ Intruder
      BY <1>3 DEF WriteChanges, o
    <3>2. Append(syncs[o], c) \in Seq(StoreCall \ Intruder)
      BY <2>1, <3>1 DEF WritersAllowed
    <3>. QED
      BY <3>1, <3>2 DEF WritersAllowed
  <2>. QED
    BY <2>5, <2>6, <2>7, <2>8
<1>4. ASSUME NEW o \in Object, NEW reply \in {"stored", "error"}, OnAccountSynced(o, reply)
      PROVE  StoreInv'
  <2>1. /\ callState' = callState
        /\ pendingWrites' = [pendingWrites EXCEPT ![o] = NoCaller]
    BY <1>4 DEF OnAccountSynced, Erased
  <2>2. WritersAllowed' /\ storedCalls' \subseteq StoreCall \ Intruder
    <3>1. syncs[o] \in Seq(StoreCall \ Intruder) /\ syncs[o] # <<>>
      BY <1>4 DEF OnAccountSynced, WritersAllowed
    <3>2. /\ Tail(syncs[o]) \in Seq(StoreCall \ Intruder)
          /\ Head(syncs[o]) \in StoreCall \ Intruder
      BY <3>1
    <3>. QED
      BY <1>4, <3>2 DEF OnAccountSynced, WritersAllowed, StoreTypeOK
  <2>3. CASE pendingWrites[o] = NoCaller
    <3>1. storeReplies' = storeReplies
      BY <1>4, <2>3 DEF OnAccountSynced, Pending
    <3>. QED
      BY <1>4, <2>1, <2>2, <3>1 DEF StoreTypeOK, WaitsOnce, NotBefore, RepliedOnce
  <2>4. CASE pendingWrites[o] # NoCaller
    <3>. DEFINE c == pendingWrites[o]
    <3>1. c \in StoreCall /\ callState[c] = "held" /\ storeReplies[c] = <<>>
      BY <2>4 DEF StoreTypeOK, WaitsOnce
    <3>2. Answer(c, reply)
      BY <1>4, <2>4 DEF OnAccountSynced, Pending
    <3>3. \A q \in Object \ {o} : pendingWrites[q] # c
      BY <2>4 DEF WaitsOnce
    <3>. HIDE DEF c
    <3>4. /\ storeReplies' \in [StoreCall -> Seq(StoreReply)]
          /\ RepliedOnce'
          /\ \A d \in StoreCall \ {c} : storeReplies'[d] = storeReplies[d]
      BY <3>1, <3>2, AnswerOnce DEF StoreTypeOK
    <3>5. StoreTypeOK'
      BY <1>4, <2>1, <2>2, <3>4 DEF StoreTypeOK
    <3>6. WaitsOnce'
      BY <2>1, <3>3, <3>4 DEF WaitsOnce, StoreTypeOK
    <3>7. NotBefore'
      BY <2>1, <3>1, <3>4 DEF NotBefore
    <3>. QED
      BY <2>2, <3>4, <3>5, <3>6, <3>7
  <2>. QED
    BY <2>3, <2>4
<1>5. ASSUME NEW o \in Object, DeleteAccount(o) PROVE StoreInv'
  <2>1. storedCalls' \subseteq StoreCall \ Intruder
    <3>1. syncs[o] \in Seq(StoreCall \ Intruder)
      BY DEF WritersAllowed
    <3>2. \A i \in DOMAIN syncs[o] : syncs[o][i] \in StoreCall \ Intruder
      BY <3>1
    <3>. QED
      BY <1>5, <3>2 DEF DeleteAccount, StoreTypeOK
  <2>2. WritersAllowed'
    <3>1. <<>> \in Seq(StoreCall \ Intruder)
      OBVIOUS
    <3>. QED
      BY <1>5, <3>1 DEF DeleteAccount, WritersAllowed
  <2>3. StoreTypeOK'
    BY <1>5, <2>1 DEF DeleteAccount, StoreTypeOK
  <2>. QED
    BY <1>5, <2>2, <2>3 DEF DeleteAccount, WaitsOnce, NotBefore, RepliedOnce
<1>6. ASSUME NEW a \in StoredAccount, AccountRemoved(a) PROVE StoreInv'
  BY <1>6 DEF AccountRemoved, StoreTypeOK, WaitsOnce, NotBefore, WritersAllowed, RepliedOnce
<1>7. CASE UNCHANGED storeVars
  BY <1>7 DEF storeVars, StoreTypeOK, WaitsOnce, NotBefore, WritersAllowed, RepliedOnce
<1>. QED
  BY <1>1, <1>2, <1>3, <1>4, <1>5, <1>6, <1>7 DEF StoreNext

\* No call of AccountManager.store() has a second reply: onAccountSynced()
\* and onAccountError() run once for each connection of a shared Account
\* object, and find its pending write only once.
THEOREM StoreRepliedOnce == StoreSpec => []RepliedOnce
<1>1. StoreSpec => []StoreInv
  BY StoreInitInv, StoreNextInv, PTL DEF StoreSpec
<1>2. StoreInv => RepliedOnce
  BY DEF StoreInv
<1>. QED
  BY <1>1, <1>2, PTL

-----------------------------------------------------------------------------
(***************************************************************************)
(* LoopbackServer: the server listens as its properties say, for any       *)
(* ports, any programs that take some of them and any number of attempts.  *)
(***************************************************************************)
ItemType == [complete : BOOLEAN, wanted : BOOLEAN, port : 0 .. PortSpace - 1,
             queued : BOOLEAN, events : Nat, failed : BOOLEAN, settings : Nat]

\* m_updateQueued says whether there is an update to come: one event, or
\* componentComplete().
OneUpdate ==
  item.events = IF item.complete /\ item.queued THEN 1 ELSE 0

InWindow(port) == \E a \in 0 .. MaxAttempts : bound = (port + a) % PortSpace

\* What holds of the server while no update is to come, and its port always.
InSync ==
  /\ ~item.complete => item.queued /\ bound = NotBound
  /\ ~item.queued => item.wanted = IsListening \/ (item.wanted /\ item.failed)
  /\ IsListening => InWindow(item.port)

LoopbackInv == item \in ItemType /\ bound \in 0 .. PortSpace /\ OneUpdate /\ InSync

LEMMA LoopbackInitInv == ASSUME LoopbackInit PROVE LoopbackInv
<1>. USE LoopbackAssumption
<1>1. item \in ItemType
  BY DEF LoopbackInit, ItemType
<1>. QED
  BY <1>1 DEF LoopbackInit, LoopbackInv, OneUpdate, InSync, IsListening, NotBound

\* listen() takes one of the ports it tries.
LEMMA FirstFreeTried ==
  ASSUME NEW p \in 0 .. PortSpace - 1, Free(p) # {}
  PROVE  \E a \in 0 .. MaxAttempts : FirstFree(p) = (p + a) % PortSpace
<1>. USE LoopbackAssumption
<1>. DEFINE first == CHOOSE a \in Free(p) : \A b \in Free(p) : a <= b
<1>1. Free(p) \subseteq 0 .. MaxAttempts
  BY DEF Free
<1>2. \E a \in Free(p) : \A b \in Free(p) : a <= b
  <2>. DEFINE R == OpToRel(<, Nat)
  <2>1. IsWellFoundedOn(R, Nat)
    BY NatLessThanWellFounded
  <2>2. \A a, b \in Nat : <<b, a>> \notin R => a <= b
    BY DEF OpToRel
  <2>3. Free(p) \subseteq Nat
    BY <1>1
  <2>. HIDE DEF R
  <2>4. PICK a \in Free(p) : \A b \in Free(p) : <<b, a>> \notin R
    BY <2>1, <2>3, WFMin
  <2>. QED
    BY <2>2, <2>3, <2>4
<1>3. first \in Free(p)
  BY <1>2
<1>4. Tried(p)[first] = (p + first) % PortSpace
  BY <1>1, <1>3 DEF Tried
<1>. QED
  BY <1>1, <1>3, <1>4 DEF FirstFree

\* update(), reached with the flag set and its event taken.
LEMMA UpdateInSync ==
  ASSUME NEW i \in ItemType, Update(i), i.complete, i.events = 0,
         bound \in 0 .. PortSpace, IsListening => InWindow(i.port)
  PROVE  LoopbackInv'
<1>. USE LoopbackAssumption DEF LoopbackInv
<1>1. item' \in ItemType /\ item'.complete /\ ~item'.queued /\ item'.events = 0
  BY DEF Update, Updated, ItemType
<1>2. item'.port = i.port /\ item'.wanted = i.wanted
  BY DEF Update, Updated, ItemType
<1>3. OneUpdate'
  BY <1>1 DEF OneUpdate
<1>4. CASE i.wanted = IsListening
  <2>1. bound' = bound
    BY <1>4 DEF Update
  <2>. QED
    BY <1>1, <1>2, <1>3, <1>4, <2>1 DEF InSync, IsListening, InWindow, NotBound
<1>5. CASE i.wanted /\ ~IsListening /\ Free(i.port) = {}
  <2>1. item'.failed /\ bound' = NotBound
    BY <1>5 DEF Update, Updated, ItemType
  <2>. QED
    BY <1>1, <1>2, <1>3, <1>5, <2>1 DEF InSync, IsListening, NotBound
<1>6. CASE i.wanted /\ ~IsListening /\ Free(i.port) # {}
  <2>1. bound' = FirstFree(i.port)
    BY <1>6 DEF Update
  <2>2. i.port \in 0 .. PortSpace - 1
    BY DEF ItemType
  <2>3. PICK a \in 0 .. MaxAttempts : bound' = (i.port + a) % PortSpace
    BY <1>6, <2>1, <2>2, FirstFreeTried
  <2>4. bound' \in 0 .. PortSpace - 1
    BY <2>2, <2>3
  <2>5. bound' # NotBound
    BY <2>4 DEF NotBound
  <2>6. item'.wanted = IsListening'
    BY <1>2, <1>6, <2>5, Zenon DEF IsListening, NotBound
  <2>7. InWindow(item.port)'
    BY <1>2, <2>3 DEF InWindow
  <2>8. InSync'
    BY <1>1, <2>6, <2>7 DEF InSync
  <2>. QED
    BY <1>1, <1>3, <2>4, <2>8
<1>7. CASE ~i.wanted /\ IsListening
  <2>1. bound' = NotBound
    BY <1>7 DEF Update
  <2>2. ~item'.wanted /\ ~IsListening'
    BY <1>2, <1>7, <2>1 DEF IsListening, NotBound
  <2>3. (item'.wanted = IsListening') /\ item'.wanted \in BOOLEAN
    BY <1>1, <2>2 DEF ItemType, IsListening
  <2>4. InSync'
    BY <1>1, <2>2, <2>3 DEF InSync
  <2>. QED
    BY <1>1, <1>3, <2>1, <2>4 DEF NotBound
<1>. QED
  BY <1>4, <1>5, <1>6, <1>7 DEF ItemType, IsListening

\* queueUpdate(), on a property that has just been assigned.
LEMMA QueuedInSync ==
  ASSUME LoopbackInv, NEW i \in ItemType, i.complete = item.complete,
         i.queued = item.queued, i.events = item.events,
         item' = Queued(i), bound' = bound, IsListening => i.port = item.port
  PROVE  LoopbackInv'
<1>. USE DEF LoopbackInv
<1>1. /\ item' \in ItemType /\ item'.queued
      /\ item'.complete = item.complete /\ item'.port = i.port
  <2>1. CASE i.queued
    BY <2>1 DEF Queued
  <2>2. CASE ~i.queued
    <3>1. item' = [i EXCEPT !.queued = TRUE, !.events = i.events + 1]
      BY <2>2 DEF Queued
    <3>2. i.events + 1 \in Nat
      BY DEF ItemType
    <3>. QED
      BY <3>1, <3>2 DEF ItemType
  <2>. QED
    BY <2>1, <2>2
<1>2. item.queued => item'.events = item.events
  BY DEF Queued
<1>3. ~item.queued => item'.events = item.events + 1
  BY DEF Queued, ItemType
<1>4. OneUpdate'
  <2>1. CASE item.queued
    BY <1>1, <1>2, <2>1 DEF OneUpdate
  <2>2. CASE ~item.queued
    <3>1. item.complete /\ item.events = 0
      BY <2>2 DEF OneUpdate, InSync
    <3>2. item'.events = 1
      BY <1>3, <2>2, <3>1
    <3>. QED
      BY <1>1, <3>1, <3>2 DEF OneUpdate
  <2>. QED
    BY <2>1, <2>2
<1>5. InSync'
  BY <1>1 DEF InSync, IsListening, InWindow, NotBound
<1>. QED
  BY <1>1, <1>4, <1>5

LEMMA SetType ==
  ASSUME item \in ItemType
  PROVE  /\ Set(item) \in ItemType /\ Set(item).complete = item.complete
         /\ Set(item).queued = item.queued /\ Set(item).events = item.events
         /\ Set(item).port = item.port
BY DEF Set, ItemType

LEMMA LoopbackNextInv ==
  ASSUME LoopbackInv, [LoopbackNext]_loopbackVars
  PROVE  LoopbackInv'
<1>. USE LoopbackAssumption DEF LoopbackInv
<1>1. ASSUME NEW p \in Port, SetPort(p) PROVE LoopbackInv'
  <2>. DEFINE i == [Set(item) EXCEPT !.port = p]
  <2>1. item' = Queued(i) /\ bound' = bound /\ ~IsListening
    BY <1>1 DEF SetPort
  <2>2. /\ i \in ItemType /\ i.complete = item.complete
        /\ i.queued = item.queued /\ i.events = item.events
    BY SetType DEF ItemType
  <2>. HIDE DEF i
  <2>. QED
    BY <2>1, <2>2, QueuedInSync
<1>2. CASE SetListening
  <2>. DEFINE i == [Set(item) EXCEPT !.wanted = ~@]
  <2>1. item' = Queued(i) /\ bound' = bound
    BY <1>2 DEF SetListening
  <2>2. /\ i \in ItemType /\ i.complete = item.complete /\ i.port = item.port
        /\ i.queued = item.queued /\ i.events = item.events
    BY SetType DEF ItemType
  <2>. HIDE DEF i
  <2>. QED
    BY <2>1, <2>2, QueuedInSync
<1>3. CASE ComponentComplete
  <2>. DEFINE i == [item EXCEPT !.complete = TRUE]
  <2>1. Update(i) /\ ~item.complete
    BY <1>3 DEF ComponentComplete
  <2>2. i \in ItemType /\ i.complete /\ i.events = 0 /\ ~IsListening
    BY <2>1 DEF ItemType, OneUpdate, InSync, IsListening
  <2>. HIDE DEF i
  <2>. QED
    BY <2>1, <2>2, UpdateInSync
<1>4. CASE QueuedUpdate
  <2>. DEFINE i == [item EXCEPT !.events = @ - 1]
  <2>1. Update(i) /\ item.events > 0
    BY <1>4 DEF QueuedUpdate
  <2>2. i \in ItemType /\ i.complete /\ i.events = 0 /\ i.port = item.port
    BY <2>1 DEF ItemType, OneUpdate
  <2>3. IsListening => InWindow(i.port)
    BY <2>2 DEF InSync
  <2>. HIDE DEF i
  <2>. QED
    BY <2>1, <2>2, <2>3, UpdateInSync
<1>5. ASSUME UNCHANGED <<item, bound>> PROVE LoopbackInv'
  BY <1>5 DEF OneUpdate, InSync, IsListening, InWindow, NotBound
<1>6. ASSUME NEW c \in 1 .. HttpConnection,
             NewConnection(c) \/ Disconnected(c) \/ \E n \in 1 .. 2 : ReadyRead(c, n)
      PROVE  UNCHANGED <<item, bound>>
  BY <1>6 DEF NewConnection, Disconnected, ReadyRead
<1>7. CASE UNCHANGED loopbackVars
  BY <1>5, <1>7 DEF loopbackVars
<1>. QED
  BY <1>1, <1>2, <1>3, <1>4, <1>5, <1>6, <1>7 DEF LoopbackNext

\* Once no update() is queued, the server listens exactly when its property
\* says so (or found no free port), and on a port that it was told to try.
THEOREM ListensAsToldCorrect == LoopbackSpec => []ListensAsTold
<1>1. LoopbackSpec => []LoopbackInv
  BY LoopbackInitInv, LoopbackNextInv, PTL DEF LoopbackSpec
<1>2. LoopbackInv => ListensAsTold
  BY DEF LoopbackInv, OneUpdate, InSync, InWindow, ItemType, ListensAsTold
<1>. QED
  BY <1>1, <1>2, PTL

-----------------------------------------------------------------------------
(***************************************************************************)
(* LoopbackServer: what is reported of the requests, when the browser      *)
(* makes one connection after the other.  m_data is never emptied, so that *)
(* the line reported is always that of the first request.                  *)
(***************************************************************************)
Piece == Nat \X Nat

SocketType == [state : {"none", "open", "closing", "closed"}, arrived : Nat]

\* The data begin with the line of the first connection; until they have all of
\* it there is no other connection.
FirstConnection(d) == \A i \in 1 .. Len(d) : i <= 2 => d[i] = <<1, i>>

VisitedInv ==
  /\ data \in Seq(Piece)
  /\ sockets \in [1 .. HttpConnection -> SocketType]
  /\ visited \in Seq({RequestLine(1)})
  /\ visited # <<>> => 1 \in 1 .. HttpConnection
  /\ FirstConnection(data)
  /\ Len(data) < 2 => \A c \in 1 .. HttpConnection :
       IF c = 1 THEN sockets[c].state \in {"none", "open"} /\ sockets[c].arrived = Len(data)
                ELSE sockets[c].state = "none"

\* The pieces of a request line that arrive together.
LEMMA ArrivedPieces ==
  ASSUME NEW c \in Nat, NEW a \in Nat, NEW n \in 1 .. 2, a + n <= 2
  PROVE  LET s == SubSeq(RequestLine(c), a + 1, a + n)
         IN  s \in Seq(Piece) /\ Len(s) = n /\ \A i \in 1 .. n : s[i] = <<c, a + i>>
<1>. DEFINE s == SubSeq(RequestLine(c), a + 1, a + n)
<1>1. \A k \in 1 .. 2 : RequestLine(c)[k] = <<c, k>>
  BY DEF RequestLine
<1>2. \A k \in a + 1 .. a + n : k \in 1 .. 2
  OBVIOUS
<1>3. \A k \in a + 1 .. a + n : RequestLine(c)[k] \in Piece
  <2>1. \A k \in 1 .. 2 : <<c, k>> \in Piece
    BY DEF Piece
  <2>. QED
    BY <1>1, <1>2, <2>1
<1>4. a + 1 \in Int /\ a + n \in Int
  OBVIOUS
<1>5. /\ s \in Seq(Piece)
      /\ Len(s) = IF a + 1 <= a + n THEN (a + n) - (a + 1) + 1 ELSE 0
      /\ \A i \in 1 .. (a + n) - (a + 1) + 1 : s[i] = RequestLine(c)[(a + 1) + i - 1]
  BY <1>3, <1>4, SubSeqProperties
<1>. HIDE DEF s
<1>6. (a + n) - (a + 1) + 1 = n
  OBVIOUS
<1>7. \A i \in 1 .. n : (a + 1) + i - 1 = a + i /\ a + i \in 1 .. 2
  OBVIOUS
<1>8. s \in Seq(Piece) /\ Len(s) = n /\ \A i \in 1 .. n : s[i] = <<c, a + i>>
  BY <1>1, <1>5, <1>6, <1>7
<1>. QED
  BY <1>8 DEF s

\* The first line of such data.
LEMMA FirstLineOfFirst ==
  ASSUME NEW d \in Seq(Piece), FirstConnection(d)
  PROVE  /\ Len(d) < 2 => LineEnds(d) = {}
         /\ Len(d) >= 2 => LineEnds(d) # {} /\ FirstLine(d) = RequestLine(1)
<1>1. DOMAIN d = 1 .. Len(d) /\ Len(d) \in Nat
  OBVIOUS
<1>2. ASSUME Len(d) < 2
      PROVE  LineEnds(d) = {}
  <2>1. \A i \in DOMAIN d : d[i] = <<1, 1>>
    BY <1>1, <1>2 DEF FirstConnection
  <2>. QED
    BY <2>1 DEF LineEnds
<1>3. ASSUME Len(d) >= 2
      PROVE  LineEnds(d) # {} /\ FirstLine(d) = RequestLine(1)
  <2>1. d[1] = <<1, 1>> /\ d[2] = <<1, 2>> /\ 1 \in DOMAIN d /\ 2 \in DOMAIN d
    BY <1>1, <1>3 DEF FirstConnection
  <2>2. 2 \in LineEnds(d) /\ 1 \notin LineEnds(d) /\ LineEnds(d) \subseteq 1 .. Len(d)
    BY <1>1, <2>1 DEF LineEnds
  <2>3. \A j \in LineEnds(d) : 2 <= j
    BY <1>1, <2>2
  <2>. DEFINE first == CHOOSE i \in LineEnds(d) : \A j \in LineEnds(d) : i <= j
  <2>4. first \in LineEnds(d) /\ \A j \in LineEnds(d) : first <= j
    BY <2>2, <2>3
  <2>. HIDE DEF first
  <2>5. first = 2
    BY <1>1, <2>2, <2>3, <2>4
  <2>6. \A i \in 1 .. 2 : d[i] \in Piece
    BY <1>1, <1>3
  <2>7. /\ SubSeq(d, 1, 2) \in Seq(Piece)
        /\ Len(SubSeq(d, 1, 2)) = IF 1 <= 2 THEN 2 - 1 + 1 ELSE 0
        /\ \A i \in 1 .. 2 - 1 + 1 : SubSeq(d, 1, 2)[i] = d[1 + i - 1]
    BY <2>6, SubSeqProperties
  <2>8. /\ RequestLine(1) \in Seq(Piece) /\ Len(RequestLine(1)) = 2
        /\ RequestLine(1)[1] = <<1, 1>> /\ RequestLine(1)[2] = <<1, 2>>
    BY DEF RequestLine, Piece
  <2>9. \A i \in 1 .. 2 : SubSeq(d, 1, 2)[i] = RequestLine(1)[i]
    <3>1. /\ 1 \in 1 .. 2 - 1 + 1 /\ 2 \in 1 .. 2 - 1 + 1
          /\ 1 + 1 - 1 = 1 /\ 1 + 2 - 1 = 2
          /\ \A i \in 1 .. 2 : i = 1 \/ i = 2
      OBVIOUS
    <3>2. SubSeq(d, 1, 2)[1] = d[1] /\ SubSeq(d, 1, 2)[2] = d[2]
      BY <2>7, <3>1
    <3>. QED
      BY <2>1, <2>8, <3>1, <3>2
  <2>10. SubSeq(d, 1, 2) = RequestLine(1)
    BY <2>7, <2>8, <2>9, SeqEqual
  <2>. QED
    BY <2>2, <2>5, <2>10 DEF FirstLine, first
<1>. QED
  BY <1>1, <1>2, <1>3

LEMMA VisitedInit == ASSUME LoopbackInit PROVE VisitedInv
<1>1. /\ data = <<>> /\ visited = <<>> /\ Len(data) = 0
      /\ sockets = [c \in 1 .. HttpConnection |-> [state |-> "none", arrived |-> 0]]
  BY DEF LoopbackInit
<1>2. sockets \in [1 .. HttpConnection -> SocketType]
  BY <1>1 DEF SocketType
<1>. QED
  BY <1>1, <1>2 DEF VisitedInv, FirstConnection

LEMMA VisitedNext ==
  ASSUME Concurrent = FALSE, VisitedInv, [LoopbackNext]_loopbackVars
  PROVE  VisitedInv'
<1>. USE LoopbackAssumption DEF VisitedInv
<1>0. CASE UNCHANGED <<sockets, data, visited>>
  BY <1>0 DEF FirstConnection
<1>1. ASSUME NEW c \in 1 .. HttpConnection, NewConnection(c)
      PROVE  VisitedInv'
  <2>1. /\ sockets' = [sockets EXCEPT ![c].state = "open"]
        /\ data' = data /\ visited' = visited
        /\ \A d \in 1 .. c - 1 : sockets[d].state = "closed"
    BY <1>1 DEF NewConnection
  <2>2. /\ sockets' \in [1 .. HttpConnection -> SocketType]
        /\ \A d \in 1 .. HttpConnection :
             /\ sockets'[d].arrived = sockets[d].arrived
             /\ sockets'[d].state = IF d = c THEN "open" ELSE sockets[d].state
    BY <2>1 DEF SocketType
  <2>3. Len(data) < 2 => c = 1
    <3>1. SUFFICES ASSUME Len(data) < 2, c # 1
                   PROVE  FALSE
      OBVIOUS
    <3>2. 1 \in 1 .. c - 1 /\ 1 \in 1 .. HttpConnection
      BY <3>1
    <3>. QED
      BY <2>1, <3>1, <3>2
  <2>. QED
    BY <2>1, <2>2, <2>3 DEF FirstConnection
<1>2. ASSUME NEW c \in 1 .. HttpConnection, Disconnected(c)
      PROVE  VisitedInv'
  <2>1. /\ sockets[c].state = "closing"
        /\ sockets' = [sockets EXCEPT ![c].state = "closed"]
        /\ data' = data /\ visited' = visited
    BY <1>2 DEF Disconnected
  <2>2. ~(Len(data) < 2)
    BY <2>1
  <2>3. sockets' \in [1 .. HttpConnection -> SocketType]
    BY <2>1 DEF SocketType
  <2>. QED
    BY <2>1, <2>2, <2>3 DEF FirstConnection
<1>3. ASSUME NEW c \in 1 .. HttpConnection, NEW n \in 1 .. 2, ReadyRead(c, n)
      PROVE  VisitedInv'
  <2>. DEFINE a == sockets[c].arrived
              s == SubSeq(RequestLine(c), a + 1, a + n)
              now == data \o s
              ends == LineEnds(now) # {}
  <2>1. /\ a \in Nat /\ a + n <= 2 /\ c \in Nat
        /\ sockets[c].state \in {"open", "closing"}
        /\ data' = now
        /\ visited' = IF ends THEN Append(visited, FirstLine(now)) ELSE visited
        /\ sockets' = [sockets EXCEPT ![c] =
             [state |-> IF ends THEN "closing" ELSE @.state, arrived |-> a + n]]
    BY <1>3 DEF ReadyRead, Received, SocketType
  <2>2. s \in Seq(Piece) /\ Len(s) = n /\ \A i \in 1 .. n : s[i] = <<c, a + i>>
    BY <2>1, ArrivedPieces
  <2>. HIDE DEF s, a
  <2>3. /\ now \in Seq(Piece)
        /\ Len(now) = Len(data) + n
        /\ Len(data) \in Nat
        /\ \A i \in 1 .. Len(data) + n :
             now[i] = IF i <= Len(data) THEN data[i] ELSE s[i - Len(data)]
    BY <2>2, ConcatProperties
  <2>4. Len(data) < 2 => c = 1 /\ a = Len(data) /\ sockets[c].state = "open"
    BY <2>1 DEF a
  <2>. HIDE DEF now
  <2>5. FirstConnection(now)
    <3>1. SUFFICES ASSUME NEW i \in 1 .. Len(data) + n, i <= 2
                   PROVE  now[i] = <<1, i>>
      BY <2>3 DEF FirstConnection
    <3>2. CASE i <= Len(data)
      BY <2>3, <3>1, <3>2 DEF FirstConnection
    <3>3. CASE i > Len(data)
      <4>1. Len(data) < 2 /\ i - Len(data) \in 1 .. n
        BY <2>3, <3>1, <3>3
      <4>2. now[i] = <<1, a + (i - Len(data))>>
        BY <2>2, <2>3, <2>4, <3>3, <4>1
      <4>3. a + (i - Len(data)) = i
        BY <2>3, <2>4, <4>1
      <4>. QED
        BY <4>2, <4>3
    <3>. QED
      BY <2>3, <3>2, <3>3
  <2>6. /\ Len(now) < 2 => ~ends
        /\ Len(now) >= 2 => ends /\ FirstLine(now) = RequestLine(1)
    BY <2>3, <2>5, FirstLineOfFirst
  <2>. HIDE DEF ends
  <2>7. visited' \in Seq({RequestLine(1)}) /\ (visited' # <<>> => 1 \in 1 .. HttpConnection)
    <3>1. 1 \in 1 .. HttpConnection
      OBVIOUS
    <3>2. CASE ends
      <4>1. FirstLine(now) = RequestLine(1)
        BY <2>3, <2>6, <3>2
      <4>. QED
        BY <2>1, <3>1, <3>2, <4>1
    <3>3. CASE ~ends
      BY <2>1, <3>1, <3>3
    <3>. QED
      BY <3>2, <3>3
  <2>8. /\ sockets' \in [1 .. HttpConnection -> SocketType]
        /\ \A d \in 1 .. HttpConnection :
             d # c => sockets'[d] = sockets[d]
        /\ sockets'[c].arrived = a + n
        /\ ~ends => sockets'[c].state = sockets[c].state
    <3>1. a + n \in Nat
      BY <2>1
    <3>. QED
      BY <2>1, <3>1 DEF SocketType
  <2>9. ASSUME Len(now) < 2, NEW d \in 1 .. HttpConnection
        PROVE  IF d = 1 THEN sockets'[d].state \in {"none", "open"} /\ sockets'[d].arrived = Len(now)
                        ELSE sockets'[d].state = "none"
    <3>1. Len(data) < 2 /\ ~ends
      BY <2>3, <2>6, <2>9
    <3>2. c = 1 /\ a + n = Len(now)
      BY <2>3, <2>4, <3>1
    <3>. QED
      BY <2>4, <2>8, <3>1, <3>2
  <2>. QED
    BY <2>1, <2>3, <2>5, <2>7, <2>8, <2>9
<1>4. CASE (\E p \in Port : SetPort(p)) \/ SetListening \/ ComponentComplete \/ QueuedUpdate
  BY <1>0, <1>4 DEF SetPort, SetListening, ComponentComplete, QueuedUpdate
<1>5. CASE UNCHANGED loopbackVars
  BY <1>0, <1>5 DEF loopbackVars
<1>. QED
  BY <1>1, <1>2, <1>3, <1>4, <1>5 DEF LoopbackNext

\* However the request line is split, what visited() reports is the whole line
\* of one request, as long as the browser makes one connection at a time.
THEOREM VisitedIsWholeCorrect ==
  ASSUME Concurrent = FALSE
  PROVE  LoopbackSpec => []VisitedIsWhole
<1>1. VisitedInv /\ [LoopbackNext]_loopbackVars => VisitedInv'
  BY VisitedNext
<1>2. LoopbackInit => VisitedInv
  BY VisitedInit
<1>3. VisitedInv => VisitedIsWhole
  <2>1. SUFFICES ASSUME VisitedInv, NEW i \in DOMAIN visited
                 PROVE  \E c \in DOMAIN sockets : visited[i] = RequestLine(c)
    BY DEF VisitedIsWhole
  <2>2. visited[i] = RequestLine(1) /\ visited # <<>>
    BY <2>1 DEF VisitedInv
  <2>. QED
    BY <2>1, <2>2 DEF VisitedInv
<1>. QED
  BY <1>1, <1>2, <1>3, PTL DEF LoopbackSpec
-----------------------------------------------------------------------------
(***************************************************************************)
(* OAuth: a page that finishes leaves nothing behind.  While it is shown   *)
(* its phases exclude each other: an authentication, the wait for a name   *)
(* and the storing of the account each need the stored credentials, and    *)
(* credentials are only removed for a new account, with finished() to      *)
(* follow.  Clicks at other moments would break this; the theorem is about *)
(* a user who makes none.                                                  *)
(***************************************************************************)
PageType ==
  [isNew : BOOLEAN, creds : {"none", "storing", "stored", "failed", "removing", "gone"},
   session : {"none", "running", "canceling"}, authenticating : BOOLEAN,
   web : {"none", "shown", "hidden"}, replied : BOOLEAN,
   naming : {"no", "waiting", "dialog"}, error : BOOLEAN, saving : Nat, onRemoved : Nat,
   saved : BOOLEAN, finished : Nat, retries : Int]

Clean(o) ==
  IF o.saved THEN o.creds = "stored" ELSE o.isNew => o.creds \in {"none", "failed", "gone"}

\* A page that is still shown.
Phases(o) ==
  /\ ~o.saved /\ o.creds # "gone"
  /\ o.creds = "removing" => o.isNew /\ o.onRemoved > 0
  /\ o.session # "none" <=> o.authenticating
  /\ o.authenticating => o.naming = "no" /\ o.saving = 0 /\ o.creds = "stored"
  /\ o.naming # "no" => o.saving = 0 /\ o.creds = "stored"
  /\ o.saving > 0 => o.creds = "stored"

PageOK(o) ==
  /\ o \in PageType
  /\ o.finished > 0 => Clean(o)
  /\ o.finished = 0 => Phases(o)

PageInv == PageOK(oauth)

\* The user does not click while the credentials are stored or removed, the
\* name is asked for, or the account is saved.
CarefulClicks == ClicksWhile \subseteq {"none", "failed", "authenticating", "error"}

\* A page without credentials to store or remove may be cancelled.
LEMMA CancelKeeps ==
  ASSUME NEW o, PageOK(o), o.finished = 0, o.naming = "no", o.saving = 0,
         o.creds \in {"none", "failed", "stored"}
  PROVE  PageOK(Cancel(o))
<1>1. o \in PageType /\ Phases(o)
  BY DEF PageOK
<1>2. CASE o.authenticating
  BY <1>1, <1>2 DEF PageOK, PageType, Phases, Cancel
<1>3. CASE ~o.authenticating /\ o.isNew /\ o.creds = "stored"
  <2>1. HasId(o)
    BY <1>3 DEF HasId
  <2>2. PageOK(Cancel(o))
    <3>. DEFINE n == o.onRemoved + 1
                e == [o EXCEPT !.creds = "removing", !.onRemoved = n]
    <3>1. Cancel(o) = e
      BY <1>3, <2>1 DEF Cancel, AfterRemoval
    <3>2. n \in Nat /\ n > 0
      <4>1. o.onRemoved \in Nat
        BY <1>1 DEF PageType
      <4>. QED
        BY <4>1
    <3>. HIDE DEF n
    <3>3. /\ e \in PageType /\ e.onRemoved = n
          /\ e.creds = "removing" /\ e.isNew = o.isNew /\ e.saved = o.saved
          /\ e.session = o.session /\ e.authenticating = o.authenticating
          /\ e.naming = o.naming /\ e.saving = o.saving /\ e.finished = o.finished
      BY <1>1, <3>2 DEF PageType
    <3>. HIDE DEF e
    <3>. QED
      BY <1>1, <1>3, <3>1, <3>3, <3>2 DEF PageOK, Phases
  <2>. QED
    BY <2>2
<1>4. CASE ~o.authenticating /\ ~(o.isNew /\ o.creds = "stored")
  <2>1. ~(o.isNew /\ HasId(o))
    BY <1>4 DEF HasId
  <2>. QED
    BY <1>1, <1>4, <2>1 DEF PageOK, PageType, Phases, Cancel, Clean
<1>. QED
  BY <1>2, <1>3, <1>4

\* The name of the user leads to a dialog or to the storing of the account.
LEMMA NameKeeps ==
  ASSUME NEW o, PageOK(o), o.finished = 0, o.creds = "stored", o.saving = 0,
         ~o.authenticating, NEW name
  PROVE  PageOK(GotUserName(o, name))
<1>1. o \in PageType /\ Phases(o)
  BY DEF PageOK
<1>2. CASE name = "duplicate"
  BY <1>1, <1>2 DEF PageOK, PageType, Phases, GotUserName
<1>3. CASE name # "duplicate"
  <2>. DEFINE d == [o EXCEPT !.naming = "no"]
              e == [d EXCEPT !.saving = @ + 1]
  <2>1. GotUserName(o, name) = e
    BY <1>3 DEF GotUserName, SaveAccount
  <2>2. /\ d \in PageType /\ d.naming = "no" /\ d.saving = 0 /\ d.creds = "stored"
        /\ d.isNew = o.isNew /\ d.saved = o.saved /\ d.session = o.session
        /\ d.authenticating = o.authenticating /\ d.finished = 0
    BY <1>1 DEF PageType
  <2>. HIDE DEF d
  <2>3. /\ e \in PageType /\ e.naming = "no" /\ e.saving = 1 /\ e.creds = "stored"
        /\ e.isNew = o.isNew /\ e.saved = o.saved /\ e.session = o.session
        /\ e.authenticating = o.authenticating /\ e.finished = 0
    BY <2>2 DEF PageType
  <2>. HIDE DEF e
  <2>. QED
    BY <1>1, <2>1, <2>3 DEF PageOK, Phases
<1>. QED
  BY <1>2, <1>3

\* The session of a page ends.
LEMMA SessionEnds ==
  ASSUME NEW o, PageOK(o), o.finished = 0, o.session # "none", NEW b \in BOOLEAN
  PROVE  LET e == [o EXCEPT !.session = "none", !.authenticating = FALSE, !.replied = b]
         IN  /\ PageOK(e) /\ e.finished = 0 /\ e.naming = "no" /\ e.saving = 0
             /\ e.creds = "stored" /\ ~e.authenticating /\ e.session = "none"
<1>1. o \in PageType /\ Phases(o)
  BY DEF PageOK
<1>2. o.naming = "no" /\ o.saving = 0 /\ o.creds = "stored" /\ ~o.saved
  BY <1>1 DEF Phases
<1>. DEFINE e == [o EXCEPT !.session = "none", !.authenticating = FALSE, !.replied = b]
<1>3. /\ e \in PageType /\ e.session = "none" /\ e.authenticating = FALSE
      /\ e.creds = o.creds /\ e.isNew = o.isNew /\ e.saved = o.saved
      /\ e.naming = o.naming /\ e.saving = o.saving /\ e.finished = o.finished
  BY <1>1 DEF PageType
<1>. HIDE DEF e
<1>4. PageOK(e)
  BY <1>2, <1>3 DEF PageOK, Phases
<1>. QED
  BY <1>2, <1>3, <1>4 DEF e

LEMMA PageInit == OAuthInit => PageInv
BY OAuthAssumption DEF OAuthInit, PageInv, PageOK, PageType, Phases

LEMMA PageNext ==
  ASSUME PageInv, [OAuthNext]_oauth, CarefulClicks
  PROVE  PageInv'
<1>1. CASE oauth' = oauth
  BY <1>1 DEF PageInv
<1>2. ASSUME OAuthNext, OnPage, Phases(oauth), oauth \in PageType
      PROVE  PageInv'
  <2>1. CASE StartPage
    BY <1>2, <2>1 DEF StartPage, PageInv, PageOK, PageType, Phases, OnPage
  <2>2. CASE CredentialsIdChanged
    <3>1. HasId([oauth EXCEPT !.creds = "stored"])
      BY <1>2 DEF HasId, PageType
    <3>2. PageInv'
      <4>. DEFINE d == [oauth EXCEPT !.creds = "stored"]
                  e == [d EXCEPT !.authenticating = TRUE, !.session = "running"]
      <4>1. oauth' = e /\ oauth.creds = "storing"
        BY <2>2, <3>1 DEF CredentialsIdChanged, Authenticating
      <4>2. /\ d \in PageType /\ d.naming = oauth.naming /\ d.saving = oauth.saving
            /\ d.creds = "stored" /\ d.saved = oauth.saved /\ d.finished = oauth.finished
        BY <1>2 DEF PageType
      <4>. HIDE DEF d
      <4>3. /\ e \in PageType /\ e.naming = oauth.naming /\ e.saving = oauth.saving
            /\ e.creds = "stored" /\ e.saved = oauth.saved /\ e.finished = oauth.finished
            /\ e.authenticating /\ e.session = "running"
        BY <4>2 DEF PageType
      <4>4. oauth.saving = 0 /\ oauth.naming = "no"
        BY <1>2, <4>1 DEF PageType, Phases
      <4>. HIDE DEF e
      <4>. QED
        BY <1>2, <4>1, <4>3, <4>4 DEF PageInv, PageOK, Phases, OnPage
    <3>. QED
      BY <3>2
  <2>3. CASE CredentialsError
    BY <1>2, <2>3 DEF CredentialsError, PageInv, PageOK, PageType, Phases, OnPage
  <2>4. CASE CredentialsRemoved
    <3>. DEFINE n == oauth.finished + oauth.onRemoved
                e == [oauth EXCEPT !.creds = "gone", !.finished = n]
    <3>1. oauth' = e /\ oauth.creds = "removing"
      BY <2>4 DEF CredentialsRemoved
    <3>2. oauth.onRemoved \in Nat /\ oauth.finished \in Nat /\ oauth.onRemoved > 0
      BY <1>2, <3>1 DEF PageType, Phases
    <3>3. n \in Nat /\ n > 0
      BY <3>2
    <3>. HIDE DEF n
    <3>4. /\ e \in PageType /\ e.finished = n
          /\ e.creds = "gone" /\ e.saved = oauth.saved
      BY <1>2, <3>3 DEF PageType
    <3>. HIDE DEF e
    <3>. QED
      BY <1>2, <3>1, <3>4, <3>3 DEF PageInv, PageOK, Phases, Clean
  <2>5. CASE Authenticated
    <3>. DEFINE e == [oauth EXCEPT !.session = "none", !.authenticating = FALSE,
                                   !.replied = TRUE]
    <3>1. /\ PageOK(e) /\ e.finished = 0 /\ e.naming = "no" /\ e.saving = 0
          /\ e.creds = "stored" /\ ~e.authenticating
      BY <1>2, <2>5, SessionEnds DEF Authenticated, OnPage, PageInv
    <3>2. \/ \E name \in Names : oauth' = GotUserName(e, name)
          \/ oauth' = Cancel(e)
          \/ oauth' = [e EXCEPT !.naming = "waiting"]
      <4>1. oauth.session # "none" /\ OnPage
        BY <2>5 DEF Authenticated
      <4>. QED
        BY <2>5, <4>1 DEF Authenticated
    <3>. HIDE DEF e
    <3>3. CASE oauth' = [e EXCEPT !.naming = "waiting"]
      BY <3>1, <3>3 DEF PageInv, PageOK, PageType, Phases
    <3>4. PageOK(Cancel(e)) /\ \A name \in Names : PageOK(GotUserName(e, name))
      BY <3>1, CancelKeeps, NameKeeps
    <3>. QED
      BY <3>2, <3>3, <3>4 DEF PageInv
  <2>6. CASE AuthenticationError
    <3>. DEFINE e == [oauth EXCEPT !.session = "none", !.authenticating = FALSE]
    <3>1. e = [oauth EXCEPT !.session = "none", !.authenticating = FALSE,
                            !.replied = oauth.replied]
      BY <1>2 DEF PageType
    <3>2. /\ PageOK(e) /\ e.finished = 0 /\ e.naming = "no" /\ e.saving = 0
          /\ e.creds = "stored" /\ ~e.authenticating
      <4>1. oauth.replied \in BOOLEAN
        BY <1>2 DEF PageType
      <4>2. PageOK(oauth) /\ oauth.finished = 0 /\ oauth.session # "none"
        BY <2>6 DEF AuthenticationError, OnPage, PageInv
      <4>. HIDE DEF e
      <4>. QED
        BY <3>1, <4>1, <4>2, SessionEnds
    <3>3. oauth' = [e EXCEPT !.error = TRUE] \/ oauth' = Cancel(e)
      BY <2>6 DEF AuthenticationError
    <3>. HIDE DEF e
    <3>4. CASE oauth' = [e EXCEPT !.error = TRUE]
      <4>. DEFINE f == [e EXCEPT !.error = TRUE]
      <4>1. e \in PageType /\ Phases(e)
        BY <3>2 DEF PageOK
      <4>2. /\ f \in PageType /\ f.naming = e.naming /\ f.saving = e.saving
            /\ f.creds = e.creds /\ f.saved = e.saved /\ f.finished = e.finished
            /\ f.authenticating = e.authenticating /\ f.session = e.session
        BY <4>1 DEF PageType
      <4>. HIDE DEF f
      <4>3. PageOK(f)
        BY <3>2, <4>1, <4>2 DEF PageOK, Phases
      <4>. QED
        BY <3>4, <4>3 DEF PageInv, f
    <3>. QED
      BY <3>2, <3>3, <3>4, CancelKeeps DEF PageInv
  <2>7. CASE UserNameCallback \/ DuplicateClosed
    <3>. DEFINE e == [oauth EXCEPT !.naming = "no"]
    <3>1. /\ PageOK(e) /\ e.finished = 0 /\ e.naming = "no" /\ e.saving = 0
          /\ e.creds = "stored" /\ ~oauth.authenticating
      BY <1>2, <2>7
      DEF UserNameCallback, DuplicateClosed, OnPage, PageOK, PageType, Phases
    <3>2. oauth.creds = "stored" /\ oauth.saving = 0
      BY <1>2, <2>7 DEF UserNameCallback, DuplicateClosed, Phases
    <3>3. oauth' = Cancel(e) \/ \E name \in Names : oauth' = GotUserName(oauth, name)
      BY <2>7 DEF UserNameCallback, DuplicateClosed
    <3>. HIDE DEF e
    <3>4. PageOK(Cancel(e))
      BY <3>1, CancelKeeps
    <3>5. \A name \in Names : PageOK(GotUserName(oauth, name))
      BY <1>2, <3>1, <3>2, NameKeeps DEF OnPage, PageInv
    <3>. QED
      BY <3>3, <3>4, <3>5 DEF PageInv
  <2>8. CASE AccountSynced
    <3>. DEFINE n == oauth.finished + oauth.saving
                e == [oauth EXCEPT !.saved = TRUE, !.finished = n, !.saving = 0]
    <3>1. oauth' = e /\ oauth.saving > 0
      BY <2>8 DEF AccountSynced
    <3>2. oauth.saving \in Nat /\ oauth.finished \in Nat /\ oauth.creds = "stored"
      BY <1>2, <3>1 DEF PageType, Phases
    <3>3. n \in Nat /\ n > 0
      BY <3>1, <3>2
    <3>. HIDE DEF n
    <3>4. /\ e \in PageType /\ e.finished = n
          /\ e.creds = oauth.creds /\ e.saved
      BY <1>2, <3>3 DEF PageType
    <3>. HIDE DEF e
    <3>. QED
      BY <3>1, <3>2, <3>4, <3>3 DEF PageInv, PageOK, Clean
  <2>9. CASE RequestCaptured \/ RequestDestroyed
    BY <1>2, <2>9
    DEF RequestCaptured, RequestDestroyed, PageInv, PageOK, PageType, Phases, OnPage
  <2>10. ASSUME Moment \in ClicksWhile
         PROVE  /\ oauth.creds \in {"none", "failed", "stored"}
                /\ oauth.naming = "no" /\ oauth.saving = 0
    <3>1. Moment \in {"none", "failed", "authenticating", "error"}
      BY <2>10 DEF CarefulClicks
    <3>2. CASE oauth.creds \in {"none", "storing", "failed", "removing"}
      <4>1. Moment = oauth.creds
        <5>1. ~oauth.authenticating /\ oauth.naming = "no" /\ ~(oauth.saving > 0)
          BY <1>2, <3>2 DEF Phases
        <5>. QED
          BY <3>2, <5>1 DEF Moment
      <4>. QED
        BY <1>2, <3>1, <3>2, <4>1 DEF PageType, Phases
    <3>3. CASE oauth.creds \notin {"none", "storing", "failed", "removing"}
      <4>1. oauth.creds = "stored"
        BY <1>2, <3>3 DEF PageType, Phases
      <4>2. CASE oauth.authenticating
        BY <1>2, <4>1, <4>2 DEF Phases
      <4>3. CASE ~oauth.authenticating
        BY <1>2, <3>1, <3>3, <4>1, <4>3 DEF Moment, PageType
      <4>. QED
        BY <4>2, <4>3
    <3>. QED
      BY <3>2, <3>3
  <2>11. CASE ClickCancel
    BY <1>2, <2>10, <2>11, CancelKeeps DEF ClickCancel, PageInv, OnPage
  <2>12. CASE ClickRetry
    <3>. DEFINE n == oauth.retries + 1
                e == [oauth EXCEPT !.error = FALSE, !.retries = n]
    <3>1. n \in Int
      <4>1. oauth.retries \in Int
        BY <1>2 DEF PageType
      <4>. QED
        BY <4>1
    <3>3. oauth' = Authenticating(e)
      BY <2>12 DEF ClickRetry
    <3>. HIDE DEF n
    <3>4. /\ PageOK(e) /\ e.finished = 0 /\ e.naming = "no" /\ e.saving = 0
          /\ e.creds \in {"none", "failed", "stored"}
      <4>1. /\ e \in PageType /\ e.naming = oauth.naming /\ e.saving = oauth.saving
            /\ e.creds = oauth.creds /\ e.saved = oauth.saved
            /\ e.finished = oauth.finished /\ e.session = oauth.session
            /\ e.authenticating = oauth.authenticating
        BY <1>2, <3>1 DEF PageType
      <4>2. Moment \in ClicksWhile
        BY <2>12 DEF ClickRetry
      <4>. HIDE DEF e
      <4>. QED
        BY <1>2, <2>10, <4>1, <4>2 DEF OnPage, PageOK, Phases
    <3>. HIDE DEF e
    <3>5. CASE ~HasId(e)
      BY <3>4, <3>3, <3>5 DEF Authenticating, PageInv
    <3>6. CASE HasId(e)
      <4>. DEFINE f == [e EXCEPT !.authenticating = TRUE, !.session = "running"]
      <4>1. oauth' = f /\ e.creds = "stored" /\ e \in PageType /\ Phases(e)
        BY <3>4, <3>3, <3>6 DEF Authenticating, HasId, PageOK
      <4>2. /\ f \in PageType /\ f.naming = e.naming /\ f.saving = e.saving
            /\ f.creds = e.creds /\ f.saved = e.saved /\ f.finished = e.finished
            /\ f.authenticating /\ f.session = "running"
        BY <4>1 DEF PageType
      <4>. HIDE DEF f
      <4>. QED
        BY <3>4, <4>1, <4>2 DEF PageInv, PageOK, Phases
    <3>. QED
      BY <3>5, <3>6
  <2>. QED
    BY <1>2, <2>1, <2>2, <2>3, <2>4, <2>5, <2>6, <2>7, <2>8, <2>9, <2>11, <2>12
    DEF OAuthNext
<1>3. OAuthNext => OnPage
  BY DEF OAuthNext, StartPage, CredentialsIdChanged, CredentialsError, CredentialsRemoved,
         Authenticated, AuthenticationError, UserNameCallback, DuplicateClosed,
         AccountSynced, RequestCaptured, RequestDestroyed, ClickCancel, ClickRetry
<1>. QED
  BY <1>1, <1>2, <1>3 DEF PageInv, PageOK, OnPage

\* A page that has finished leaves either an account with its credentials, or
\* no credentials of an account that does not exist.
THEOREM FinishedCleanCorrect ==
  ASSUME CarefulClicks
  PROVE  OAuthSpec => []FinishedClean
<1>1. OAuthSpec => []PageInv
  <2>1. PageInv /\ [OAuthNext]_oauth => PageInv'
    BY PageNext
  <2>. QED
    BY <2>1, PageInit, PTL DEF OAuthSpec
<1>2. PageInv => FinishedClean
  BY DEF PageInv, PageOK, Clean, FinishedClean
<1>. QED
  BY <1>1, <1>2, PTL

-----------------------------------------------------------------------------
(***************************************************************************)
(* ApplicationManager: access goes with the switches, when every service   *)
(* of the account is that of one application, and every application has    *)
(* one (as the files that the hooks write are).                            *)
(***************************************************************************)

OwnServices ==
  /\ \A a \in App : Uses[a] # {}
  /\ \A a, b \in App : a # b => Uses[a] \intersect Uses[b] = {}

AppInv == AppTypeOK /\ AccessOnlyWhenOn

LEMMA ProfileOfOne ==
  ASSUME NEW a \in App, NEW b \in App, NEW v, NEW w, Profile(a, v) = Profile(b, w)
  PROVE  a = b /\ v = w
<1>1. a = <<a[1], a[2]>> /\ b = <<b[1], b[2]>>
  BY AppAssumption DEF AppAssumption
<1>2. a[1] = b[1] /\ a[2] = b[2] /\ v = w
  BY DEF Profile
<1>. QED
  BY <1>1, <1>2

\* What is removed for an application is every token of it.
LEMMA StartsWithOwn ==
  ASSUME NEW a \in App, NEW v
  PROVE  StartsWith(Profile(a, v), a)
<1>1. a = <<a[1], a[2]>>
  BY AppAssumption DEF AppAssumption
<1>. QED
  BY <1>1 DEF Profile, StartsWith

LEMMA AppInitInv == AppInit => AppInv
BY AppAssumption DEF AppInit, AppInv, AppTypeOK, AccessOnlyWhenOn, HasAccess, AppAssumption

\* What a step that only removes tokens leaves true.
LEMMA FewerTokens ==
  ASSUME aclOf' \subseteq aclOf, NEW a \in App, HasAccess(a)'
  PROVE  HasAccess(a)
BY DEF HasAccess

\* A step that adds no token but the one of an installed application, whose
\* services are then switched on.
LEMMA TokenAdded ==
  ASSUME AppInv, NEW a \in App, NEW s \in SUBSET Uses[a], s # {}, NEW t,
         t = {} \/ (a \in Installed /\ t = {ApplicationProfile(a)}),
         aclOf' = aclOf \union t, enabled' = enabled \union s, version' = version,
         missed' = missed
  PROVE  AppInv'
<1>. USE DEF AppInv
<1>1. \A b \in App : HasAccess(b)' => HasAccess(b) \/ (b = a /\ a \in Installed)
  <2>. SUFFICES ASSUME NEW b \in App, NEW v \in 1 .. MaxVersion, Profile(b, v) \in aclOf'
       PROVE HasAccess(b) \/ (b = a /\ a \in Installed)
    BY DEF HasAccess
  <2>1. CASE Profile(b, v) \in aclOf
    BY <2>1 DEF HasAccess
  <2>2. CASE a \in Installed /\ Profile(b, v) = Profile(a, version[a])
    BY <2>2, ProfileOfOne
  <2>. QED
    BY <2>1, <2>2 DEF ApplicationProfile
<1>2. AppTypeOK'
  <2>1. a \in Installed => version[a] \in 1 .. MaxVersion
    BY AppAssumption DEF AppTypeOK, Installed, AppAssumption
  <2>2. a \in Installed => ApplicationProfile(a) \in {Profile(b, v) : b \in App, v \in 1 .. MaxVersion}
    BY <2>1 DEF ApplicationProfile
  <2>3. s \subseteq AppService
    BY AppAssumption DEF AppAssumption
  <2>. QED
    BY <2>2, <2>3 DEF AppTypeOK
<1>3. AccessOnlyWhenOn'
  <2>. SUFFICES ASSUME NEW b \in App \ missed, HasAccess(b)' PROVE Uses[b] \intersect enabled' # {}
    BY DEF AccessOnlyWhenOn
  <2>1. CASE HasAccess(b)
    BY <2>1 DEF AccessOnlyWhenOn
  <2>2. CASE b = a
    BY <2>2
  <2>. QED
    BY <1>1, <2>1, <2>2
<1>. QED
  BY <1>2, <1>3

LEMMA AppNextInv ==
  ASSUME OwnServices, AppInv, [AppNext]_appVars
  PROVE  AppInv'
<1>1. ASSUME NEW a \in App, NEW s \in Uses[a], SwitchOn(a, s) PROVE AppInv'
  <2>1. CASE a \in Installed
    BY <1>1, <2>1, TokenAdded DEF SwitchOn, AddApplicationToAcl
  <2>2. CASE a \notin Installed
    <3>1. aclOf' = aclOf \union {}
      BY <1>1, <2>2 DEF SwitchOn, AddApplicationToAcl
    <3>. QED
      BY <1>1, <3>1, TokenAdded DEF SwitchOn
  <2>. QED
    BY <2>1, <2>2
<1>2. ASSUME NEW a \in App, NEW s \in Uses[a], SwitchOff(a, s) PROVE AppInv'
  <2>1. aclOf' \subseteq aclOf /\ version' = version /\ enabled' = enabled \ {s}
    BY <1>2 DEF SwitchOff, RemoveApplicationFromAcl
  <2>2. /\ missed' \subseteq missed \union {a} /\ missed \ {a} \subseteq missed'
        /\ a \notin missed' => a \in Installed
    BY <1>2 DEF SwitchOff
  <2>3. a \in Installed => ~HasAccess(a)'
    BY <1>2, StartsWithOwn DEF SwitchOff, RemoveApplicationFromAcl, HasAccess
  <2>4. AppTypeOK'
    BY <2>1, <2>2 DEF AppInv, AppTypeOK
  <2>5. AccessOnlyWhenOn'
    <3>. SUFFICES ASSUME NEW b \in App \ missed', HasAccess(b)'
                  PROVE  Uses[b] \intersect enabled' # {}
      BY DEF AccessOnlyWhenOn
    <3>1. b # a
      BY <2>2, <2>3
    <3>2. Uses[b] \intersect enabled # {}
      BY <2>1, <2>2, <3>1, FewerTokens DEF AppInv, AccessOnlyWhenOn
    <3>3. s \notin Uses[b]
      BY <1>2, <3>1 DEF OwnServices
    <3>. QED
      BY <2>1, <3>2, <3>3
  <2>. QED
    BY <2>4, <2>5 DEF AppInv
<1>3. ASSUME NEW a \in App, Install(a) PROVE AppInv'
  <2>1. version[a] + 1 \in 0 .. MaxVersion /\ version[a] + 1 # 0
    BY <1>3, AppAssumption DEF Install, AppInv, AppTypeOK, AppAssumption
  <2>2. /\ AppTypeOK'
        /\ \A b \in App : version'[b] = 0 => version[b] = 0
    BY <1>3, <2>1 DEF Install, AppInv, AppTypeOK
  <2>3. \A b \in App : HasAccess(b)' => HasAccess(b)
    BY <1>3, FewerTokens DEF Install
  <2>. QED
    BY <1>3, <2>2, <2>3 DEF Install, AppInv, AccessOnlyWhenOn
<1>4. ASSUME NEW a \in App, NEW disables \in BOOLEAN, Uninstall(a, disables) PROVE AppInv'
  <2>1. PICK off \in SUBSET Uses[a] :
          /\ enabled' = enabled \ off /\ aclOf' = {p \in aclOf : off # {} => ~StartsWith(p, a)}
          /\ missed' = IF off # {} THEN missed \ {a} ELSE missed
          /\ version' = [version EXCEPT ![a] = 0]
    BY <1>4 DEF Uninstall
  <2>2. aclOf' \subseteq aclOf
    BY <2>1
  <2>3. off # {} => ~HasAccess(a)'
    BY <2>1, StartsWithOwn DEF HasAccess
  <2>4. AppTypeOK'
    BY <2>1, <2>2, AppAssumption DEF AppInv, AppTypeOK, AppAssumption
  <2>5. AccessOnlyWhenOn'
    <3>. SUFFICES ASSUME NEW b \in App \ missed', HasAccess(b)'
                  PROVE  Uses[b] \intersect enabled' # {}
      BY DEF AccessOnlyWhenOn
    <3>1. off = {} \/ b # a
      BY <2>3
    <3>2. Uses[b] \intersect enabled # {}
      BY <2>1, <2>2, <3>1, FewerTokens DEF AppInv, AccessOnlyWhenOn
    <3>3. Uses[b] \intersect off = {}
      BY <3>1 DEF OwnServices
    <3>. QED
      BY <2>1, <3>2, <3>3
  <2>. QED
    BY <2>4, <2>5 DEF AppInv
<1>5. ASSUME NEW claimed, NEW p, Grant(claimed, p) PROVE AppInv'
  <2>1. \A name : Named(name) \subseteq Installed
    BY DEF Named
  <2>2. Found(claimed, p) \subseteq Installed
    BY <2>1 DEF Found, ApplicationFromProfile
  <2>3. PICK a \in Found(claimed, p) :
          /\ aclOf' = aclOf \union {ApplicationProfile(a)}
          /\ enabled' = enabled \union Uses[a]
          /\ version' = version /\ missed' = missed
    BY <1>5 DEF Grant
  <2>4. a \in Installed /\ a \in App
    BY <2>2 DEF Installed
  <2>5. Uses[a] # {}
    BY <2>4 DEF OwnServices
  <2>. QED
    BY <2>3, <2>4, <2>5, TokenAdded
<1>6. ASSUME NEW claimed, GrantUnconfined(claimed) PROVE AppInv'
  <2>1. \A b \in App : HasAccess(b)' => HasAccess(b)
    BY <1>6 DEF GrantUnconfined, HasAccess, Unconfined, Profile
  <2>2. AppTypeOK'
    BY <1>6 DEF GrantUnconfined, AppInv, AppTypeOK
  <2>. QED
    BY <1>6, <2>1, <2>2 DEF GrantUnconfined, AppInv, AccessOnlyWhenOn
<1>7. CASE UNCHANGED appVars
  BY <1>7 DEF appVars, AppInv, AppTypeOK, AccessOnlyWhenOn, HasAccess
<1>. QED
  BY <1>1, <1>2, <1>3, <1>4, <1>5, <1>6, <1>7 DEF AppNext

\* However an application was found and granted access, upgraded, removed and
\* installed again: with its services switched off it has no token, unless the
\* last switch found no file of it.
THEOREM AccessOnlyWhenOnCorrect ==
  ASSUME OwnServices
  PROVE  AppSpec => []AccessOnlyWhenOn
<1>1. AppInv /\ [AppNext]_appVars => AppInv'
  BY AppNextInv
<1>2. AppInv => AccessOnlyWhenOn
  BY DEF AppInv
<1>. QED
  BY <1>1, <1>2, AppInitInv, PTL DEF AppSpec

-----------------------------------------------------------------------------
(***************************************************************************)
(* IdentityData: signond gets the cookies of the last login, if the number *)
(* of no identity continues that of another.                               *)
(*                                                                         *)
(* The argument: only a login moves a directory to the front, that of its  *)
(* own identity; so the directory that logins of an identity write to      *)
(* comes before any that an older version left for it.                     *)
(***************************************************************************)

PrefixFree == \A i, j \in Identity : HasPrefix(j, i) <=> i = j

\* The directory of the logins comes first among those of its identity.
OwnFirst ==
  \A i \in Identity : \A m, n \in 1 .. Len(dirs) :
    dirs[m] = Own(i) /\ dirs[n][1] = i => m <= n

\* It is there and has the cookies of the last login.
LatestKept ==
  \A i \in Identity : latest[i] # NoCookies =>
    /\ \E n \in 1 .. Len(dirs) : dirs[n] = Own(i)
    /\ cookieFile[Own(i)] = latest[i]

IdentityType ==
  /\ logins \in Nat
  /\ dirs \in Seq(DirName)
  /\ cookieFile \in [DirName -> Nat \union {NoCookies}]
  /\ latest \in [Identity -> Nat \union {NoCookies}]

IdentityInv == IdentityType /\ OwnFirst /\ LatestKept /\ CookiesAreLatest

LEMMA DirNames ==
  /\ \A i \in Identity : Own(i) \in DirName /\ Own(i)[1] = i
  /\ \A d \in DirName : d[1] \in Identity
  /\ \A i, j \in Identity : Own(i) = Own(j) => i = j
  BY DEF DirName, Own

LEMMA ExistsAt ==
  ASSUME NEW d, dirs \in Seq(DirName)
  PROVE  Exists(d) <=> \E n \in 1 .. Len(dirs) : dirs[n] = d
<1>1. DOMAIN dirs = 1 .. Len(dirs)
  OBVIOUS
<1>. QED
  BY <1>1 DEF Exists, ToSet

LEMMA RemovedAt ==
  ASSUME NEW S, NEW s \in Seq(S), NEW n \in 1 .. Len(s)
  PROVE  /\ RemoveAt(s, n) \in Seq(S)
         /\ Len(RemoveAt(s, n)) = Len(s) - 1
         /\ \A i \in 1 .. Len(s) - 1 :
              RemoveAt(s, n)[i] = IF i < n THEN s[i] ELSE s[i + 1]
<1>1. /\ SubSeq(s, 1, n - 1) \in Seq(S) /\ Len(SubSeq(s, 1, n - 1)) = n - 1
      /\ \A i \in 1 .. n - 1 : SubSeq(s, 1, n - 1)[i] = s[i]
  OBVIOUS
<1>2. /\ SubSeq(s, n + 1, Len(s)) \in Seq(S) /\ Len(SubSeq(s, n + 1, Len(s))) = Len(s) - n
      /\ \A i \in 1 .. Len(s) - n : SubSeq(s, n + 1, Len(s))[i] = s[n + i]
  OBVIOUS
<1>. DEFINE a == SubSeq(s, 1, n - 1)
            b == SubSeq(s, n + 1, Len(s))
<1>. HIDE DEF a, b
<1>3. /\ a \o b \in Seq(S) /\ Len(a \o b) = Len(a) + Len(b)
      /\ \A i \in 1 .. Len(a) + Len(b) :
           (a \o b)[i] = IF i <= Len(a) THEN a[i] ELSE b[i - Len(a)]
  <2>1. a \in Seq(S) /\ b \in Seq(S)
    BY <1>1, <1>2 DEF a, b
  <2>. QED
    BY <2>1, ConcatProperties
<1>4. RemoveAt(s, n) = a \o b
  BY DEF RemoveAt, a, b
<1>5. /\ Len(s) \in Nat /\ Len(a) = n - 1 /\ Len(b) = Len(s) - n
      /\ \A i \in 1 .. n - 1 : a[i] = s[i]
      /\ \A i \in 1 .. Len(s) - n : b[i] = s[n + i]
  BY <1>1, <1>2 DEF a, b
<1>6. \A i \in 1 .. Len(s) - 1 : (a \o b)[i] = IF i < n THEN s[i] ELSE s[i + 1]
  <2>1. SUFFICES ASSUME NEW i \in 1 .. Len(s) - 1
                 PROVE  (a \o b)[i] = IF i < n THEN s[i] ELSE s[i + 1]
    OBVIOUS
  <2>2. CASE i < n
    BY <1>3, <1>5, <2>2
  <2>3. CASE i >= n
    <3>1. (a \o b)[i] = b[i - (n - 1)] /\ i - (n - 1) \in 1 .. Len(s) - n
      BY <1>3, <1>5, <2>3
    <3>2. b[i - (n - 1)] = s[n + (i - (n - 1))]
      BY <1>5, <3>1
    <3>3. n + (i - (n - 1)) = i + 1
      OBVIOUS
    <3>. QED
      BY <2>3, <3>1, <3>2, <3>3
  <2>. QED
    BY <1>5, <2>2, <2>3
<1>7. Len(a \o b) = Len(s) - 1
  BY <1>3, <1>5
<1>. QED
  BY <1>3, <1>4, <1>6, <1>7

LEMMA InFront ==
  ASSUME NEW S, NEW s \in Seq(S), NEW d \in S
  PROVE  /\ <<d>> \o s \in Seq(S)
         /\ Len(<<d>> \o s) = Len(s) + 1
         /\ (<<d>> \o s)[1] = d
         /\ \A i \in 2 .. Len(s) + 1 : (<<d>> \o s)[i] = s[i - 1]
  OBVIOUS

\* What rootDirForIdentity() finds.
LEMMA MatchingOwn ==
  ASSUME PrefixFree, IdentityType, NEW i \in Identity
  PROVE  Matching(i) = {n \in 1 .. Len(dirs) : dirs[n][1] = i}
<1>1. DOMAIN dirs = 1 .. Len(dirs) /\ \A n \in 1 .. Len(dirs) : dirs[n] \in DirName
  BY DEF IdentityType
<1>2. \A n \in 1 .. Len(dirs) : HasPrefix(dirs[n][1], i) <=> dirs[n][1] = i
  BY <1>1, DirNames DEF PrefixFree
<1>. QED
  BY <1>1, <1>2 DEF Matching

LEMMA ChosenOwn ==
  ASSUME PrefixFree, IdentityType, OwnFirst, NEW i \in Identity, Exists(Own(i))
  PROVE  RootDirForIdentity(i) = Own(i)
<1>1. PICK n \in 1 .. Len(dirs) : dirs[n] = Own(i)
  BY ExistsAt DEF IdentityType
<1>2. n \in Matching(i) /\ \A k \in Matching(i) : k \in 1 .. Len(dirs) /\ n <= k
  BY <1>1, MatchingOwn, DirNames DEF OwnFirst
<1>. DEFINE c == Chosen(Matching(i))
<1>3. c \in Matching(i) /\ \A k \in Matching(i) : c <= k
  BY <1>2 DEF Chosen
<1>. HIDE DEF c
<1>4. c \in 1 .. Len(dirs) /\ n <= c /\ c <= n
  BY <1>2, <1>3
<1>5. c = n
  BY <1>4
<1>. QED
  BY <1>1, <1>5 DEF RootDirForIdentity, c

LEMMA ChosenMatches ==
  ASSUME PrefixFree, IdentityType, NEW i \in Identity, Matching(i) # {}
  PROVE  Chosen(Matching(i)) \in 1 .. Len(dirs) /\ RootDirForIdentity(i)[1] = i
<1>. DEFINE R == OpToRel(<, Nat)
<1>1. IsWellFoundedOn(R, Nat)
  BY NatLessThanWellFounded
<1>2. \A a, b \in Nat : <<b, a>> \notin R => a <= b
  BY DEF OpToRel
<1>3. Matching(i) \subseteq Nat /\ Matching(i) = {n \in 1 .. Len(dirs) : dirs[n][1] = i}
  BY MatchingOwn
<1>. HIDE DEF R
<1>4. PICK a \in Matching(i) : \A b \in Matching(i) : <<b, a>> \notin R
  BY <1>1, <1>3, WFMin
<1>5. \A b \in Matching(i) : a <= b
  BY <1>2, <1>3, <1>4
<1>6. Chosen(Matching(i)) \in Matching(i)
  BY <1>5 DEF Chosen
<1>. QED
  BY <1>3, <1>6 DEF RootDirForIdentity

LEMMA IdentityInitInv ==
  ASSUME IdentityInit
  PROVE  IdentityInv
<1>. USE IdentityAssumption
<1>1. dirs = <<>> \/ \E i \in Identity : dirs = <<<<i, OldProvider>>>>
  BY DEF IdentityInit
<1>2. dirs \in Seq(DirName)
  <2>1. CASE dirs = <<>>
    BY <2>1
  <2>2. ASSUME NEW i \in Identity, dirs = <<<<i, OldProvider>>>>
        PROVE  dirs \in Seq(DirName)
    <3>1. <<i, OldProvider>> \in DirName
      BY DEF DirName
    <3>. HIDE DEF DirName
    <3>. QED
      BY <2>2, <3>1
  <2>. QED
    BY <1>1, <2>1, <2>2
<1>3. Len(dirs) <= 1 /\ Len(dirs) \in Nat
  BY <1>1
<1>4. IdentityType
  BY <1>2 DEF IdentityInit, IdentityType
<1>5. OwnFirst
  BY <1>3 DEF OwnFirst
<1>. QED
  BY <1>4, <1>5 DEF IdentityInit, IdentityInv, LatestKept, CookiesAreLatest

\* A directory comes to the front: that of the logins of i.
LEMMA FrontStep ==
  ASSUME OwnFirst, LatestKept, NEW i \in Identity,
         NEW rest \in Seq(DirName), dirs \in Seq(DirName), dirs' = <<Own(i)>> \o rest,
         \A n \in 1 .. Len(rest) : rest[n] # Own(i),
         \A m, n \in 1 .. Len(rest) : m > n =>
           \E k, l \in 1 .. Len(dirs) : k > l /\ dirs[k] = rest[m] /\ dirs[l] = rest[n]
  PROVE  dirs' \in Seq(DirName) /\ OwnFirst'
<1>1. /\ dirs' \in Seq(DirName) /\ Len(dirs') = Len(rest) + 1 /\ dirs'[1] = Own(i)
      /\ \A n \in 2 .. Len(dirs') : n - 1 \in 1 .. Len(rest) /\ dirs'[n] = rest[n - 1]
  BY DirNames, InFront
<1>2. Len(rest) \in Nat
  OBVIOUS
<1>3. SUFFICES ASSUME NEW j \in Identity, NEW m \in 1 .. Len(dirs'), NEW n \in 1 .. Len(dirs'),
                      dirs'[m] = Own(j), dirs'[n][1] = j, m > n
               PROVE  FALSE
  <2>1. \A m, n \in 1 .. Len(dirs') : ~ (m > n) => m <= n
    BY <1>1, <1>2
  <2>. QED
    BY <1>1, <2>1 DEF OwnFirst, Own
<1>4. m \in 2 .. Len(dirs')
  BY <1>1, <1>2, <1>3
<1>5. m - 1 \in 1 .. Len(rest) /\ rest[m - 1] = Own(j)
  BY <1>1, <1>3, <1>4
<1>6. CASE n = 1
  BY <1>1, <1>3, <1>5, <1>6, DirNames
<1>7. CASE n # 1
  <2>1. n - 1 \in 1 .. Len(rest) /\ rest[n - 1][1] = j /\ m - 1 > n - 1
    BY <1>1, <1>2, <1>3, <1>7
  <2>2. PICK k, l \in 1 .. Len(dirs) : k > l /\ dirs[k] = rest[m - 1] /\ dirs[l] = rest[n - 1]
    BY <1>5, <2>1
  <2>3. k <= l
    BY <1>5, <2>1, <2>2 DEF OwnFirst
  <2>. QED
    BY <2>2, <2>3
<1>. QED
  BY <1>6, <1>7

LEMMA BrowserStartInv ==
  ASSUME IdentityInv, NEW i \in Identity, BrowserStart(i)
  PROVE  IdentityInv'
<1>1. IdentityType /\ OwnFirst /\ LatestKept /\ dirs \in Seq(DirName) /\ CookiesAreLatest
  BY DEF IdentityInv, IdentityType
<1>2. /\ dirs' = <<Own(i)>> \o dirs /\ \A n \in 1 .. Len(dirs) : dirs[n] # Own(i)
      /\ logins' = logins /\ cookieFile' = cookieFile /\ latest' = latest /\ answered' = answered
  BY <1>1, ExistsAt DEF BrowserStart
<1>3. dirs' \in Seq(DirName) /\ OwnFirst'
  BY <1>1, <1>2, FrontStep
<1>4. /\ Len(dirs') = Len(dirs) + 1 /\ Len(dirs) \in Nat
      /\ \A n \in 2 .. Len(dirs) + 1 : dirs'[n] = dirs[n - 1]
  BY <1>1, <1>2, DirNames, InFront
<1>5. LatestKept'
  <2>1. SUFFICES ASSUME NEW j \in Identity, latest[j] # NoCookies
                 PROVE  /\ \E n \in 1 .. Len(dirs') : dirs'[n] = Own(j)
                        /\ cookieFile[Own(j)] = latest[j]
    BY <1>2 DEF LatestKept, Own
  <2>2. PICK n \in 1 .. Len(dirs) : dirs[n] = Own(j)
    BY <1>1, <2>1 DEF LatestKept
  <2>3. n + 1 \in 1 .. Len(dirs') /\ dirs'[n + 1] = Own(j)
    BY <1>4, <2>2
  <2>. QED
    BY <1>1, <2>1, <2>3 DEF LatestKept
<1>. QED
  BY <1>1, <1>2, <1>3, <1>5 DEF IdentityInv, IdentityType, CookiesAreLatest

LEMMA SetCookiesInv ==
  ASSUME IdentityInv, NEW i \in Identity, SetCookies(i)
  PROVE  IdentityInv'
<1>. DEFINE d == Own(i)
<1>1. IdentityType /\ OwnFirst /\ LatestKept /\ dirs \in Seq(DirName) /\ CookiesAreLatest
  BY DEF IdentityInv, IdentityType
<1>2. /\ logins' \in Nat /\ cookieFile' = [cookieFile EXCEPT ![d] = logins']
      /\ latest' = [latest EXCEPT ![i] = logins'] /\ answered' = answered
  BY <1>1, IdentityAssumption DEF SetCookies, IdentityType
<1>3. d \in DirName /\ d[1] = i
  BY DirNames
<1>4. PICK at \in 1 .. Len(dirs) : dirs[at] = d
  BY <1>1, ExistsAt DEF SetCookies
<1>5. /\ dirs' \in Seq(DirName) /\ OwnFirst'
      /\ \A k \in 1 .. Len(dirs) : \E n \in 1 .. Len(dirs') : dirs'[n] = dirs[k]
  <2>1. CASE cookieFile[d] # NoCookies
    <3>1. dirs' = dirs
      BY <2>1 DEF SetCookies
    <3>. QED
      BY <1>1, <3>1 DEF OwnFirst, Own
  <2>2. CASE cookieFile[d] = NoCookies
    <3>. DEFINE p == Position(d)
                rest == RemoveAt(dirs, p)
    <3>1. dirs' = <<d>> \o rest
      BY <2>2 DEF SetCookies, MovedUp
    <3>2. p \in 1 .. Len(dirs) /\ dirs[p] = d
      <4>1. DOMAIN dirs = 1 .. Len(dirs)
        BY <1>1
      <4>. QED
        BY <1>4, <4>1 DEF Position
    <3>. HIDE DEF p, d
    <3>3. /\ rest \in Seq(DirName) /\ Len(rest) = Len(dirs) - 1 /\ Len(dirs) \in Nat
          /\ \A n \in 1 .. Len(dirs) - 1 : rest[n] = IF n < p THEN dirs[n] ELSE dirs[n + 1]
      BY <1>1, <3>2, RemovedAt
    <3>. HIDE DEF rest
    <3>4. \A n \in 1 .. Len(rest) : rest[n] # d
      <4>1. SUFFICES ASSUME NEW n \in 1 .. Len(rest), rest[n] = d
                     PROVE  FALSE
        OBVIOUS
      <4>2. \E k \in 1 .. Len(dirs) : k # p /\ dirs[k] = d
        BY <3>2, <3>3, <4>1
      <4>3. \A k \in 1 .. Len(dirs) : dirs[k] = d => k <= p /\ p <= k
        BY <1>1, <1>3, <3>2 DEF OwnFirst, d
      <4>. QED
        BY <3>2, <4>2, <4>3
    <3>5. \A m, n \in 1 .. Len(rest) : m > n =>
            \E k, l \in 1 .. Len(dirs) : k > l /\ dirs[k] = rest[m] /\ dirs[l] = rest[n]
      <4>1. SUFFICES ASSUME NEW m \in 1 .. Len(rest), NEW n \in 1 .. Len(rest), m > n
                     PROVE  \E k, l \in 1 .. Len(dirs) :
                              k > l /\ dirs[k] = rest[m] /\ dirs[l] = rest[n]
        OBVIOUS
      <4>. DEFINE k == IF m < p THEN m ELSE m + 1
                  l == IF n < p THEN n ELSE n + 1
      <4>2. k \in 1 .. Len(dirs) /\ l \in 1 .. Len(dirs) /\ k > l
        BY <3>2, <3>3, <4>1
      <4>3. dirs[k] = rest[m] /\ dirs[l] = rest[n]
        BY <3>3, <4>1
      <4>. HIDE DEF k, l
      <4>. QED
        BY <4>2, <4>3
    <3>6. dirs' \in Seq(DirName) /\ OwnFirst'
      BY <1>1, <3>1, <3>3, <3>4, <3>5, FrontStep DEF d
    <3>7. /\ Len(dirs') = Len(rest) + 1 /\ dirs'[1] = d
          /\ \A n \in 2 .. Len(rest) + 1 : dirs'[n] = rest[n - 1]
      BY <1>3, <3>1, <3>3, InFront
    <3>8. \A k \in 1 .. Len(dirs) : \E n \in 1 .. Len(dirs') : dirs'[n] = dirs[k]
      <4>1. SUFFICES ASSUME NEW k \in 1 .. Len(dirs)
                     PROVE  \E n \in 1 .. Len(dirs') : dirs'[n] = dirs[k]
        OBVIOUS
      <4>2. CASE k = p
        <5>1. 1 \in 1 .. Len(dirs') /\ dirs'[1] = dirs[k]
          BY <3>2, <3>3, <3>7, <4>2
        <5>. QED
          BY <5>1
      <4>3. CASE k < p
        <5>1. k + 1 \in 2 .. Len(rest) + 1 /\ rest[k] = dirs[k] /\ (k + 1) - 1 = k
          BY <3>2, <3>3, <4>3
        <5>2. dirs'[k + 1] = dirs[k] /\ k + 1 \in 1 .. Len(dirs')
          BY <3>3, <3>7, <5>1
        <5>. QED
          BY <5>2
      <4>4. CASE k > p
        <5>1. k \in 2 .. Len(rest) + 1 /\ rest[k - 1] = dirs[k]
          BY <3>2, <3>3, <4>4
        <5>2. dirs'[k] = dirs[k] /\ k \in 1 .. Len(dirs')
          BY <3>3, <3>7, <5>1
        <5>. QED
          BY <5>2
      <4>. QED
        BY <3>2, <3>3, <4>2, <4>3, <4>4
    <3>. QED
      BY <3>6, <3>8
  <2>. QED
    BY <2>1, <2>2
<1>6. LatestKept'
  <2>1. SUFFICES ASSUME NEW j \in Identity, latest'[j] # NoCookies
                 PROVE  /\ \E n \in 1 .. Len(dirs') : dirs'[n] = Own(j)
                        /\ cookieFile'[Own(j)] = latest'[j]
    BY DEF LatestKept, Own
  <2>2. CASE j = i
    BY <1>1, <1>2, <1>3, <1>4, <1>5, <2>2 DEF IdentityType
  <2>3. CASE j # i
    <3>1. latest'[j] = latest[j] /\ cookieFile'[Own(j)] = cookieFile[Own(j)]
      BY <1>1, <1>2, <2>3, DirNames DEF IdentityType
    <3>2. (\E n \in 1 .. Len(dirs) : dirs[n] = Own(j)) /\ cookieFile[Own(j)] = latest[j]
      BY <1>1, <2>1, <3>1 DEF LatestKept
    <3>. QED
      BY <1>5, <3>1, <3>2
  <2>. QED
    BY <2>2, <2>3
<1>7. IdentityType'
  BY <1>1, <1>2, <1>5 DEF IdentityType
<1>. QED
  BY <1>1, <1>2, <1>5, <1>6, <1>7 DEF IdentityInv, CookiesAreLatest

LEMMA RemoveIdentityDataInv ==
  ASSUME PrefixFree, IdentityInv, NEW i \in Identity, RemoveIdentityData(i)
  PROVE  IdentityInv'
<1>. DEFINE c == Chosen(Matching(i))
            r == RootDirForIdentity(i)
<1>1. IdentityType /\ OwnFirst /\ LatestKept /\ dirs \in Seq(DirName) /\ CookiesAreLatest
  BY DEF IdentityInv, IdentityType
<1>2. c \in 1 .. Len(dirs) /\ r[1] = i /\ dirs[c] = r
  BY <1>1, ChosenMatches DEF RemoveIdentityData, RootDirForIdentity
<1>3. /\ dirs' = RemoveAt(dirs, c) /\ cookieFile' = [cookieFile EXCEPT ![r] = NoCookies]
      /\ latest' = [latest EXCEPT ![i] = NoCookies] /\ logins' = logins /\ answered' = answered
  BY DEF RemoveIdentityData
<1>. HIDE DEF c, r
<1>4. /\ dirs' \in Seq(DirName) /\ Len(dirs') = Len(dirs) - 1 /\ Len(dirs) \in Nat
      /\ \A n \in 1 .. Len(dirs) - 1 : dirs'[n] = IF n < c THEN dirs[n] ELSE dirs[n + 1]
  <2>1. /\ RemoveAt(dirs, c) \in Seq(DirName) /\ Len(RemoveAt(dirs, c)) = Len(dirs) - 1
        /\ \A n \in 1 .. Len(dirs) - 1 :
             RemoveAt(dirs, c)[n] = IF n < c THEN dirs[n] ELSE dirs[n + 1]
    BY <1>1, <1>2, RemovedAt
  <2>. QED
    BY <1>1, <1>3, <2>1
<1>5. OwnFirst'
  <2>1. SUFFICES ASSUME NEW j \in Identity, NEW m \in 1 .. Len(dirs'), NEW n \in 1 .. Len(dirs'),
                        dirs'[m] = Own(j), dirs'[n][1] = j
                 PROVE  m <= n
    BY DEF OwnFirst, Own
  <2>. DEFINE k == IF m < c THEN m ELSE m + 1
              l == IF n < c THEN n ELSE n + 1
  <2>2. k \in 1 .. Len(dirs) /\ l \in 1 .. Len(dirs) /\ (k <= l => m <= n)
    BY <1>2, <1>4, <2>1
  <2>3. dirs[k] = Own(j) /\ dirs[l][1] = j
    BY <1>4, <2>1
  <2>. HIDE DEF k, l
  <2>. QED
    BY <1>1, <2>2, <2>3 DEF OwnFirst
<1>6. LatestKept'
  <2>1. SUFFICES ASSUME NEW j \in Identity, latest'[j] # NoCookies
                 PROVE  /\ \E n \in 1 .. Len(dirs') : dirs'[n] = Own(j)
                        /\ cookieFile'[Own(j)] = latest'[j]
    BY DEF LatestKept, Own
  <2>2. j # i /\ latest'[j] = latest[j]
    BY <1>1, <1>3, <2>1 DEF IdentityType
  <2>3. Own(j) # r /\ cookieFile'[Own(j)] = cookieFile[Own(j)]
    BY <1>1, <1>2, <1>3, <2>2, DirNames DEF IdentityType
  <2>4. PICK n \in 1 .. Len(dirs) : dirs[n] = Own(j)
    BY <1>1, <2>1, <2>2 DEF LatestKept
  <2>5. \E k \in 1 .. Len(dirs') : dirs'[k] = Own(j)
    <3>1. CASE n < c
      <4>1. n \in 1 .. Len(dirs') /\ dirs'[n] = dirs[n]
        BY <1>2, <1>4, <3>1
      <4>. QED
        BY <2>4, <4>1
    <3>2. CASE n > c
      <4>1. n - 1 \in 1 .. Len(dirs') /\ dirs'[n - 1] = dirs[n]
        BY <1>2, <1>4, <3>2
      <4>. QED
        BY <2>4, <4>1
    <3>3. n # c
      BY <1>2, <2>3, <2>4
    <3>. QED
      BY <1>2, <3>1, <3>2, <3>3
  <2>. QED
    BY <1>1, <2>1, <2>2, <2>3, <2>5 DEF LatestKept
<1>7. IdentityType'
  BY <1>1, <1>3, <1>4 DEF IdentityType
<1>. QED
  BY <1>1, <1>3, <1>5, <1>6, <1>7 DEF IdentityInv, CookiesAreLatest

LEMMA CookiesForIdentityInv ==
  ASSUME PrefixFree, IdentityInv, NEW i \in Identity, CookiesForIdentity(i)
  PROVE  IdentityInv'
<1>1. /\ logins' = logins /\ dirs' = dirs /\ cookieFile' = cookieFile /\ latest' = latest
      /\ answered'[2] = IF Matching(i) = {} THEN NoCookies ELSE cookieFile[RootDirForIdentity(i)]
      /\ answered'[3] = latest[i]
  BY DEF CookiesForIdentity
<1>2. IdentityType' /\ OwnFirst' /\ LatestKept'
  BY <1>1 DEF IdentityInv, IdentityType, OwnFirst, LatestKept, Own
<1>3. CookiesAreLatest'
  <2>1. SUFFICES ASSUME latest[i] \in 1 .. MaxLogins
                 PROVE  answered'[2] = latest[i]
    BY <1>1 DEF CookiesAreLatest
  <2>2. latest[i] # NoCookies
    BY <2>1, IdentityAssumption
  <2>3. Exists(Own(i)) /\ cookieFile[Own(i)] = latest[i]
    BY <2>2, ExistsAt DEF IdentityInv, IdentityType, LatestKept
  <2>4. RootDirForIdentity(i) = Own(i)
    BY <2>3, ChosenOwn DEF IdentityInv
  <2>5. Matching(i) # {}
    BY <2>3, ExistsAt, MatchingOwn, DirNames DEF IdentityInv, IdentityType
  <2>. QED
    BY <1>1, <2>3, <2>4, <2>5
<1>. QED
  BY <1>2, <1>3 DEF IdentityInv

\* Every step of the browser and the daemon keeps the invariant.
LEMMA IdentityStep ==
  ASSUME PrefixFree, IdentityInv, [IdentityNext]_identityVars
  PROVE  IdentityInv'
<1>1. CASE UNCHANGED identityVars
  BY <1>1 DEF identityVars, IdentityInv, IdentityType, OwnFirst, LatestKept, Own,
              CookiesAreLatest
<1>2. CASE IdentityNext
  BY <1>2, BrowserStartInv, SetCookiesInv, RemoveIdentityDataInv, CookiesForIdentityInv
  DEF IdentityNext
<1>. QED
  BY <1>1, <1>2

\* Once an identity has logged in, signond gets the cookies of its last login,
\* whatever other identities do and older versions left, as long as no number
\* of an identity continues that of another (rootDirForIdentity()).
THEOREM CookiesAreLatestCorrect ==
  ASSUME PrefixFree
  PROVE  IdentitySpec => []CookiesAreLatest
<1>1. IdentityInv /\ [IdentityNext]_identityVars => IdentityInv'
  BY IdentityStep
<1>2. IdentityInv => CookiesAreLatest
  BY DEF IdentityInv
<1>. QED
  BY <1>1, <1>2, IdentityInitInv, PTL DEF IdentitySpec

\* Without the directories of older versions an identity has one, with the name
\* that its logins use.
OneDirectoryEach ==
  /\ \A n \in 1 .. Len(dirs) : dirs[n] = Own(dirs[n][1])
  /\ \A m, n \in 1 .. Len(dirs) : dirs[m][1] = dirs[n][1] => m = n

\* What is left when one directory is taken out: the others, each once.
LEMMA OthersLeft ==
  ASSUME OneDirectoryEach, dirs \in Seq(DirName), NEW c \in 1 .. Len(dirs),
         NEW rest, rest = RemoveAt(dirs, c)
  PROVE  /\ rest \in Seq(DirName) /\ Len(rest) \in Nat /\ Len(dirs) \in Nat
         /\ \A n \in 1 .. Len(rest) : rest[n] = Own(rest[n][1]) /\ rest[n][1] # dirs[c][1]
         /\ \A m, n \in 1 .. Len(rest) : rest[m][1] = rest[n][1] => m = n
         /\ \A k \in 1 .. Len(dirs) : k # c => \E n \in 1 .. Len(rest) : rest[n] = dirs[k]
         /\ \A n \in 1 .. Len(rest) : \E k \in 1 .. Len(dirs) : k # c /\ rest[n] = dirs[k]
<1>1. /\ rest \in Seq(DirName) /\ Len(rest) = Len(dirs) - 1
      /\ \A n \in 1 .. Len(dirs) - 1 : rest[n] = IF n < c THEN dirs[n] ELSE dirs[n + 1]
  BY RemovedAt
<1>2. Len(dirs) \in Nat
  OBVIOUS
<1>. DEFINE at(n) == IF n < c THEN n ELSE n + 1
<1>3. \A n \in 1 .. Len(rest) : at(n) \in 1 .. Len(dirs) /\ at(n) # c /\ rest[n] = dirs[at(n)]
  BY <1>1, <1>2
<1>4. \A m, n \in 1 .. Len(rest) : at(m) = at(n) => m = n
  BY <1>1, <1>2
<1>5. ASSUME NEW k \in 1 .. Len(dirs), k # c
      PROVE  \E n \in 1 .. Len(rest) : rest[n] = dirs[k]
  <2>1. CASE k < c
    <3>1. k \in 1 .. Len(rest) /\ rest[k] = dirs[k]
      BY <1>1, <1>2, <2>1
    <3>. QED
      BY <3>1
  <2>2. CASE k > c
    <3>1. k - 1 \in 1 .. Len(rest) /\ rest[k - 1] = dirs[k]
      BY <1>1, <1>2, <2>2
    <3>. QED
      BY <3>1
  <2>. QED
    BY <1>2, <1>5, <2>1, <2>2
<1>. HIDE DEF at
<1>6. \A n \in 1 .. Len(rest) : rest[n] = Own(rest[n][1]) /\ rest[n][1] # dirs[c][1]
  BY <1>3 DEF OneDirectoryEach
<1>7. \A m, n \in 1 .. Len(rest) : rest[m][1] = rest[n][1] => m = n
  BY <1>3, <1>4 DEF OneDirectoryEach
<1>8. \A n \in 1 .. Len(rest) : \E k \in 1 .. Len(dirs) : k # c /\ rest[n] = dirs[k]
  BY <1>3
<1>9. Len(rest) \in Nat
  BY <1>1
<1>. QED
  BY <1>1, <1>2, <1>5, <1>6, <1>7, <1>8, <1>9

\* A directory that is made, or moves up, comes before the others.
LEMMA OneInFront ==
  ASSUME NEW rest \in Seq(DirName), NEW i \in Identity, dirs' = <<Own(i)>> \o rest,
         \A n \in 1 .. Len(rest) : rest[n] = Own(rest[n][1]) /\ rest[n][1] # i,
         \A m, n \in 1 .. Len(rest) : rest[m][1] = rest[n][1] => m = n
  PROVE  OneDirectoryEach'
<1>1. /\ Len(dirs') = Len(rest) + 1 /\ Len(rest) \in Nat /\ dirs'[1] = Own(i) /\ Own(i)[1] = i
      /\ \A n \in 2 .. Len(rest) + 1 : dirs'[n] = rest[n - 1]
  BY DirNames, InFront
<1>2. \A n \in 1 .. Len(dirs') :
        n = 1 \/ (n \in 2 .. Len(rest) + 1 /\ n - 1 \in 1 .. Len(rest) /\ dirs'[n] = rest[n - 1])
  BY <1>1
<1>3. \A n \in 1 .. Len(dirs') : dirs'[n] = Own(dirs'[n][1])
  BY <1>1, <1>2
<1>4. ASSUME NEW m \in 1 .. Len(dirs'), NEW n \in 1 .. Len(dirs'), dirs'[m][1] = dirs'[n][1]
      PROVE  m = n
  <2>1. CASE m = 1 \/ n = 1
    BY <1>1, <1>2, <1>4, <2>1
  <2>2. CASE m # 1 /\ n # 1
    <3>1. m - 1 = n - 1
      BY <1>2, <1>4, <2>2
    <3>. QED
      BY <1>1, <3>1
  <2>. QED
    BY <2>1, <2>2
<1>. QED
  BY <1>3, <1>4 DEF OneDirectoryEach, Own

LEMMA OneDirectoryStep ==
  ASSUME PrefixFree, IdentityInv, OneDirectoryEach, [IdentityNext]_identityVars
  PROVE  /\ OneDirectoryEach'
         /\ \A i \in Identity :
              RemoveIdentityData(i) =>
                {d[1] : d \in ToSet(dirs')} = {d[1] : d \in ToSet(dirs)} \ {i}
<1>1. IdentityType /\ dirs \in Seq(DirName)
  BY DEF IdentityInv, IdentityType
<1>2. ASSUME NEW i \in Identity, BrowserStart(i)
      PROVE  OneDirectoryEach'
  <2>1. dirs' = <<Own(i)>> \o dirs /\ \A n \in 1 .. Len(dirs) : dirs[n] # Own(i)
    BY <1>1, <1>2, ExistsAt DEF BrowserStart
  <2>2. \A n \in 1 .. Len(dirs) : dirs[n][1] # i
    BY <2>1 DEF OneDirectoryEach
  <2>. QED
    BY <1>1, <2>1, <2>2, OneInFront DEF OneDirectoryEach
<1>3. ASSUME NEW i \in Identity, SetCookies(i)
      PROVE  OneDirectoryEach'
  <2>1. CASE dirs' = dirs
    BY <2>1 DEF OneDirectoryEach, Own
  <2>2. CASE dirs' = MovedUp(Own(i))
    <3>. DEFINE c == Position(Own(i))
                rest == RemoveAt(dirs, c)
    <3>1. c \in 1 .. Len(dirs) /\ dirs[c] = Own(i) /\ dirs[c][1] = i
      <4>1. \E n \in DOMAIN dirs : dirs[n] = Own(i)
        BY <1>1, <1>3, ExistsAt DEF SetCookies
      <4>2. c \in DOMAIN dirs /\ dirs[c] = Own(i)
        BY <4>1 DEF Position
      <4>. QED
        BY <1>1, <4>2, DirNames
    <3>2. dirs' = <<Own(i)>> \o rest
      BY <2>2 DEF MovedUp
    <3>. HIDE DEF c
    <3>3. /\ rest \in Seq(DirName)
          /\ \A n \in 1 .. Len(rest) : rest[n] = Own(rest[n][1]) /\ rest[n][1] # dirs[c][1]
          /\ \A m, n \in 1 .. Len(rest) : rest[m][1] = rest[n][1] => m = n
          /\ \A k \in 1 .. Len(dirs) : k # c => \E n \in 1 .. Len(rest) : rest[n] = dirs[k]
          /\ \A n \in 1 .. Len(rest) : \E k \in 1 .. Len(dirs) : k # c /\ rest[n] = dirs[k]
      BY <1>1, <3>1, OthersLeft
    <3>. HIDE DEF rest
    <3>4. \A n \in 1 .. Len(rest) : rest[n] = Own(rest[n][1]) /\ rest[n][1] # i
      BY <3>1, <3>3
    <3>. QED
      BY <3>2, <3>3, <3>4, OneInFront
  <2>. QED
    BY <1>3, <2>1, <2>2 DEF SetCookies
<1>4. ASSUME NEW i \in Identity, RemoveIdentityData(i)
      PROVE  /\ OneDirectoryEach'
             /\ {d[1] : d \in ToSet(dirs')} = {d[1] : d \in ToSet(dirs)} \ {i}
  <2>. DEFINE c == Chosen(Matching(i))
              rest == RemoveAt(dirs, c)
  <2>1. c \in 1 .. Len(dirs) /\ dirs[c][1] = i /\ dirs' = rest
    BY <1>1, <1>4, ChosenMatches DEF RemoveIdentityData, RootDirForIdentity
  <2>. HIDE DEF c
  <2>2. c \in 1 .. Len(dirs) /\ dirs \in Seq(DirName)
    BY <1>1, <2>1
  <2>3. /\ rest \in Seq(DirName)
        /\ \A n \in 1 .. Len(rest) : rest[n] = Own(rest[n][1]) /\ rest[n][1] # dirs[c][1]
        /\ \A m, n \in 1 .. Len(rest) : rest[m][1] = rest[n][1] => m = n
        /\ \A k \in 1 .. Len(dirs) : k # c => \E n \in 1 .. Len(rest) : rest[n] = dirs[k]
        /\ \A n \in 1 .. Len(rest) : \E k \in 1 .. Len(dirs) : k # c /\ rest[n] = dirs[k]
    BY <2>2, OthersLeft
  <2>. HIDE DEF rest
  <2>4. OneDirectoryEach'
    BY <2>1, <2>3 DEF OneDirectoryEach, Own
  <2>5. \A x : x \in {d[1] : d \in ToSet(rest)} <=> \E n \in 1 .. Len(rest) : x = rest[n][1]
    BY <2>3 DEF ToSet
  <2>6. \A x : x \in {d[1] : d \in ToSet(dirs)} <=> \E n \in 1 .. Len(dirs) : x = dirs[n][1]
    BY <1>1 DEF ToSet
  <2>7. ASSUME NEW x, x \in {d[1] : d \in ToSet(rest)}
        PROVE  x \in {d[1] : d \in ToSet(dirs)} \ {i}
    <3>1. PICK n \in 1 .. Len(rest) : x = rest[n][1]
      BY <2>5, <2>7
    <3>2. PICK k \in 1 .. Len(dirs) : rest[n] = dirs[k]
      BY <2>3
    <3>3. x # i /\ x = dirs[k][1]
      BY <2>1, <2>3, <3>1, <3>2
    <3>4. x \in {d[1] : d \in ToSet(dirs)}
      BY <2>6, <3>3
    <3>. QED
      BY <3>3, <3>4
  <2>8. ASSUME NEW x, x \in {d[1] : d \in ToSet(dirs)} \ {i}
        PROVE  x \in {d[1] : d \in ToSet(rest)}
    <3>1. PICK k \in 1 .. Len(dirs) : x = dirs[k][1]
      BY <2>6, <2>8
    <3>2. x # i
      BY <2>8
    <3>3. k # c
      BY <2>1, <3>1, <3>2
    <3>4. PICK n \in 1 .. Len(rest) : rest[n] = dirs[k]
      BY <2>3, <3>3
    <3>5. x = rest[n][1]
      BY <3>1, <3>4
    <3>. QED
      BY <2>5, <3>5
  <2>9. {d[1] : d \in ToSet(rest)} = {d[1] : d \in ToSet(dirs)} \ {i}
    BY <2>7, <2>8
  <2>. QED
    BY <2>1, <2>4, <2>9
<1>5. CASE UNCHANGED dirs
  BY <1>5, <1>4 DEF OneDirectoryEach, Own
<1>6. \A i \in Identity : CookiesForIdentity(i) => UNCHANGED dirs
  BY DEF CookiesForIdentity
<1>7. UNCHANGED identityVars => UNCHANGED dirs
  BY DEF identityVars
<1>. QED
  BY <1>2, <1>3, <1>4, <1>5, <1>6, <1>7 DEF IdentityNext

\* removeIdentityData() removes all the data of the identity and those of no
\* other, as long as no number of an identity continues that of another and
\* no older version left a directory: these are the only ways to violate it
\* (rootDirForIdentity() gives one directory).
THEOREM DataRemovedCorrect ==
  ASSUME PrefixFree
  PROVE  IdentitySpec /\ dirs = <<>> => DataRemoved
<1>1. IdentityInit /\ dirs = <<>> => IdentityInv /\ OneDirectoryEach
  BY IdentityInitInv DEF OneDirectoryEach
<1>2. IdentityInv /\ [IdentityNext]_identityVars => IdentityInv'
  BY IdentityStep
<1>3. IdentityInv /\ OneDirectoryEach /\ [IdentityNext]_identityVars =>
        /\ OneDirectoryEach'
        /\ \A i \in Identity :
             RemoveIdentityData(i) =>
               {d[1] : d \in ToSet(dirs')} = {d[1] : d \in ToSet(dirs)} \ {i}
  BY OneDirectoryStep
<1>. QED
  BY <1>1, <1>2, <1>3, PTL DEF IdentitySpec, DataRemoved

-----------------------------------------------------------------------------
(***************************************************************************)
(* Ipc: what is handed over is what was written, whole, once and in order, *)
(* as long as no chunk ends within a length.                               *)
(*                                                                         *)
(* The argument: a byte tells which byte may follow it, so a stream in     *)
(* which each byte follows the one before it, and which ends before the    *)
(* next byte that would be written, is determined by its first byte; and   *)
(* that is always the one that the reader is at.                           *)
(***************************************************************************)

Byte == Nat \X Nat

Follows(a, b) ==
  \/ a = <<0, 0>> /\ b \in {<<0, 0>>, <<0, 1>>}
  \/ a[1] = 0 /\ a[2] \notin {0, WelcomeSize} /\ b = <<0, a[2] + 1>>
  \/ a = <<0, WelcomeSize>> /\ b = <<1, 1>>
  \/ /\ a[1] # 0
     /\ b = IF a[2] = LengthSize + MessageSize[a[1]] THEN <<a[1] + 1, 1>> ELSE <<a[1], a[2] + 1>>

Chain(s) == \A i \in 1 .. Len(s) - 1 : Follows(s[i], s[i + 1])

\* What is still to be read, and the next byte to be written.
Stream == (readable \o pipe) \o <<<<written + 1, 1>>>>

\* The byte the reader is at.
Expected ==
  <<Len(received) + 1, IF expectedLength = 0 THEN 1 ELSE LengthSize + Len(readBuffer) + 1>>

IpcType ==
  /\ written \in 0 .. Len(MessageSize)
  /\ pipe \in Seq(Byte) /\ readable \in Seq(Byte)
  /\ readBuffer \in Seq(Byte) /\ received \in Seq(Seq(Byte))
  /\ Len(received) <= written
  /\ gotWelcome \in BOOLEAN

StreamOK ==
  /\ Chain(Stream)
  /\ \A i \in 1 .. Len(Stream) - 1 : Stream[i][1] <= written
  /\ gotWelcome => Stream[1] = Expected

\* What has been read of the message under way.
BufferOK ==
  /\ ~gotWelcome => expectedLength = 0 /\ received = <<>>
  /\ expectedLength # 0 =>
       /\ Len(received) < written
       /\ expectedLength = MessageSize[Len(received) + 1]
       /\ Len(readBuffer) < expectedLength
       /\ \A i \in 1 .. Len(readBuffer) : readBuffer[i] = <<Len(received) + 1, LengthSize + i>>

WholeLengths == readable # <<>> => ~WithinLength(readable[Len(readable)])

IpcInv == IpcType /\ StreamOK /\ BufferOK /\ WholeLengths

LEMMA Sizes ==
  /\ LengthSize \in Nat \ {0} /\ WelcomeSize \in Nat \ {0} /\ NoiseSize \in Nat
  /\ Len(MessageSize) \in Nat
  BY IpcAssumption

LEMMA SizeNat ==
  \A m \in 1 .. Len(MessageSize) :
    MessageSize[m] \in Nat /\ LengthSize + MessageSize[m] \in Nat /\ m \in Nat \ {0}
<1>1. MessageSize \in Seq(Nat)
  BY IpcAssumption
<1>2. \A m \in 1 .. Len(MessageSize) : MessageSize[m] \in Nat
  BY <1>1
<1>. QED
  BY <1>2, Sizes

LEMMA StreamIs ==
  ASSUME NEW r \in Seq(Byte), NEW q \in Seq(Byte), NEW e \in Byte
  PROVE  /\ (r \o q) \o <<e>> \in Seq(Byte)
         /\ Len((r \o q) \o <<e>>) = Len(r) + Len(q) + 1
         /\ \A i \in 1 .. Len(r) : ((r \o q) \o <<e>>)[i] = r[i]
         /\ \A i \in 1 .. Len(q) : ((r \o q) \o <<e>>)[Len(r) + i] = q[i]
         /\ ((r \o q) \o <<e>>)[Len(r) + Len(q) + 1] = e
<1>1. /\ r \o q \in Seq(Byte) /\ Len(r \o q) = Len(r) + Len(q)
      /\ \A i \in 1 .. Len(r) + Len(q) : (r \o q)[i] = IF i <= Len(r) THEN r[i] ELSE q[i - Len(r)]
  BY ConcatProperties
<1>2. Len(r) \in Nat /\ Len(q) \in Nat
  OBVIOUS
<1>. DEFINE s == r \o q
<1>3. /\ s \in Seq(Byte) /\ Len(s) = Len(r) + Len(q)
      /\ \A i \in 1 .. Len(r) : s[i] = r[i]
      /\ \A i \in 1 .. Len(q) : s[Len(r) + i] = q[i]
  <2>1. \A i \in 1 .. Len(r) : i \in 1 .. Len(r) + Len(q)
    BY <1>2
  <2>2. \A i \in 1 .. Len(q) : /\ Len(r) + i \in 1 .. Len(r) + Len(q)
                               /\ ~ (Len(r) + i <= Len(r)) /\ (Len(r) + i) - Len(r) = i
    BY <1>2
  <2>. QED
    BY <1>1, <2>1, <2>2
<1>. HIDE DEF s
<1>4. /\ s \o <<e>> \in Seq(Byte) /\ Len(s \o <<e>>) = Len(s) + 1
      /\ \A i \in 1 .. Len(s) : (s \o <<e>>)[i] = s[i]
      /\ (s \o <<e>>)[Len(s) + 1] = e
  <2>1. <<e>> \in Seq(Byte) /\ Len(<<e>>) = 1 /\ <<e>>[1] = e
    OBVIOUS
  <2>2. /\ s \o <<e>> \in Seq(Byte) /\ Len(s \o <<e>>) = Len(s) + 1
        /\ \A i \in 1 .. Len(s) + 1 :
             (s \o <<e>>)[i] = IF i <= Len(s) THEN s[i] ELSE <<e>>[i - Len(s)]
    BY <1>3, <2>1, ConcatProperties
  <2>3. Len(s) \in Nat /\ (Len(s) + 1) - Len(s) = 1 /\ Len(s) + 1 \in 1 .. Len(s) + 1
    BY <1>2, <1>3
  <2>4. (s \o <<e>>)[Len(s) + 1] = e
    BY <2>1, <2>2, <2>3
  <2>. QED
    BY <2>2, <2>3, <2>4
<1>. QED
  BY <1>2, <1>3, <1>4 DEF s

LEMMA StreamHas ==
  ASSUME IpcType
  PROVE  /\ Stream \in Seq(Byte) /\ Len(Stream) = Len(readable) + Len(pipe) + 1
         /\ \A i \in 1 .. Len(readable) : Stream[i] = readable[i]
         /\ \A i \in 1 .. Len(pipe) : Stream[Len(readable) + i] = pipe[i]
         /\ Stream[Len(readable) + Len(pipe) + 1] = <<written + 1, 1>>
         /\ Len(readable) \in Nat /\ Len(pipe) \in Nat
<1>1. <<written + 1, 1>> \in Byte
  BY DEF IpcType, Byte
<1>. QED
  BY <1>1, StreamIs DEF IpcType, Stream

\* The arithmetic of some steps below.
LEMMA OneBefore ==
  \A i, n \in Nat : i <= n => i - 1 # n /\ (i - 1) + 1 = i /\ i - 1 <= n
  OBVIOUS

LEMMA PastTheDropped ==
  \A k, r, p, i \in Nat :
    k <= r /\ r - k < i /\ i < (r - k) + p + 1
    => i - (r - k) \in 1 .. p /\ (r - k) + (i - (r - k)) = i /\ r + (i - (r - k)) = k + i
  OBVIOUS

\* From a byte of a message on, its bytes come one after the other.
LEMMA Along ==
  ASSUME NEW z \in Seq(Byte), Chain(z), NEW m \in 1 .. Len(MessageSize),
         NEW i0 \in 1 .. LengthSize + MessageSize[m], z[1] = <<m, i0>>,
         NEW k \in Nat, k + 1 <= Len(z), i0 + k <= LengthSize + MessageSize[m]
  PROVE  z[k + 1] = <<m, i0 + k>>
<1>. DEFINE T == {j \in Nat : /\ j + 1 <= Len(z) /\ i0 + j <= LengthSize + MessageSize[m]
                              /\ z[j + 1] # <<m, i0 + j>>}
            R == OpToRel(<, Nat)
<1>1. IsWellFoundedOn(R, Nat)
  BY NatLessThanWellFounded
<1>2. \A a, b \in Nat : a < b => <<a, b>> \in R
  BY DEF OpToRel
<1>. HIDE DEF R
<1>3. SUFFICES ASSUME T # {}
               PROVE  FALSE
  OBVIOUS
<1>4. PICK j \in T : \A l \in T : <<l, j>> \notin R
  <2>1. T \subseteq Nat
    OBVIOUS
  <2>. HIDE DEF T
  <2>. QED
    BY <1>1, <1>3, <2>1, WFMin
<1>5. j # 0
  OBVIOUS
<1>6. /\ j - 1 \in Nat /\ (j - 1) + 1 = j /\ j - 1 < j /\ i0 + (j - 1) = (i0 + j) - 1
      /\ j \in 1 .. Len(z) - 1 /\ i0 + j <= LengthSize + MessageSize[m]
      /\ z[j + 1] # <<m, i0 + j>>
  BY <1>5, SizeNat, Sizes
<1>7. j - 1 \notin T
  BY <1>2, <1>4, <1>6
<1>8. z[j] = <<m, (i0 + j) - 1>>
  <2>1. (j - 1) + 1 <= Len(z) /\ i0 + (j - 1) <= LengthSize + MessageSize[m]
    <3>1. Len(z) \in Nat /\ j \in Nat /\ i0 + j \in Nat /\ LengthSize + MessageSize[m] \in Nat
      <4>1. LengthSize + MessageSize[m] \in Nat /\ Len(z) \in Nat /\ j \in Nat
        BY SizeNat
      <4>. QED
        BY <4>1
    <3>2. (j - 1) + 1 = j /\ j <= Len(z)
      BY <1>6, <3>1
    <3>3. (i0 + j) - 1 <= LengthSize + MessageSize[m]
      BY <1>6, <3>1, OneBefore
    <3>. QED
      BY <1>6, <3>2, <3>3
  <2>2. z[(j - 1) + 1] = <<m, i0 + (j - 1)>>
    BY <1>6, <1>7, <2>1
  <2>. QED
    BY <1>6, <2>2
<1>9. Follows(z[j], z[j + 1])
  BY <1>6 DEF Chain
<1>10. /\ m # 0 /\ (i0 + j) - 1 # LengthSize + MessageSize[m]
       /\ ((i0 + j) - 1) + 1 = i0 + j
  <2>1. j \in Nat
    BY <1>4
  <2>2. LengthSize + MessageSize[m] \in Nat /\ i0 \in Nat /\ m \in Nat \ {0}
    BY SizeNat, Sizes
  <2>3. i0 + j \in Nat /\ i0 + j <= LengthSize + MessageSize[m]
    BY <1>6, <2>1, <2>2
  <2>4. (i0 + j) - 1 # LengthSize + MessageSize[m] /\ ((i0 + j) - 1) + 1 = i0 + j
    BY <2>2, <2>3, OneBefore
  <2>. QED
    BY <2>2, <2>4
<1>11. z[j][1] = m /\ z[j][2] = (i0 + j) - 1
  BY <1>8
<1>12. z[j + 1] = <<m, i0 + j>>
  BY <1>9, <1>10, <1>11 DEF Follows
<1>. QED
  BY <1>6, <1>12

\* Bytes are taken from the front of what is readable.
Drop(k) ==
  /\ k \in 0 .. Len(readable)
  /\ readable' = SubSeq(readable, k + 1, Len(readable))
  /\ pipe' = pipe /\ written' = written

LEMMA DropStream ==
  ASSUME IpcType, WholeLengths, Chain(Stream),
         \A i \in 1 .. Len(Stream) - 1 : Stream[i][1] <= written,
         NEW k, Drop(k)
  PROVE  /\ readable' \in Seq(Byte) /\ WholeLengths' /\ Chain(Stream')
         /\ \A i \in 1 .. Len(Stream') - 1 : Stream'[i][1] <= written'
         /\ Stream'[1] = Stream[k + 1]
<1>1. /\ k \in 0 .. Len(readable) /\ pipe' = pipe /\ written' = written
      /\ readable' \in Seq(Byte) /\ Len(readable') = Len(readable) - k
      /\ \A i \in 1 .. Len(readable) - k : readable'[i] = readable[k + i]
  BY SubSeqProperties DEF Drop, IpcType
<1>. DEFINE z == Stream  y == Stream'
<1>2. /\ z \in Seq(Byte) /\ Len(z) = Len(readable) + Len(pipe) + 1
      /\ \A i \in 1 .. Len(readable) : z[i] = readable[i]
      /\ \A i \in 1 .. Len(pipe) : z[Len(readable) + i] = pipe[i]
      /\ z[Len(readable) + Len(pipe) + 1] = <<written + 1, 1>>
      /\ Len(readable) \in Nat /\ Len(pipe) \in Nat
  BY StreamHas
<1>3. /\ y \in Seq(Byte) /\ Len(y) = Len(readable') + Len(pipe) + 1
      /\ \A i \in 1 .. Len(readable') : y[i] = readable'[i]
      /\ \A i \in 1 .. Len(pipe) : y[Len(readable') + i] = pipe[i]
      /\ y[Len(readable') + Len(pipe) + 1] = <<written + 1, 1>>
  <2>1. <<written + 1, 1>> \in Byte /\ pipe \in Seq(Byte)
    BY DEF IpcType, Byte
  <2>2. y = (readable' \o pipe) \o <<<<written + 1, 1>>>>
    BY <1>1 DEF Stream
  <2>3. readable' \in Seq(Byte)
    BY <1>1
  <2>. HIDE DEF y, Byte
  <2>. QED
    BY <2>1, <2>2, <2>3, StreamIs
<1>. HIDE DEF z, y
<1>4. Len(y) = Len(z) - k /\ k \in Nat /\ k < Len(z) /\ Len(z) \in Nat
  BY <1>1, <1>2, <1>3
<1>5. \A i \in 1 .. Len(y) : y[i] = z[k + i]
  <2>1. SUFFICES ASSUME NEW i \in 1 .. Len(y)
                 PROVE  y[i] = z[k + i]
    OBVIOUS
  <2>2. CASE i <= Len(readable')
    <3>1. i \in 1 .. Len(readable') /\ i \in 1 .. Len(readable) - k /\ k + i \in 1 .. Len(readable)
      BY <1>1, <1>2, <2>2
    <3>. QED
      BY <1>1, <1>2, <1>3, <3>1
  <2>3. CASE i > Len(readable') /\ i < Len(y)
    <3>. DEFINE l == i - Len(readable')
    <3>1. l \in 1 .. Len(pipe) /\ Len(readable') + l = i /\ Len(readable) + l = k + i
      <4>1. i \in Nat /\ k \in Nat /\ Len(readable) \in Nat /\ Len(pipe) \in Nat
        BY <1>2, <1>4
      <4>2. k <= Len(readable) /\ Len(readable') = Len(readable) - k
        BY <1>1, <4>1
      <4>3. Len(readable) - k < i /\ i < (Len(readable) - k) + Len(pipe) + 1
        BY <1>3, <2>3, <4>1, <4>2
      <4>. QED
        BY <4>1, <4>2, <4>3, PastTheDropped
    <3>. HIDE DEF l
    <3>2. y[Len(readable') + l] = pipe[l] /\ z[Len(readable) + l] = pipe[l]
      BY <1>2, <1>3, <3>1
    <3>. QED
      BY <3>1, <3>2
  <2>4. CASE i = Len(y)
    <3>1. k + i = Len(readable) + Len(pipe) + 1 /\ i = Len(readable') + Len(pipe) + 1
      BY <1>2, <1>3, <1>4, <2>4
    <3>. QED
      BY <1>2, <1>3, <3>1
  <2>5. i <= Len(y) /\ i \in Nat /\ Len(y) \in Nat /\ Len(readable') \in Nat
    BY <1>1, <1>4
  <2>6. i <= Len(readable') \/ (i > Len(readable') /\ i < Len(y)) \/ i = Len(y)
    BY <2>5
  <2>. QED
    BY <2>2, <2>3, <2>4, <2>6
<1>6. Chain(y)
  <2>1. \A i \in 1 .. Len(y) - 1 : /\ i \in 1 .. Len(y) /\ i + 1 \in 1 .. Len(y)
                                   /\ k + i \in 1 .. Len(z) - 1 /\ k + (i + 1) = (k + i) + 1
    BY <1>4
  <2>2. Chain(z)
    BY DEF z
  <2>. QED
    BY <1>5, <2>1, <2>2 DEF Chain
<1>7. \A i \in 1 .. Len(y) - 1 : y[i][1] <= written'
  <2>1. \A i \in 1 .. Len(y) - 1 : i \in 1 .. Len(y) /\ k + i \in 1 .. Len(z) - 1
    BY <1>4
  <2>2. \A i \in 1 .. Len(z) - 1 : z[i][1] <= written
    BY DEF z
  <2>. QED
    BY <1>1, <1>5, <2>1, <2>2
<1>8. y[1] = z[k + 1]
  BY <1>4, <1>5
<1>9. WholeLengths'
  <2>1. SUFFICES ASSUME readable' # <<>>
                 PROVE  ~WithinLength(readable'[Len(readable')])
    BY DEF WholeLengths, WithinLength
  <2>2. Len(readable') \in 1 .. Len(readable) - k /\ k + Len(readable') = Len(readable)
    BY <1>1, <1>2, <2>1
  <2>3. readable'[Len(readable')] = readable[Len(readable)] /\ readable # <<>>
    BY <1>1, <1>2, <2>2
  <2>. QED
    BY <2>3 DEF WholeLengths
<1>. QED
  BY <1>1, <1>6, <1>7, <1>8, <1>9 DEF y, z

\* A sequence that runs through consecutive positions.
LEMMA Consecutive ==
  ASSUME NEW a \in Seq(Byte), NEW b \in Seq(Byte), NEW m, NEW from \in Nat,
         \A i \in 1 .. Len(a) : a[i] = <<m, from + i>>,
         \A i \in 1 .. Len(b) : b[i] = <<m, from + Len(a) + i>>
  PROVE  /\ a \o b \in Seq(Byte) /\ Len(a \o b) = Len(a) + Len(b)
         /\ \A i \in 1 .. Len(a) + Len(b) : (a \o b)[i] = <<m, from + i>>
<1>1. /\ a \o b \in Seq(Byte) /\ Len(a \o b) = Len(a) + Len(b)
      /\ \A i \in 1 .. Len(a) + Len(b) : (a \o b)[i] = IF i <= Len(a) THEN a[i] ELSE b[i - Len(a)]
  BY ConcatProperties
<1>2. ASSUME NEW i \in 1 .. Len(a) + Len(b)
      PROVE  (a \o b)[i] = <<m, from + i>>
  <2>1. Len(a) \in Nat /\ Len(b) \in Nat
    OBVIOUS
  <2>2. CASE i <= Len(a)
    <3>1. i \in 1 .. Len(a)
      BY <2>1, <2>2
    <3>. QED
      BY <1>1, <2>2, <3>1
  <2>3. CASE ~ (i <= Len(a))
    <3>1. i - Len(a) \in 1 .. Len(b) /\ from + Len(a) + (i - Len(a)) = from + i
      BY <2>1, <2>3
    <3>. QED
      BY <1>1, <2>3, <3>1
  <2>. QED
    BY <2>2, <2>3
<1>. QED
  BY <1>1, <1>2

LEMMA FrameIs ==
  ASSUME NEW m \in 1 .. Len(MessageSize)
  PROVE  /\ LengthOf(m) \in Seq(Byte) /\ Len(LengthOf(m)) = LengthSize
         /\ \A i \in 1 .. LengthSize : LengthOf(m)[i] = <<m, i>>
         /\ Payload(m) \in Seq(Byte) /\ Len(Payload(m)) = MessageSize[m]
         /\ \A i \in 1 .. MessageSize[m] : Payload(m)[i] = <<m, LengthSize + i>>
<1>1. m \in Nat /\ LengthSize \in Nat /\ MessageSize[m] \in Nat
  BY SizeNat, Sizes
<1>2. \A i \in 1 .. LengthSize : <<m, i>> \in Byte
  BY <1>1 DEF Byte
<1>3. \A i \in 1 .. MessageSize[m] : <<m, LengthSize + i>> \in Byte
  BY <1>1 DEF Byte
<1>. HIDE DEF Byte
<1>4. /\ LengthOf(m) \in Seq(Byte) /\ Len(LengthOf(m)) = LengthSize
      /\ \A i \in 1 .. LengthSize : LengthOf(m)[i] = <<m, i>>
  BY <1>1, <1>2, IsASeq DEF LengthOf
<1>. DEFINE size == MessageSize[m]
<1>5. size \in Nat /\ \A i \in 1 .. size : <<m, LengthSize + i>> \in Byte
  BY <1>1, <1>3
<1>6. Payload(m) = [i \in 1 .. size |-> <<m, LengthSize + i>>]
  BY DEF Payload
<1>. HIDE DEF size
<1>7. /\ Payload(m) \in Seq(Byte) /\ Len(Payload(m)) = size
      /\ \A i \in 1 .. size : Payload(m)[i] = <<m, LengthSize + i>>
  BY <1>5, <1>6, IsASeq
<1>. QED
  BY <1>4, <1>7 DEF size

LEMMA IpcInitInv ==
  ASSUME IpcInit
  PROVE  IpcInv
<1>1. Len(MessageSize) \in Nat /\ NoiseSize \in Nat /\ WelcomeSize \in Nat /\ WelcomeSize # 0
  BY Sizes
<1>2. /\ Noise \in Seq(Byte) /\ Len(Noise) = NoiseSize
      /\ \A i \in 1 .. NoiseSize : Noise[i] = <<0, 0>>
      /\ Welcome \in Seq(Byte) /\ Len(Welcome) = WelcomeSize
      /\ \A i \in 1 .. WelcomeSize : Welcome[i] = <<0, i>>
  <2>1. <<0, 0>> \in Byte /\ \A i \in 1 .. WelcomeSize : <<0, i>> \in Byte
    BY <1>1 DEF Byte
  <2>. HIDE DEF Byte
  <2>. QED
    BY <1>1, <2>1, IsASeq DEF Noise, Welcome
<1>3. Noise \o Welcome \in Seq(Byte)
  BY <1>2, ConcatProperties
<1>4. IpcType
  BY <1>1, <1>3 DEF IpcInit, IpcType
<1>5. readable = <<>> /\ written = 0 /\ received = <<>> /\ expectedLength = 0
  BY DEF IpcInit
<1>6. StreamOK
  <2>1. CASE throughFiles
    <3>1. pipe = Noise \o Welcome /\ ~gotWelcome
      BY <2>1 DEF IpcInit
    <3>2. /\ Len(pipe) = NoiseSize + WelcomeSize
          /\ \A i \in 1 .. NoiseSize + WelcomeSize :
               pipe[i] = IF i <= NoiseSize THEN <<0, 0>> ELSE <<0, i - NoiseSize>>
      <4>1. /\ Len(pipe) = NoiseSize + WelcomeSize
            /\ \A i \in 1 .. NoiseSize + WelcomeSize :
                 pipe[i] = IF i <= NoiseSize THEN Noise[i] ELSE Welcome[i - NoiseSize]
        BY <1>2, <3>1, ConcatProperties
      <4>2. \A i \in 1 .. NoiseSize + WelcomeSize :
              IF i <= NoiseSize THEN i \in 1 .. NoiseSize ELSE i - NoiseSize \in 1 .. WelcomeSize
        BY <1>1
      <4>. QED
        BY <1>2, <4>1, <4>2
    <3>. DEFINE z == Stream  n == NoiseSize + WelcomeSize
    <3>3. /\ Len(z) = n + 1
          /\ \A i \in 1 .. n : z[i] = pipe[i]
          /\ z[n + 1] = <<1, 1>>
      <4>1. Len(readable) = 0
        BY <1>5
      <4>2. \A i \in 1 .. n : 0 + i = i
        BY <1>1
      <4>. QED
        BY <1>1, <1>4, <1>5, <3>2, <4>1, <4>2, StreamHas
    <3>. HIDE DEF z
    <3>4. \A i \in 1 .. n : z[i] = IF i <= NoiseSize THEN <<0, 0>> ELSE <<0, i - NoiseSize>>
      BY <3>2, <3>3
    <3>5. Chain(z)
      <4>1. SUFFICES ASSUME NEW i \in 1 .. n
                     PROVE  Follows(z[i], z[i + 1])
        <5>1. (n + 1) - 1 = n
          BY <1>1
        <5>. HIDE DEF n
        <5>. QED
          BY <3>3, <5>1 DEF Chain
      <4>2. CASE i < NoiseSize
        <5>1. i <= NoiseSize /\ i + 1 \in 1 .. n /\ i + 1 <= NoiseSize
          BY <1>1, <4>2
        <5>2. z[i] = <<0, 0>> /\ z[i + 1] = <<0, 0>>
          BY <3>4, <5>1
        <5>3. z[i][1] = 0 /\ z[i][2] = 0
          BY <5>2
        <5>. QED
          BY <5>2, <5>3 DEF Follows
      <4>3. CASE i = NoiseSize
        <5>1. /\ i <= NoiseSize /\ i + 1 \in 1 .. n
              /\ ~ (i + 1 <= NoiseSize) /\ (i + 1) - NoiseSize = 1
          BY <1>1, <4>3
        <5>2. z[i] = <<0, 0>> /\ z[i + 1] = <<0, 1>>
          BY <3>4, <5>1
        <5>3. z[i][1] = 0 /\ z[i][2] = 0
          BY <5>2
        <5>. QED
          BY <5>2, <5>3 DEF Follows
      <4>4. CASE i > NoiseSize /\ i < n
        <5>1. /\ ~ (i <= NoiseSize) /\ i + 1 \in 1 .. n /\ ~ (i + 1 <= NoiseSize)
              /\ (i + 1) - NoiseSize = (i - NoiseSize) + 1
              /\ i - NoiseSize # 0 /\ i - NoiseSize # WelcomeSize
          BY <1>1, <4>4
        <5>2. z[i] = <<0, i - NoiseSize>> /\ z[i + 1] = <<0, (i - NoiseSize) + 1>>
          BY <3>4, <5>1
        <5>. QED
          BY <5>1, <5>2 DEF Follows
      <4>5. CASE i = n
        <5>1. ~ (i <= NoiseSize) /\ i - NoiseSize = WelcomeSize
          BY <1>1, <4>5
        <5>2. z[i] = <<0, WelcomeSize>> /\ z[i + 1] = <<1, 1>>
          BY <3>3, <3>4, <4>5, <5>1
        <5>. QED
          BY <1>1, <5>2 DEF Follows
      <4>. QED
        BY <1>1, <4>2, <4>3, <4>4, <4>5
    <3>6. \A i \in 1 .. Len(z) - 1 : z[i][1] <= written
      <4>1. ASSUME NEW i \in 1 .. n
            PROVE  z[i][1] = 0
        <5>1. z[i] = <<0, 0>> \/ z[i] = <<0, i - NoiseSize>>
          BY <3>4
        <5>. QED
          BY <5>1
      <4>. QED
        BY <1>1, <1>5, <3>3, <4>1
    <3>. QED
      BY <3>1, <3>5, <3>6 DEF StreamOK, z
  <2>2. CASE ~throughFiles
    <3>1. pipe = <<>>
      BY <2>2 DEF IpcInit
    <3>2. Len(Stream) = 1 /\ Stream[1] = <<1, 1>>
      <4>1. Len(readable) = 0 /\ Len(pipe) = 0
        BY <1>5, <3>1
      <4>. QED
        BY <1>4, <1>5, <4>1, StreamHas
    <3>3. Expected = <<1, 1>>
      BY <1>5 DEF Expected
    <3>4. 1 .. Len(Stream) - 1 = {}
      BY <3>2
    <3>. QED
      BY <3>2, <3>3, <3>4 DEF StreamOK, Chain
  <2>. QED
    BY <2>1, <2>2
<1>. QED
  BY <1>4, <1>5, <1>6 DEF IpcInv, BufferOK, WholeLengths

LEMMA WriteInv ==
  ASSUME IpcInv, Write
  PROVE  IpcInv'
<1>. DEFINE w == written + 1
            frame == LengthOf(w) \o Payload(w)
            size == LengthSize + MessageSize[w]
            z == Stream  y == Stream'  n == Len(readable) + Len(pipe)
<1>1. /\ w \in 1 .. Len(MessageSize) /\ written' = w /\ pipe' = pipe \o LengthOf(w) \o Payload(w)
      /\ readable' = readable /\ gotWelcome' = gotWelcome /\ expectedLength' = expectedLength
      /\ readBuffer' = readBuffer /\ received' = received /\ written \in Nat
  BY Sizes DEF IpcInv, IpcType, Write
<1>. USE DEF IpcInv
<1>2. pipe \in Seq(Byte) /\ readable \in Seq(Byte) /\ Len(pipe) \in Nat /\ Len(readable) \in Nat
  BY DEF IpcType
<1>3. /\ LengthOf(w) \in Seq(Byte) /\ Payload(w) \in Seq(Byte)
      /\ frame \in Seq(Byte) /\ Len(frame) = size
      /\ \A i \in 1 .. size : frame[i] = <<w, i>>
  <2>1. /\ LengthOf(w) \in Seq(Byte) /\ Len(LengthOf(w)) = LengthSize
        /\ \A i \in 1 .. LengthSize : LengthOf(w)[i] = <<w, i>>
        /\ Payload(w) \in Seq(Byte) /\ Len(Payload(w)) = MessageSize[w]
        /\ \A i \in 1 .. MessageSize[w] : Payload(w)[i] = <<w, LengthSize + i>>
    BY <1>1, FrameIs
  <2>. DEFINE a == LengthOf(w)  b == Payload(w)
  <2>2. a \in Seq(Byte) /\ b \in Seq(Byte)
    BY <2>1
  <2>. HIDE DEF a, b, w
  <2>3. \A i \in Nat : 0 + i = i /\ 0 + LengthSize + i = LengthSize + i
    BY Sizes
  <2>4. Len(a) \in Nat /\ Len(b) \in Nat
    BY <2>2
  <2>5. /\ \A i \in 1 .. Len(a) : a[i] = <<w, 0 + i>>
        /\ \A i \in 1 .. Len(b) : b[i] = <<w, 0 + Len(a) + i>>
    <3>1. ASSUME NEW i \in 1 .. Len(a)
          PROVE  a[i] = <<w, 0 + i>>
      BY <2>1, <2>3, <2>4 DEF a
    <3>2. ASSUME NEW i \in 1 .. Len(b)
          PROVE  b[i] = <<w, 0 + Len(a) + i>>
      <4>1. Len(a) = LengthSize /\ i \in Nat
        BY <2>1, <2>4 DEF a
      <4>2. b[i] = <<w, LengthSize + i>>
        BY <2>1 DEF b
      <4>. QED
        BY <2>3, <4>1, <4>2
    <3>. QED
      BY <3>1, <3>2
  <2>6. /\ a \o b \in Seq(Byte) /\ Len(a \o b) = Len(a) + Len(b)
        /\ \A i \in 1 .. Len(a) + Len(b) : (a \o b)[i] = <<w, 0 + i>>
    BY <2>5, <2>2, Consecutive
  <2>7. \A i \in 1 .. size : 0 + i = i
    BY <1>1, SizeNat, Sizes
  <2>. QED
    BY <2>1, <2>6, <2>7 DEF a, b
<1>4. size \in Nat /\ LengthSize \in Nat \ {0} /\ MessageSize[w] \in Nat
  BY <1>1, SizeNat, Sizes
<1>5. pipe' = pipe \o frame
  <2>1. (pipe \o LengthOf(w)) \o Payload(w) = pipe \o (LengthOf(w) \o Payload(w))
    <3>1. pipe \in Seq(Byte) /\ LengthOf(w) \in Seq(Byte) /\ Payload(w) \in Seq(Byte)
      BY <1>2, <1>3
    <3>. HIDE DEF Byte, w
    <3>. QED
      BY <3>1, ConcatAssociative
  <2>. QED
    BY <1>1, <2>1
<1>. HIDE DEF frame, size
<1>6. /\ pipe' \in Seq(Byte) /\ Len(pipe') = Len(pipe) + size
      /\ \A i \in 1 .. Len(pipe) : pipe'[i] = pipe[i]
      /\ \A i \in 1 .. size : pipe'[Len(pipe) + i] = <<w, i>>
  <2>1. /\ pipe \o frame \in Seq(Byte) /\ Len(pipe \o frame) = Len(pipe) + size
        /\ \A i \in 1 .. Len(pipe) + size :
             (pipe \o frame)[i] = IF i <= Len(pipe) THEN pipe[i] ELSE frame[i - Len(pipe)]
    BY <1>2, <1>3, ConcatProperties
  <2>2. \A i \in 1 .. Len(pipe) : i \in 1 .. Len(pipe) + size /\ i <= Len(pipe)
    BY <1>2, <1>4
  <2>3. \A i \in 1 .. size : /\ Len(pipe) + i \in 1 .. Len(pipe) + size
                             /\ ~ (Len(pipe) + i <= Len(pipe)) /\ (Len(pipe) + i) - Len(pipe) = i
    BY <1>2, <1>4
  <2>. QED
    BY <1>3, <1>5, <2>1, <2>2, <2>3
<1>7. IpcType'
  BY <1>1, <1>6 DEF IpcType
<1>8. /\ Len(z) = n + 1
      /\ \A i \in 1 .. Len(readable) : z[i] = readable[i]
      /\ \A i \in 1 .. Len(pipe) : z[Len(readable) + i] = pipe[i]
      /\ z[n + 1] = <<w, 1>>
  BY StreamHas
<1>9. /\ Len(y) = n + size + 1
      /\ \A i \in 1 .. Len(readable) : y[i] = readable[i]
      /\ \A i \in 1 .. Len(pipe) + size : y[Len(readable) + i] = pipe'[i]
      /\ y[n + size + 1] = <<w + 1, 1>>
  <2>1. <<w + 1, 1>> \in Byte
    BY <1>1 DEF Byte
  <2>2. y = (readable \o pipe') \o <<<<w + 1, 1>>>>
    BY <1>1 DEF Stream
  <2>3. Len(readable) + (Len(pipe) + size) + 1 = n + size + 1
    BY <1>2, <1>4
  <2>. HIDE DEF y, w, z, n
  <2>4. /\ Len(y) = Len(readable) + Len(pipe') + 1
        /\ \A i \in 1 .. Len(readable) : y[i] = readable[i]
        /\ \A i \in 1 .. Len(pipe') : y[Len(readable) + i] = pipe'[i]
        /\ y[Len(readable) + Len(pipe') + 1] = <<w + 1, 1>>
    BY <1>2, <1>6, <2>1, <2>2, StreamIs
  <2>. QED
    BY <1>6, <2>3, <2>4 DEF n
<1>. HIDE DEF z, y
<1>10. \A i \in 1 .. n : y[i] = z[i]
  <2>1. SUFFICES ASSUME NEW i \in 1 .. n
                 PROVE  y[i] = z[i]
    OBVIOUS
  <2>2. CASE i <= Len(readable)
    BY <1>2, <1>8, <1>9, <2>2
  <2>3. CASE i > Len(readable)
    <3>1. PICK l \in 1 .. Len(pipe) : Len(readable) + l = i
      <4>1. i - Len(readable) \in 1 .. Len(pipe) /\ Len(readable) + (i - Len(readable)) = i
        BY <1>2, <2>3
      <4>. QED
        BY <4>1
    <3>2. l \in 1 .. Len(pipe) + size
      BY <1>2, <1>4
    <3>. QED
      BY <1>6, <1>8, <1>9, <3>1, <3>2
  <2>. QED
    BY <1>2, <2>2, <2>3
<1>11. \A i \in 1 .. size : y[n + i] = <<w, i>>
  <2>1. SUFFICES ASSUME NEW i \in 1 .. size
                 PROVE  y[n + i] = <<w, i>>
    OBVIOUS
  <2>2. Len(pipe) + i \in 1 .. Len(pipe) + size /\ Len(readable) + (Len(pipe) + i) = n + i
    BY <1>2, <1>4
  <2>3. y[n + i] = pipe'[Len(pipe) + i]
    BY <1>9, <2>2
  <2>. QED
    BY <1>6, <2>3
<1>12. Chain(z) /\ (\A i \in 1 .. n : z[i][1] <= written) /\ (gotWelcome => z[1] = Expected)
  BY <1>2, <1>8 DEF StreamOK, z
<1>13. n \in Nat /\ 1 \in 1 .. size
  BY <1>2, <1>4 DEF size
<1>14. Chain(y)
  <2>1. SUFFICES ASSUME NEW i \in 1 .. n + size
                 PROVE  Follows(y[i], y[i + 1])
    BY <1>4, <1>9, <1>13 DEF Chain
  <2>2. CASE i < n
    <3>1. i \in 1 .. n /\ i + 1 \in 1 .. n /\ i \in 1 .. Len(z) - 1
      BY <1>8, <1>13, <2>2
    <3>. QED
      BY <1>10, <1>12, <3>1 DEF Chain
  <2>3. CASE i = n
    <3>1. i \in 1 .. n /\ i \in 1 .. Len(z) - 1
      BY <1>8, <1>13, <2>3
    <3>2. y[i] = z[i] /\ y[i + 1] = <<w, 1>> /\ z[i + 1] = <<w, 1>>
      BY <1>8, <1>10, <1>11, <1>13, <2>3, <3>1
    <3>. QED
      BY <1>12, <3>1, <3>2 DEF Chain
  <2>4. CASE i > n
    <3>1. PICK l \in 1 .. size : n + l = i
      <4>1. i - n \in 1 .. size /\ n + (i - n) = i
        BY <1>4, <1>13, <2>4
      <4>. QED
        BY <4>1
    <3>2. y[i] = <<w, l>> /\ y[i][1] = w /\ y[i][2] = l /\ w # 0
      <4>1. w # 0
        BY <1>1
      <4>. HIDE DEF w, n
      <4>2. y[i] = <<w, l>>
        BY <1>11, <3>1
      <4>. QED
        BY <4>1, <4>2
    <3>3. CASE l = size
      <4>1. y[i + 1] = <<w + 1, 1>>
        BY <1>9, <3>1, <3>3
      <4>. QED
        BY <3>2, <3>3, <4>1 DEF Follows, size
    <3>4. CASE l # size
      <4>1. l + 1 \in 1 .. size /\ n + (l + 1) = i + 1
        BY <1>4, <1>13, <3>1, <3>4
      <4>2. y[i + 1] = <<w, l + 1>>
        BY <1>11, <4>1
      <4>. QED
        BY <3>2, <3>4, <4>2 DEF Follows, size
    <3>. QED
      BY <3>3, <3>4
  <2>. QED
    BY <1>4, <1>13, <2>2, <2>3, <2>4
<1>15. \A i \in 1 .. Len(y) - 1 : y[i][1] <= written'
  <2>1. SUFFICES ASSUME NEW i \in 1 .. n + size
                 PROVE  y[i][1] <= w
    <3>1. Len(y) - 1 = n + size
      BY <1>4, <1>9, <1>13
    <3>. QED
      BY <1>1, <3>1
  <2>2. CASE i <= n
    <3>1. i \in 1 .. n
      BY <1>13, <2>2
    <3>2. y[i][1] <= written /\ y[i][1] \in Nat
      <4>1. z[i] \in Byte
        BY <1>8, <1>13, <3>1, StreamHas DEF z
      <4>. QED
        BY <1>10, <1>12, <3>1, <4>1 DEF Byte
    <3>. QED
      BY <1>1, <3>2
  <2>3. CASE i > n
    <3>1. i - n \in 1 .. size /\ n + (i - n) = i
      BY <1>4, <1>13, <2>3
    <3>2. y[i] = <<w, i - n>>
      BY <1>11, <3>1
    <3>. QED
      BY <1>1, <3>2
  <2>. QED
    BY <1>4, <1>13, <2>2, <2>3
<1>16. gotWelcome => y[1] = Expected
  <2>1. CASE n = 0
    BY <1>8, <1>11, <1>12, <1>13, <2>1
  <2>2. CASE n # 0
    <3>1. 1 \in 1 .. n
      BY <1>13, <2>2
    <3>. QED
      BY <1>10, <1>12, <3>1
  <2>. QED
    BY <2>1, <2>2
<1>17. StreamOK'
  BY <1>1, <1>14, <1>15, <1>16 DEF StreamOK, Expected, y
<1>18. BufferOK'
  <2>1. received \in Seq(Seq(Byte))
    BY DEF IpcType
  <2>2. Len(received) \in Nat
    BY <2>1
  <2>. QED
    BY <1>1, <2>2 DEF BufferOK
<1>. QED
  BY <1>1, <1>7, <1>17, <1>18 DEF WholeLengths, WithinLength

LEMMA ArriveInv ==
  ASSUME SplitsLength = FALSE, IpcInv, NEW n \in 1 .. Len(pipe), Arrive(n)
  PROVE  IpcInv'
<1>1. /\ readable' = readable \o SubSeq(pipe, 1, n) /\ pipe' = SubSeq(pipe, n + 1, Len(pipe))
      /\ ~WithinLength(pipe[n])
      /\ written' = written /\ gotWelcome' = gotWelcome /\ expectedLength' = expectedLength
      /\ readBuffer' = readBuffer /\ received' = received
  BY DEF Arrive
<1>2. /\ pipe \in Seq(Byte) /\ readable \in Seq(Byte)
      /\ Len(pipe) \in Nat /\ Len(readable) \in Nat /\ n \in Nat
  BY DEF IpcInv, IpcType
<1>. DEFINE a == SubSeq(pipe, 1, n)
            b == SubSeq(pipe, n + 1, Len(pipe))
<1>3. /\ a \in Seq(Byte) /\ Len(a) = n /\ a[n] = pipe[n] /\ b \in Seq(Byte)
  BY <1>2, SubSeqProperties
<1>4. a \o b = pipe
  <2>1. a \o b = SubSeq(pipe, 1, Len(pipe))
    BY <1>2, ConcatAdjacentSubSeq
  <2>. QED
    BY <1>2, <2>1, SubSeqFull
<1>. HIDE DEF a, b
<1>5. /\ readable \o a \in Seq(Byte) /\ Len(readable \o a) = Len(readable) + n
      /\ (readable \o a)[Len(readable) + n] = pipe[n]
  <2>1. /\ readable \o a \in Seq(Byte) /\ Len(readable \o a) = Len(readable) + n
        /\ \A i \in 1 .. Len(readable) + n :
             (readable \o a)[i] = IF i <= Len(readable) THEN readable[i] ELSE a[i - Len(readable)]
    BY <1>2, <1>3, ConcatProperties
  <2>2. /\ Len(readable) + n \in 1 .. Len(readable) + n /\ ~ (Len(readable) + n <= Len(readable))
        /\ (Len(readable) + n) - Len(readable) = n
    BY <1>2
  <2>. QED
    BY <1>3, <2>1, <2>2
<1>6. (readable \o a) \o b = readable \o pipe
  <2>1. (readable \o a) \o b = readable \o (a \o b)
    <3>1. readable \in Seq(Byte) /\ a \in Seq(Byte) /\ b \in Seq(Byte)
      BY <1>2, <1>3
    <3>. HIDE DEF Byte
    <3>. QED
      BY <3>1, ConcatAssociative
  <2>. QED
    BY <1>4, <2>1
<1>7. Stream' = Stream
  BY <1>1, <1>6 DEF Stream, a, b
<1>8. WholeLengths'
  BY <1>1, <1>5 DEF WholeLengths, WithinLength, a
<1>9. IpcType'
  BY <1>1, <1>3, <1>5 DEF IpcInv, IpcType, a, b
<1>10. StreamOK'
  BY <1>1, <1>7 DEF IpcInv, StreamOK, Expected
<1>. QED
  BY <1>1, <1>8, <1>9, <1>10 DEF IpcInv, BufferOK

LEMMA WaitWelcomeInv ==
  ASSUME IpcInv, WaitWelcomeMessage
  PROVE  IpcInv'
<1>. USE DEF IpcInv
<1>1. /\ ~gotWelcome /\ written' = written /\ pipe' = pipe /\ expectedLength' = expectedLength
      /\ readBuffer' = readBuffer /\ received' = received
      /\ expectedLength = 0 /\ received = <<>>
  BY DEF WaitWelcomeMessage, BufferOK
<1>2. /\ readable \in Seq(Byte) /\ Len(readable) \in Nat /\ WelcomeSize \in Nat \ {0}
  BY Sizes DEF IpcType
<1>3. Chain(Stream) /\ \A i \in 1 .. Len(Stream) - 1 : Stream[i][1] <= written
  BY DEF StreamOK
<1>4. CASE \E i \in 0 .. Len(readable) :
             /\ WelcomeAt(i)
             /\ readable' = SubSeq(readable, i + WelcomeSize + 1, Len(readable))
             /\ gotWelcome' = TRUE
  <2>1. PICK i \in 0 .. Len(readable) :
           /\ WelcomeAt(i)
           /\ readable' = SubSeq(readable, i + WelcomeSize + 1, Len(readable))
           /\ gotWelcome' = TRUE
    BY <1>4
  <2>. DEFINE k == i + WelcomeSize
  <2>2. k \in 1 .. Len(readable) /\ Drop(k)
    BY <1>1, <1>2, <2>1 DEF WelcomeAt, Drop
  <2>. HIDE DEF k
  <2>3. /\ readable' \in Seq(Byte) /\ WholeLengths' /\ Chain(Stream')
        /\ \A j \in 1 .. Len(Stream') - 1 : Stream'[j][1] <= written'
        /\ Stream'[1] = Stream[k + 1]
    BY <1>3, <2>2, DropStream
  <2>4. readable[k] = <<0, WelcomeSize>>
    <3>1. SubSeq(readable, i + 1, i + WelcomeSize)[WelcomeSize] = Welcome[WelcomeSize]
      BY <2>1 DEF WelcomeAt
    <3>2. Welcome[WelcomeSize] = <<0, WelcomeSize>>
      BY <1>2 DEF Welcome
    <3>3. SubSeq(readable, i + 1, i + WelcomeSize)[WelcomeSize] = readable[i + WelcomeSize]
      <4>. DEFINE s == SubSeq(readable, i + 1, i + WelcomeSize)
      <4>1. /\ i + 1 \in Int /\ i + WelcomeSize \in Int
            /\ \A j \in i + 1 .. i + WelcomeSize : readable[j] \in Byte
        <5>1. i \in Nat /\ i + WelcomeSize \in 1 .. Len(readable) /\ WelcomeSize \in Nat
          BY <1>2, <2>2 DEF k
        <5>. HIDE DEF Byte
        <5>. QED
          BY <1>2, <5>1, ElementOfSeq
      <4>2. \A j \in 1 .. (i + WelcomeSize) - (i + 1) + 1 : s[j] = readable[(i + 1) + j - 1]
        BY <4>1, SubSeqProperties
      <4>3. /\ (i + WelcomeSize) - (i + 1) + 1 = WelcomeSize
            /\ WelcomeSize \in 1 .. WelcomeSize
            /\ (i + 1) + WelcomeSize - 1 = i + WelcomeSize
        BY <1>2
      <4>4. s[WelcomeSize] = readable[(i + 1) + WelcomeSize - 1]
        BY <4>2, <4>3
      <4>. QED
        BY <4>3, <4>4
    <3>. QED
      BY <3>1, <3>2, <3>3 DEF k
  <2>5. Follows(readable[k], Stream[k + 1])
    <3>1. k \in 1 .. Len(Stream) - 1 /\ Stream[k] = readable[k]
      BY <1>2, <2>2, StreamHas
    <3>. QED
      BY <1>3, <3>1 DEF Chain
  <2>6. Stream[k + 1] = <<1, 1>>
    <3>1. readable[k][1] = 0 /\ readable[k][2] = WelcomeSize /\ readable[k] # <<0, 0>>
      BY <1>2, <2>4
    <3>. QED
      BY <2>5, <3>1 DEF Follows
  <2>7. Stream'[1] = Expected'
    BY <1>1, <2>3, <2>6 DEF Expected
  <2>8. IpcType'
    BY <1>1, <2>1, <2>3 DEF IpcType
  <2>. QED
    BY <1>1, <2>1, <2>3, <2>7, <2>8 DEF StreamOK, BufferOK
<1>5. CASE readable' = AfterNoise /\ gotWelcome' = gotWelcome
  <2>1. PICK k : k \in 0 .. Len(readable) /\ readable' = SubSeq(readable, k + 1, Len(readable))
    <3>. DEFINE keep == IF WelcomeSize < Len(readable) THEN WelcomeSize ELSE Len(readable)
    <3>1. Len(readable) - keep \in 0 .. Len(readable)
      BY <1>2
    <3>. QED
      BY <1>5, <3>1 DEF AfterNoise
  <2>2. Drop(k)
    BY <1>1, <2>1 DEF Drop
  <2>3. /\ readable' \in Seq(Byte) /\ WholeLengths' /\ Chain(Stream')
        /\ \A j \in 1 .. Len(Stream') - 1 : Stream'[j][1] <= written'
    BY <1>3, <2>2, DropStream
  <2>4. IpcType'
    BY <1>1, <1>5, <2>3 DEF IpcType
  <2>. QED
    BY <1>1, <1>5, <2>3, <2>4 DEF StreamOK, BufferOK
<1>. QED
  BY <1>4, <1>5 DEF WaitWelcomeMessage

LEMMA Shift ==
  \A i, d, a, b, n \in Nat : i + d = a + b + 1 => i + (d + n) = a + (b + n) + 1
  OBVIOUS

LEMMA WithinRange == \A i, n \in Nat : i >= 1 /\ i <= n - 1 => i \in 1 .. n - 1
  OBVIOUS

\* The body of message m is to be read: soFar of it has been, d more readable
\* bytes are taken already, and the stream began with byte i0 of the message.
BodyAt(m, soFar, d, i0) ==
  /\ m \in 1 .. written /\ m = Len(received) + 1
  /\ soFar \in Seq(Byte) /\ Len(soFar) <= MessageSize[m]
  /\ \A i \in 1 .. Len(soFar) : soFar[i] = <<m, LengthSize + i>>
  /\ d \in 0 .. Len(readable) /\ i0 \in 1 .. LengthSize + MessageSize[m]
  /\ Stream[1] = <<m, i0>> /\ i0 + d = LengthSize + Len(soFar) + 1
  /\ d > 0 \/ Len(soFar) < MessageSize[m]

LEMMA ReadBodyInv ==
  ASSUME IpcInv, gotWelcome, UNCHANGED <<written, pipe, gotWelcome>>,
         NEW m, NEW soFar, NEW d, NEW i0, BodyAt(m, soFar, d, i0),
         ReadBody(SubSeq(readable, d + 1, Len(readable)), MessageSize[m], soFar)
  PROVE  IpcInv' /\ received' \in {received, Append(received, Payload(m))}
<1>0. /\ m \in 1 .. written /\ m = Len(received) + 1
      /\ soFar \in Seq(Byte) /\ Len(soFar) <= MessageSize[m]
      /\ \A i \in 1 .. Len(soFar) : soFar[i] = <<m, LengthSize + i>>
      /\ d \in 0 .. Len(readable) /\ i0 \in 1 .. LengthSize + MessageSize[m]
      /\ Stream[1] = <<m, i0>> /\ i0 + d = LengthSize + Len(soFar) + 1
      /\ d > 0 \/ Len(soFar) < MessageSize[m]
  BY DEF BodyAt
<1>. DEFINE size == MessageSize[m]
            rest == SubSeq(readable, d + 1, Len(readable))
            needed == size - Len(soFar)
            n == IF needed < Len(rest) THEN needed ELSE Len(rest)
            part == SubSeq(rest, 1, n)
            now == soFar \o part
<1>1. /\ written' = written /\ pipe' = pipe /\ gotWelcome' = gotWelcome
      /\ readBuffer' = now /\ readable' = SubSeq(rest, n + 1, Len(rest))
      /\ \/ n < needed /\ expectedLength' = size /\ received' = received
         \/ n = needed /\ expectedLength' = 0 /\ received' = Append(received, now)
  BY DEF ReadBody, Needed
<1>2. /\ IpcType /\ StreamOK /\ BufferOK /\ WholeLengths
      /\ readable \in Seq(Byte) /\ Len(readable) \in Nat /\ Len(soFar) \in Nat
      /\ received \in Seq(Seq(Byte)) /\ Len(received) \in Nat
  BY <1>0 DEF IpcInv, IpcType
<1>3. /\ m \in 1 .. Len(MessageSize) /\ m \in Nat \ {0} /\ size \in Nat
      /\ Len(received) < written
      /\ LengthSize \in Nat \ {0} /\ i0 \in Nat /\ i0 <= LengthSize + size
  <2>1. Len(MessageSize) \in Nat /\ written \in 0 .. Len(MessageSize)
    BY <1>2, Sizes DEF IpcType
  <2>2. m \in 1 .. written /\ m = Len(received) + 1 /\ Len(received) \in Nat
    BY <1>0, <1>2
  <2>3. m \in 1 .. Len(MessageSize) /\ Len(received) < written
    BY <2>1, <2>2
  <2>4. size \in Nat /\ LengthSize + size \in Nat /\ m \in Nat \ {0} /\ LengthSize \in Nat \ {0}
    BY <2>3, SizeNat, Sizes
  <2>5. i0 \in 1 .. LengthSize + size
    BY <1>0
  <2>6. i0 \in Nat /\ i0 <= LengthSize + size
    BY <2>4, <2>5
  <2>. QED
    BY <2>3, <2>4, <2>6
<1>4. Len(soFar) <= size /\ (d > 0 \/ Len(soFar) < size) /\ d \in Nat /\ d <= Len(readable)
  BY <1>0, <1>2
<1>. HIDE DEF size
<1>5. \A k \in Nat : i0 + (d + k) = LengthSize + (Len(soFar) + k) + 1
  <2>1. /\ i0 \in Nat /\ d \in Nat /\ LengthSize \in Nat /\ Len(soFar) \in Nat
        /\ i0 + d = LengthSize + Len(soFar) + 1
    BY <1>0, <1>2, <1>3, <1>4
  <2>2. ASSUME NEW k \in Nat
        PROVE  i0 + (d + k) = LengthSize + (Len(soFar) + k) + 1
    BY <2>1, Shift
  <2>. QED
    BY <2>2
<1>6. /\ rest \in Seq(Byte) /\ Len(rest) = Len(readable) - d /\ Len(rest) \in Nat
      /\ \A i \in 1 .. Len(readable) - d : rest[i] = readable[d + i]
  BY <1>0, <1>2, <1>4, SubSeqProperties
<1>7. /\ needed \in Nat /\ n \in Nat /\ n <= needed /\ n <= Len(rest)
      /\ needed = size - Len(soFar) /\ part = SubSeq(rest, 1, n)
  BY <1>2, <1>3, <1>4, <1>6
<1>. HIDE DEF rest, n, needed, part
<1>8. readable' = SubSeq(readable, (d + n) + 1, Len(readable))
  <2>2. SubSeq(rest, n + 1, Len(rest)) = SubSeq(readable, (d + n) + 1, Len(readable))
    <3>. DEFINE x == SubSeq(rest, n + 1, Len(rest))
                y == SubSeq(readable, (d + n) + 1, Len(readable))
    <3>1. /\ x \in Seq(Byte) /\ Len(x) = Len(rest) - n
          /\ \A i \in 1 .. Len(rest) - n : x[i] = rest[n + i]
      <4>1. n \in 0 .. Len(rest) /\ rest \in Seq(Byte) /\ Len(rest) \in Nat
        BY <1>6, <1>7
      <4>. QED
        BY <4>1, SubSeqProperties
    <3>2. d + n \in 0 .. Len(readable)
      BY <1>2, <1>4, <1>6, <1>7
    <3>3. /\ y \in Seq(Byte) /\ Len(y) = Len(readable) - (d + n)
          /\ \A i \in 1 .. Len(readable) - (d + n) : y[i] = readable[(d + n) + i]
      BY <1>2, <3>2, SubSeqProperties
    <3>. HIDE DEF x, y
    <3>4. Len(rest) - n = Len(readable) - (d + n)
      BY <1>2, <1>4, <1>6, <1>7
    <3>5. ASSUME NEW i \in 1 .. Len(rest) - n
          PROVE  x[i] = y[i]
      <4>1. n + i \in 1 .. Len(readable) - d /\ d + (n + i) = (d + n) + i
        BY <1>2, <1>4, <1>6, <1>7
      <4>2. x[i] = rest[n + i] /\ rest[n + i] = readable[d + (n + i)]
        BY <1>6, <3>1, <4>1
      <4>3. y[i] = readable[(d + n) + i]
        BY <3>3, <3>4
      <4>. QED
        BY <4>1, <4>2, <4>3
    <3>6. Len(x) = Len(y) /\ \A i \in 1 .. Len(x) : x[i] = y[i]
      BY <3>1, <3>3, <3>4, <3>5
    <3>7. x \in Seq(Byte) /\ y \in Seq(Byte)
      BY <3>1, <3>3
    <3>8. x = y
      BY <3>6, <3>7, SeqEqual
    <3>. QED
      BY <3>8 DEF x, y
  <2>. QED
    BY <1>1, <2>2
<1>9. Drop(d + n) /\ d + n \in 0 .. Len(readable)
  <2>1. d + n \in 0 .. Len(readable)
    BY <1>2, <1>4, <1>6, <1>7
  <2>. QED
    BY <1>1, <1>8, <2>1 DEF Drop
<1>10. /\ part \in Seq(Byte) /\ Len(part) = n
      /\ \A i \in 1 .. n : part[i] = rest[i]
  BY <1>6, <1>7, SubSeqProperties
<1>11. /\ Len(Stream) >= Len(readable) + 1 /\ Len(Stream) \in Nat
       /\ Stream \in Seq(Byte) /\ Chain(Stream)
  BY <1>2, StreamHas DEF StreamOK
<1>12. n <= size - Len(soFar)
  BY <1>7
<1>. DEFINE Body(k) == Stream[k + 1] = <<m, i0 + k>>
<1>13. ASSUME NEW k \in Nat, k + 1 <= Len(Stream), i0 + k <= LengthSize + size
       PROVE  Body(k)
  <2>1. i0 \in 1 .. LengthSize + MessageSize[m] /\ Stream[1] = <<m, i0>>
    BY <1>0
  <2>2. i0 + k <= LengthSize + MessageSize[m]
    BY <1>13 DEF size
  <2>. QED
    BY <1>3, <1>11, <1>13, <2>1, <2>2, Along
<1>14. ASSUME NEW i \in 1 .. n
       PROVE  part[i] = <<m, LengthSize + Len(soFar) + i>>
  <2>1. i \in 1 .. Len(readable) - d /\ d + i \in 1 .. Len(readable)
    BY <1>2, <1>4, <1>6, <1>7
  <2>2. part[i] = Stream[d + i]
    BY <1>2, <1>6, <1>10, <2>1, StreamHas
  <2>. DEFINE k == d + i - 1
  <2>3. i \in Nat \ {0} /\ i <= n
    BY <1>7
  <2>4. k \in Nat /\ k + 1 = d + i /\ k + 1 <= Len(Stream)
    BY <1>2, <1>4, <1>11, <2>1, <2>3
  <2>5. i0 + k = LengthSize + Len(soFar) + i
    <3>1. i0 + (d + i) = LengthSize + (Len(soFar) + i) + 1
      BY <1>5, <2>3
    <3>2. i0 \in Nat /\ d \in Nat /\ LengthSize \in Nat /\ Len(soFar) \in Nat /\ i \in Nat
      BY <1>2, <1>3, <1>4, <2>3
    <3>. QED
      BY <3>1, <3>2
  <2>6. LengthSize + Len(soFar) + i <= LengthSize + size
    BY <1>2, <1>3, <1>7, <1>12, <2>3
  <2>7. /\ k \in Nat /\ k + 1 = d + i /\ k + 1 <= Len(Stream)
        /\ i0 + k = LengthSize + Len(soFar) + i
        /\ i0 + k <= LengthSize + size
    BY <2>4, <2>5, <2>6
  <2>. HIDE DEF k
  <2>8. Stream[k + 1] = <<m, i0 + k>>
    BY <1>13, <2>7
  <2>. QED
    BY <2>2, <2>7, <2>8
<1>15. /\ now \in Seq(Byte) /\ Len(now) = Len(soFar) + n
       /\ \A i \in 1 .. Len(soFar) + n : now[i] = <<m, LengthSize + i>>
  <2>1. /\ \A i \in 1 .. Len(soFar) : soFar[i] = <<m, LengthSize + i>>
        /\ \A i \in 1 .. Len(part) : part[i] = <<m, LengthSize + Len(soFar) + i>>
    BY <1>0, <1>10, <1>14
  <2>2. soFar \in Seq(Byte) /\ part \in Seq(Byte) /\ LengthSize \in Nat
    BY <1>0, <1>3, <1>10
  <2>3. /\ now \in Seq(Byte) /\ Len(now) = Len(soFar) + Len(part)
        /\ \A i \in 1 .. Len(soFar) + Len(part) : now[i] = <<m, LengthSize + i>>
    BY <2>1, <2>2, Consecutive
  <2>. QED
    BY <1>10, <2>3
<1>. HIDE DEF now
<1>16. /\ readable' \in Seq(Byte) /\ WholeLengths' /\ Chain(Stream')
       /\ \A i \in 1 .. Len(Stream') - 1 : Stream'[i][1] <= written'
       /\ Stream'[1] = Stream[(d + n) + 1]
  BY <1>2, <1>9, DropStream DEF StreamOK
<1>17. /\ pipe' \in Seq(Byte) /\ written' \in 0 .. Len(MessageSize)
       /\ gotWelcome' \in BOOLEAN /\ gotWelcome'
  BY <1>1, <1>2 DEF IpcType
<1>18. CASE n < needed /\ expectedLength' = size /\ received' = received
  <2>1. /\ i0 + (d + n) = LengthSize + Len(now) + 1 /\ Len(now) < size
        /\ i0 + (d + n) <= LengthSize + size
        /\ d + n \in Nat /\ (d + n) + 1 <= Len(Stream) /\ size # 0
    <3>1. n < size - Len(soFar) /\ Len(now) = Len(soFar) + n
      BY <1>7, <1>15, <1>18
    <3>2. i0 + (d + n) = LengthSize + (Len(soFar) + n) + 1
      BY <1>7, <1>5
    <3>3. Len(soFar) + n < size
      BY <1>2, <1>3, <1>7, <3>1
    <3>4. d + n \in Nat /\ (d + n) + 1 <= Len(Stream)
      BY <1>2, <1>9, <1>11
    <3>5. LengthSize + (Len(soFar) + n) + 1 <= LengthSize + size /\ size # 0
      BY <1>2, <1>3, <1>7, <3>3
    <3>. QED
      BY <3>1, <3>2, <3>3, <3>4, <3>5
  <2>2. Stream[(d + n) + 1] = <<m, i0 + (d + n)>>
    BY <1>13, <2>1
  <2>3. Expected' = <<m, LengthSize + Len(now) + 1>>
    BY <1>0, <1>1, <1>18, <2>1 DEF Expected
  <2>4. StreamOK'
    BY <1>16, <2>1, <2>2, <2>3 DEF StreamOK
  <2>5. BufferOK'
    <3>1. m = Len(received) + 1
      BY <1>0
    <3>2. /\ gotWelcome' /\ Len(received') < written' /\ expectedLength' = MessageSize[m]
          /\ Len(received') + 1 = m /\ Len(readBuffer') < expectedLength'
          /\ \A i \in 1 .. Len(readBuffer') : readBuffer'[i] = <<m, LengthSize + i>>
      BY <1>1, <1>3, <1>15, <1>17, <1>18, <2>1, <3>1 DEF size
    <3>. QED
      BY <3>2 DEF BufferOK
  <2>6. IpcType'
    BY <1>1, <1>2, <1>15, <1>16, <1>17, <1>18 DEF IpcType
  <2>. QED
    BY <1>16, <1>18, <2>4, <2>5, <2>6 DEF IpcInv
<1>19. CASE n = needed /\ expectedLength' = 0 /\ received' = Append(received, now)
  <2>1. Len(now) = size /\ i0 + (d + n) = LengthSize + size + 1 /\ d + n >= 1
    <3>1. n = size - Len(soFar) /\ Len(now) = Len(soFar) + n
      BY <1>7, <1>15, <1>19
    <3>2. i0 + (d + n) = LengthSize + (Len(soFar) + n) + 1
      BY <1>7, <1>5
    <3>3. Len(soFar) + n = size
      BY <1>2, <1>3, <1>7, <3>1
    <3>4. d + n >= 1
      BY <1>2, <1>3, <1>4, <1>7, <3>1
    <3>. QED
      BY <3>1, <3>2, <3>3, <3>4
  <2>2. now = Payload(m)
    <3>1. /\ Payload(m) \in Seq(Byte) /\ Len(Payload(m)) = size
          /\ \A i \in 1 .. size : Payload(m)[i] = <<m, LengthSize + i>>
      BY <1>3, FrameIs DEF size
    <3>2. \A i \in 1 .. size : now[i] = <<m, LengthSize + i>>
      BY <1>15, <2>1
    <3>. QED
      BY <1>15, <2>1, <3>1, <3>2, SeqEqual
  <2>. DEFINE k == d + n - 1
  <2>3. /\ k \in Nat /\ k + 1 = d + n /\ k + 1 <= Len(Stream) /\ i0 + k = LengthSize + size
        /\ d + n \in 1 .. Len(Stream) - 1
    <3>1. d + n \in Nat /\ d + n >= 1 /\ d + n <= Len(Stream) - 1
      BY <1>2, <1>9, <1>11, <2>1
    <3>2. k \in Nat /\ k + 1 = d + n /\ k + 1 <= Len(Stream)
      BY <1>4, <1>7, <1>11, <3>1
    <3>3. i0 + k = LengthSize + size
      BY <1>3, <1>4, <1>7, <2>1
    <3>. HIDE DEF k
    <3>4. d + n \in 1 .. Len(Stream) - 1
      BY <1>11, <3>1, WithinRange
    <3>. QED
      BY <3>2, <3>3, <3>4
  <2>. HIDE DEF k
  <2>4. Stream[d + n] = <<m, LengthSize + size>>
    <3>1. i0 + k <= LengthSize + size
      BY <1>3, <2>3
    <3>2. Stream[k + 1] = <<m, i0 + k>>
      BY <1>13, <2>3, <3>1
    <3>. QED
      BY <2>3, <3>2
  <2>5. Stream[(d + n) + 1] = <<m + 1, 1>>
    <3>1. Follows(Stream[d + n], Stream[(d + n) + 1])
      BY <1>11, <2>3 DEF Chain
    <3>2. Stream[d + n][1] = m /\ Stream[d + n][2] = LengthSize + size /\ m # 0
      BY <1>3, <2>4
    <3>3. Stream[d + n] # <<0, 0>> /\ Stream[d + n] # <<0, WelcomeSize>>
      BY <3>2
    <3>. QED
      BY <3>1, <3>2, <3>3 DEF Follows, size
  <2>6. received' \in Seq(Seq(Byte)) /\ Len(received') = m
    BY <1>0, <1>2, <1>15, <1>19, AppendProperties
  <2>7. StreamOK'
    BY <1>16, <1>19, <2>5, <2>6 DEF StreamOK, Expected
  <2>8. BufferOK'
    BY <1>17, <1>19 DEF BufferOK
  <2>9. IpcType'
    <3>1. m <= written
      BY <1>0, <1>2 DEF IpcType
    <3>. QED
      BY <1>1, <1>15, <1>16, <1>17, <2>6, <3>1 DEF IpcType
  <2>. QED
    BY <1>16, <1>19, <2>2, <2>7, <2>8, <2>9 DEF IpcInv
<1>. QED
  BY <1>1, <1>18, <1>19

LEMMA OnReadyReadInv ==
  ASSUME IpcInv, OnReadyRead
  PROVE  /\ IpcInv'
         /\ \/ received' = received
            \/ Len(received) < written /\ received' = Append(received, Payload(Len(received) + 1))
<1>. DEFINE m == Len(received) + 1
<1>1. /\ gotWelcome /\ UNCHANGED <<written, pipe, gotWelcome>>
      /\ IpcType /\ StreamOK /\ BufferOK /\ WholeLengths
      /\ readable \in Seq(Byte) /\ Len(readable) \in Nat /\ Len(received) \in Nat
      /\ Len(received) <= written /\ written \in 0 .. Len(MessageSize) /\ Len(MessageSize) \in Nat
      /\ LengthSize \in Nat \ {0}
  BY Sizes DEF OnReadyRead, IpcInv, IpcType
<1>2. Stream[1] = Expected /\ Chain(Stream)
  BY <1>1 DEF StreamOK
<1>3. readable # <<>> => m \in 1 .. written
  <2>1. SUFFICES ASSUME readable # <<>>
                 PROVE  m <= written
    BY <1>1
  <2>2. 1 \in 1 .. Len(Stream) - 1
    <3>1. Len(readable) # 0
      BY <1>1, <2>1
    <3>. QED
      BY <1>1, <3>1, StreamHas
  <2>3. Stream[1][1] <= written
    BY <1>1, <2>2 DEF StreamOK
  <2>. QED
    BY <1>2, <2>3 DEF Expected
<1>. HIDE DEF m
<1>4. ASSUME expectedLength = 0, m \in 1 .. written,
             NEW k \in 1 .. Len(readable), k <= LengthSize
      PROVE  readable[k] = <<m, k>>
  <2>1. Stream[1] = <<m, 1>>
    BY <1>2, <1>4 DEF Expected, m
  <2>2. m \in 1 .. Len(MessageSize)
    BY <1>1, <1>4
  <2>3. MessageSize[m] \in Nat
    BY <2>2, SizeNat
  <2>4. /\ Stream \in Seq(Byte) /\ Stream[k] = readable[k] /\ k <= Len(Stream)
    BY <1>1, StreamHas
  <2>. DEFINE j == k - 1
  <2>5. /\ j \in Nat /\ j + 1 = k /\ 1 + j = k /\ 1 + j <= LengthSize + MessageSize[m]
        /\ 1 \in 1 .. LengthSize + MessageSize[m]
    BY <1>1, <1>4, <2>3
  <2>. HIDE DEF j
  <2>6. Stream[j + 1] = <<m, 1 + j>>
    BY <1>2, <2>1, <2>2, <2>4, <2>5, Along
  <2>. QED
    BY <2>4, <2>5, <2>6
<1>5. CASE /\ expectedLength = 0 /\ Len(readable) < LengthSize /\ readable' = <<>>
           /\ UNCHANGED <<expectedLength, readBuffer, received>>
  <2>1. readable = <<>>
    <3>1. SUFFICES ASSUME readable # <<>>
                   PROVE  FALSE
      OBVIOUS
    <3>2. Len(readable) \in 1 .. Len(readable) /\ Len(readable) <= LengthSize
      BY <1>1, <1>5, <3>1
    <3>3. readable[Len(readable)] = <<m, Len(readable)>> /\ m > 0
      BY <1>1, <1>3, <1>4, <1>5, <3>1, <3>2
    <3>4. WithinLength(readable[Len(readable)])
      BY <1>5, <3>3 DEF WithinLength
    <3>. QED
      BY <1>1, <3>1, <3>4 DEF WholeLengths
  <2>. QED
    BY <1>1, <1>5, <2>1
    DEF IpcInv, IpcType, StreamOK, BufferOK, WholeLengths, Stream, Expected, Chain
<1>6. CASE /\ expectedLength = 0 /\ Len(readable) >= LengthSize
           /\ \E length \in Lengths(SubSeq(readable, 1, LengthSize)) :
                ReadBody(SubSeq(readable, LengthSize + 1, Len(readable)), length, <<>>)
  <2>1. readable # <<>>
    BY <1>1, <1>6
  <2>2. m \in 1 .. written /\ m \in 1 .. Len(MessageSize)
    BY <1>1, <1>3, <2>1
  <2>3. MessageSize[m] \in Nat
    BY <2>2, SizeNat
  <2>4. SubSeq(readable, 1, LengthSize) = LengthOf(m)
    <3>1. /\ SubSeq(readable, 1, LengthSize) \in Seq(Byte)
          /\ Len(SubSeq(readable, 1, LengthSize)) = LengthSize
          /\ \A i \in 1 .. LengthSize : SubSeq(readable, 1, LengthSize)[i] = readable[i]
      BY <1>1, <1>6, SubSeqProperties
    <3>2. /\ LengthOf(m) \in Seq(Byte) /\ Len(LengthOf(m)) = LengthSize
          /\ \A i \in 1 .. LengthSize : LengthOf(m)[i] = <<m, i>>
      BY <2>2, FrameIs
    <3>3. ASSUME NEW i \in 1 .. LengthSize
          PROVE  readable[i] = <<m, i>>
      BY <1>1, <1>4, <1>6, <2>2
    <3>4. \A i \in 1 .. LengthSize : SubSeq(readable, 1, LengthSize)[i] = LengthOf(m)[i]
      BY <3>1, <3>2, <3>3
    <3>. QED
      BY <3>1, <3>2, <3>4, SeqEqual
  <2>5. \A k \in 1 .. written : LengthOf(k) = LengthOf(m) => k = m
    <3>1. ASSUME NEW k \in 1 .. written, LengthOf(k) = LengthOf(m)
          PROVE  k = m
      <4>1. LengthOf(k)[1] = <<k, 1>> /\ LengthOf(m)[1] = <<m, 1>>
        BY <1>1 DEF LengthOf
      <4>. QED
        BY <3>1, <4>1
    <3>. QED
      BY <3>1
  <2>6. Lengths(SubSeq(readable, 1, LengthSize)) = {MessageSize[m]}
    <3>1. {k \in 1 .. written : LengthOf(m) = LengthOf(k)} = {m}
      BY <2>2, <2>5
    <3>2. \E k \in 1 .. written : LengthOf(m) = LengthOf(k)
      BY <2>2
    <3>3. Lengths(LengthOf(m)) =
            {MessageSize[k] : k \in {l \in 1 .. written : LengthOf(m) = LengthOf(l)}}
      BY <3>2 DEF Lengths
    <3>. QED
      BY <2>4, <3>1, <3>3
  <2>7. ReadBody(SubSeq(readable, LengthSize + 1, Len(readable)), MessageSize[m], <<>>)
    BY <1>6, <2>6
  <2>8. /\ <<>> \in Seq(Byte) /\ Len(<<>>) = 0 /\ 0 <= MessageSize[m]
        /\ LengthSize \in 0 .. Len(readable) /\ LengthSize > 0
        /\ 1 \in 1 .. LengthSize + MessageSize[m]
        /\ 1 + LengthSize = LengthSize + 0 + 1
        /\ Stream[1] = <<m, 1>> /\ m = Len(received) + 1
    BY <1>1, <1>2, <1>6, <2>3 DEF Expected, m
  <2>9. IpcInv' /\ received' \in {received, Append(received, Payload(m))}
    <3>1. \A i \in 1 .. Len(<<>>) : <<>>[i] = <<m, LengthSize + i>>
      BY <2>8
    <3>2. BodyAt(m, <<>>, LengthSize, 1)
      BY <2>2, <2>8, <3>1 DEF BodyAt
    <3>. QED
      BY <1>1, <2>7, <3>2, ReadBodyInv
  <2>. QED
    BY <1>1, <2>2, <2>9 DEF m
<1>7. CASE expectedLength # 0 /\ ReadBody(readable, expectedLength, readBuffer)
  <2>1. /\ m \in 1 .. written /\ expectedLength = MessageSize[m]
        /\ Len(readBuffer) < MessageSize[m]
        /\ \A i \in 1 .. Len(readBuffer) : readBuffer[i] = <<m, LengthSize + i>>
    BY <1>1, <1>7 DEF BufferOK, m
  <2>2. MessageSize[m] \in Nat
    BY <1>1, <2>1, SizeNat
  <2>3. readBuffer \in Seq(Byte) /\ Len(readBuffer) \in Nat
    BY <1>1 DEF IpcType
  <2>4. SubSeq(readable, 0 + 1, Len(readable)) = readable
    BY <1>1, SubSeqFull
  <2>. DEFINE i0 == LengthSize + Len(readBuffer) + 1
  <2>5. /\ i0 \in 1 .. LengthSize + MessageSize[m] /\ i0 + 0 = LengthSize + Len(readBuffer) + 1
        /\ Len(readBuffer) <= MessageSize[m] /\ 0 \in 0 .. Len(readable)
    BY <1>1, <2>1, <2>2, <2>3
  <2>6. Stream[1] = <<m, i0>> /\ m = Len(received) + 1
    BY <1>2, <1>7 DEF Expected, m
  <2>. HIDE DEF i0
  <2>7. ReadBody(SubSeq(readable, 0 + 1, Len(readable)), MessageSize[m], readBuffer)
    BY <1>7, <2>1, <2>4
  <2>8. BodyAt(m, readBuffer, 0, i0)
    BY <2>1, <2>3, <2>5, <2>6 DEF BodyAt
  <2>9. IpcInv' /\ received' \in {received, Append(received, Payload(m))}
    BY <1>1, <2>7, <2>8, ReadBodyInv
  <2>. QED
    BY <1>1, <2>1, <2>9 DEF m
<1>. QED
  BY <1>5, <1>6, <1>7 DEF OnReadyRead

LEMMA IpcNextInv ==
  ASSUME SplitsLength = FALSE, IpcInv, [IpcNext]_ipcVars
  PROVE  IpcInv' /\ [Channel!Send \/ Channel!Receive]_(Channel!channel)
<1>. DEFINE sentOrGot == Channel!Send \/ Channel!Receive
<1>1. CASE UNCHANGED ipcVars
  BY <1>1 DEF ipcVars, IpcInv, IpcType, StreamOK, BufferOK, WholeLengths, WithinLength, Stream,
              Expected, Chain, Channel!channel
<1>. DEFINE M == [k \in 1 .. Len(MessageSize) |-> Payload(k)]
<1>2. Len(M) = Len(MessageSize) /\ \A k \in 1 .. Len(MessageSize) : M[k] = Payload(k)
  <2>1. Len(MessageSize) \in Nat
    BY Sizes
  <2>2. \A k \in 1 .. Len(MessageSize) : Payload(k) \in Seq(Byte)
    BY FrameIs
  <2>3. M \in Seq(Seq(Byte)) /\ Len(M) = Len(MessageSize)
    BY <2>1, <2>2, IsASeq
  <2>. QED
    BY <2>3
<1>3. CASE Write
  <2>1. IpcInv'
    BY <1>3, WriteInv
  <2>2. Channel!Send
    BY <1>2, <1>3 DEF Write, Channel!Send
  <2>. QED
    BY <2>1, <2>2
<1>4. CASE WaitWelcomeMessage
  <2>1. IpcInv'
    BY <1>4, WaitWelcomeInv
  <2>. QED
    BY <1>4, <2>1 DEF WaitWelcomeMessage, Channel!channel
<1>5. CASE OnReadyRead
  <2>1. /\ IpcInv'
        /\ \/ received' = received
           \/ Len(received) < written /\ received' = Append(received, Payload(Len(received) + 1))
    BY <1>5, OnReadyReadInv
  <2>2. written' = written
    BY <1>5 DEF OnReadyRead
  <2>3. CASE received' = received
    BY <2>1, <2>2, <2>3 DEF Channel!channel
  <2>4. CASE Len(received) < written /\ received' = Append(received, Payload(Len(received) + 1))
    <3>1. Len(received) + 1 \in 1 .. Len(MessageSize)
      <4>1. received \in Seq(Seq(Byte)) /\ written \in 0 .. Len(MessageSize)
        BY DEF IpcInv, IpcType
      <4>2. Len(received) \in Nat /\ Len(MessageSize) \in Nat
        BY <4>1, Sizes
      <4>. QED
        BY <2>4, <4>1, <4>2
    <3>2. M[Len(received) + 1] = Payload(Len(received) + 1)
      BY <1>2, <3>1
    <3>3. Channel!Receive
      BY <2>2, <2>4, <3>2 DEF Channel!Receive
    <3>. QED
      BY <2>1, <3>3
  <2>. QED
    BY <2>1, <2>3, <2>4
<1>6. ASSUME NEW n \in 1 .. Len(pipe), Arrive(n)
      PROVE  IpcInv' /\ UNCHANGED Channel!channel
  BY <1>6, ArriveInv DEF Arrive, Channel!channel
<1>. QED
  BY <1>1, <1>3, <1>4, <1>5, <1>6 DEF IpcNext

\* ImplementsChannel without its fairness.
ChannelSafety ==
  Channel!Init /\ [][Channel!Send \/ Channel!Receive]_(Channel!channel)

\* Whatever the sizes of the messages and of the chunks, dataReady() is
\* emitted with each message whole, once, and in the order of writing, if no
\* chunk ends within a length (onReadyRead() drops such a piece).  That all
\* messages are handed over is left to the fairness of the stream.
THEOREM ImplementsChannelSafely ==
  ASSUME SplitsLength = FALSE
  PROVE  IpcSpec => ChannelSafety
<1>1. IpcInit => IpcInv /\ Channel!Init
  BY IpcInitInv DEF IpcInit, Channel!Init
<1>2. IpcInv /\ [IpcNext]_ipcVars
        => IpcInv' /\ [Channel!Send \/ Channel!Receive]_(Channel!channel)
  BY IpcNextInv
<1>. QED
  BY <1>1, <1>2, PTL DEF IpcSpec, ChannelSafety

=============================================================================
