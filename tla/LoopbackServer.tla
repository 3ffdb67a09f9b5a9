--------------------------- MODULE LoopbackServer ---------------------------
(***************************************************************************)
(* The HTTP server to which a provider redirects the browser at the end of *)
(* an authentication (loopback-server.cpp), and the QML item that wraps it *)
(* (qml-loopback-server.cpp), whose properties take effect in a queued     *)
(* update().  A request line arrives in two pieces, the second of which    *)
(* has its end.                                                            *)
(***************************************************************************)
EXTENDS Naturals, Sequences, FiniteSets

CONSTANTS
  Port,           \* values given to the port property; 0 lets the system choose
  PortSpace,      \* ports are numbers modulo this (2^16)
  BusyPorts,      \* ports that may be taken by other programs
  MaxAttempts,    \* portIncrementAttempts
  HttpConnection, \* connections from the browser, in the order they are made
  Concurrent,     \* may one begin before the previous one ended?
  MaxSettings     \* assignments to the properties

ASSUME LoopbackAssumption ==
  /\ PortSpace \in Nat \ {0} /\ MaxAttempts \in Nat
  /\ Port \subseteq 0 .. PortSpace - 1 /\ BusyPorts \subseteq 1 .. PortSpace - 1
  /\ HttpConnection \in Nat /\ Concurrent \in BOOLEAN /\ MaxSettings \in Nat

VARIABLES
  item,     \* the QML item, a record: see LoopbackInit
  bound,    \* the port of the listening server, or NotBound
  busy,     \* the ports taken
  sockets,  \* connection -> [state, arrived]
  data,     \* m_data: the pieces received, from any connection
  visited   \* the lines reported by visited()

loopbackVars == <<item, bound, busy, sockets, data, visited>>

NotBound == PortSpace

\* classBegin(): updates count as queued until the component is complete.
LoopbackInit ==
  /\ item = [complete |-> FALSE, wanted |-> TRUE, port |-> 0, queued |-> TRUE,
             events |-> 0, failed |-> FALSE, settings |-> 0]
  /\ bound = NotBound
  /\ busy \in SUBSET BusyPorts
  /\ sockets = [c \in 1 .. HttpConnection |-> [state |-> "none", arrived |-> 0]]
  /\ data = <<>> /\ visited = <<>>

IsListening == bound # NotBound

\* queueUpdate()
Queued(i) == IF i.queued THEN i ELSE [i EXCEPT !.queued = TRUE, !.events = @ + 1]

Setting == item.settings < MaxSettings
Set(i) == [i EXCEPT !.settings = @ + 1]

\* setPort()
SetPort(p) ==
  /\ Setting /\ ~IsListening /\ p # item.port
  /\ item' = Queued([Set(item) EXCEPT !.port = p])
  /\ UNCHANGED <<bound, busy, sockets, data, visited>>

\* setListening()
SetListening ==
  /\ Setting
  /\ item' = Queued([Set(item) EXCEPT !.wanted = ~@])
  /\ UNCHANGED <<bound, busy, sockets, data, visited>>

-----------------------------------------------------------------------------
\* The ports that listen() tries in turn; 0 stands for a port of the system's
\* choice, which is never taken.
Tried(p) == [a \in 0 .. MaxAttempts |-> (p + a) % PortSpace]
Free(p) == {a \in 0 .. MaxAttempts : Tried(p)[a] \notin busy}
FirstFree(p) == Tried(p)[CHOOSE a \in Free(p) : \A b \in Free(p) : a <= b]

\* A mutant of Updated: m_updateQueued stays set.
UpdatedOnly(i) == i

Updated(i) == [i EXCEPT !.queued = FALSE]

\* update()
Update(i) ==
  \/ /\ i.wanted = IsListening
     /\ item' = Updated(i) /\ UNCHANGED bound
  \/ /\ i.wanted /\ ~IsListening
     /\ item' = [Updated(i) EXCEPT !.failed = Free(i.port) = {}]
     /\ bound' = IF Free(i.port) = {} THEN NotBound ELSE FirstFree(i.port)
  \/ /\ ~i.wanted /\ IsListening
     /\ item' = Updated(i) /\ bound' = NotBound

ComponentComplete ==
  /\ ~item.complete
  /\ Update([item EXCEPT !.complete = TRUE])
  /\ UNCHANGED <<busy, sockets, data, visited>>

QueuedUpdate ==
  /\ item.events > 0
  /\ Update([item EXCEPT !.events = @ - 1])
  /\ UNCHANGED <<busy, sockets, data, visited>>

-----------------------------------------------------------------------------
\* onNewConnection()
NewConnection(c) ==
  /\ IsListening /\ sockets[c].state = "none"
  /\ \A d \in 1 .. c - 1 :
       IF Concurrent THEN sockets[d].state # "none" ELSE sockets[d].state = "closed"
  /\ sockets' = [sockets EXCEPT ![c].state = "open"]
  /\ UNCHANGED <<item, bound, busy, data, visited>>

RequestLine(c) == <<<<c, 1>>, <<c, 2>>>>

\* A mutant of Received: only what is new is looked at.
JustReceived(pieces) == pieces

\* m_data is never emptied: it begins with the first request there was.
Received(pieces) == data \o pieces

LineEnds(d) == {i \in DOMAIN d : d[i][2] = 2}
FirstLine(d) == SubSeq(d, 1, CHOOSE i \in LineEnds(d) : \A j \in LineEnds(d) : i <= j)

\* onReadyRead(), and respond().  The socket is closed once the reply is out,
\* and may have more to read until then.
ReadyRead(c, n) ==
  LET arrived == sockets[c].arrived + n
      now == Received(SubSeq(RequestLine(c), sockets[c].arrived + 1, arrived))
      ends == LineEnds(now) # {}
  IN  /\ sockets[c].state \in {"open", "closing"} /\ arrived <= 2
      /\ data' = now
      /\ visited' = IF ends THEN Append(visited, FirstLine(now)) ELSE visited
      /\ sockets' = [sockets EXCEPT ![c] = [state |-> IF ends THEN "closing" ELSE @.state,
                                            arrived |-> arrived]]
      /\ UNCHANGED <<item, bound, busy>>

Disconnected(c) ==
  /\ sockets[c].state = "closing"
  /\ sockets' = [sockets EXCEPT ![c].state = "closed"]
  /\ UNCHANGED <<item, bound, busy, data, visited>>

LoopbackNext ==
  \/ \E p \in Port : SetPort(p)
  \/ SetListening \/ ComponentComplete \/ QueuedUpdate
  \/ \E c \in 1 .. HttpConnection :
       NewConnection(c) \/ Disconnected(c) \/ \E n \in 1 .. 2 : ReadyRead(c, n)

LoopbackSpec == LoopbackInit /\ [][LoopbackNext]_loopbackVars

-----------------------------------------------------------------------------
LoopbackTypeOK ==
  /\ bound \in 0 .. PortSpace /\ bound \notin busy
  /\ item.events \in 0 .. 1
  /\ \A c \in DOMAIN sockets : sockets[c].arrived \in 0 .. 2

\* Once no update is pending the server listens exactly when it should, or the
\* last attempt found no port; and on a port it was told to try.
ListensAsTold ==
  item.complete /\ item.events = 0 =>
    /\ item.wanted = IsListening \/ (item.wanted /\ item.failed)
    /\ IsListening => \E a \in 0 .. MaxAttempts : bound = (item.port + a) % PortSpace

\* However a request is split, the URL reported is that of a whole request.
VisitedIsWhole ==
  \A i \in DOMAIN visited : \E c \in DOMAIN sockets : visited[i] = RequestLine(c)

=============================================================================
