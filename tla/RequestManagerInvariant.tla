----------------------- MODULE RequestManagerInvariant -----------------------
(***************************************************************************)
(* The inductive invariant behind the safety properties of RequestManager. *)
(***************************************************************************)
EXTENDS RequestManager

InQueue(r) == \E i \in 1 .. Len(queue[WindowOf[r]]) : queue[WindowOf[r]][i] = r

\* A queue holds living requests of its window, each once; the first one is
\* held by its own proxy and the others are untouched.
QueuesOk ==
  \A w \in Window :
    /\ \A i \in 1 .. Len(queue[w]) :
         LET r == queue[w][i]
         IN /\ WindowOf[r] = w
            /\ life[r] = "alive"
            /\ i = 1 => r \in held[r]
            /\ i > 1 => via[r] = NoProxy
    /\ \A i, j \in 1 .. Len(queue[w]) : queue[w][i] = queue[w][j] => i = j
    /\ queue[w] # <<>> => w \in windows

\* A proxy holds living requests that are in progress and connected to it; the
\* one it was created for is the head of its queue.
HeldOk ==
  \A p \in Request : \A r \in held[p] :
    /\ life[r] = "alive"
    /\ via[r] = p
    /\ r \in inProgress
    /\ Live(p)
    /\ p = r => IsHead(r)

\* A living request waits in its queue, where nobody has touched it, or is held.
AliveOk ==
  \A r \in Request : life[r] = "alive" =>
    /\ replies[r] = 0
    /\ \/ via[r] = NoProxy /\ InQueue(r) /\ r \notin inProgress
       \/ via[r] \in Request /\ r \in held[via[r]]

\* A request that has not arrived has no trace, a proxy is created only for a
\* request that is being started, and a proxy that ends leaves m_proxies.
FreshOk ==
  /\ \A r \in Request : life[r] = "unborn" =>
       /\ via[r] = NoProxy
       /\ r \notin inProgress
       /\ replies[r] = 0
  /\ \A r \in Request : via[r] = NoProxy /\ life[r] \in {"unborn", "alive"}
       => status[r] = "None"
  /\ \A p \in proxies \cup dying \cup timer : Live(p)
  /\ proxies \cap dying = {}

\* The strengthening of HeadIsServed, NoOrphan, QueuedMeansNotIdle and
\* AccountRequestAnsweredOnce that every step of the broker preserves: queues
\* and proxies agree on who serves whom.
IInv ==
  /\ TypeOK
  /\ QueuesOk
  /\ HeldOk
  /\ AliveOk
  /\ FreshOk
  /\ AccountRequestAnsweredOnce

=============================================================================
