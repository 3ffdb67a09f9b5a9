---------------------- MODULE RequestManagerRefinement ----------------------
(***************************************************************************)
(* RequestManager implements WindowQueues: the lines are the queues, the   *)
(* open requests are those some proxy holds, and a request is answered     *)
(* once a D-Bus reply has been sent for it.                                *)
(***************************************************************************)
EXTENDS RequestManagerInvariant

OpenRequests     == UNION {held[p] : p \in Request}
AnsweredRequests == {r \in Request : replies[r] > 0}

Broker == INSTANCE WindowQueues
            WITH line <- queue, open <- OpenRequests, answered <- AnsweredRequests

\* Requests of a window are served one at a time and in order of arrival,
\* whatever interleaving of proxies, UI processes, failures, cancellations and
\* deferred deletes serves them, and none is answered before its turn.
ImplementsWindowQueues == Broker!Spec

=============================================================================
