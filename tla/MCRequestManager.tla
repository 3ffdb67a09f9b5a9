-------------------------- MODULE MCRequestManager --------------------------
(***************************************************************************)
(* Small instances of RequestManager for TLC: account requests a1 and a2   *)
(* and sign-on requests s1, s2, on one or two windows, with at most one    *)
(* request handler.  Sign-on requests carry no window identifier, so they  *)
(* share the queue of window w0.                                           *)
(***************************************************************************)
EXTENDS RequestManagerRefinement

CONSTANTS a1, a2, s1, s2, w0, w1, h1

\* Two account requests for the same window.
PairRequests == {a1, a2}
PairWindows  == [r \in PairRequests |-> w0]
PairHandlers == [r \in PairRequests |-> NoHandler]

\* An account request and two sign-on requests that its plugin may make.
MixedRequests == {a1, s1, s2}
MixedWindows  == [r \in MixedRequests |-> IF r = a1 THEN w1 ELSE w0]
MixedHandlers == [r \in MixedRequests |-> IF r = s1 THEN h1 ELSE NoHandler]

=============================================================================
