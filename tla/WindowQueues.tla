---------------------------- MODULE WindowQueues ----------------------------
(***************************************************************************)
(* What the request broker promises to its clients, without proxies,       *)
(* processes or deferred deletes: the requests of one window are taken in  *)
(* the order of arrival, at most one of them has a panel open at a time,   *)
(* the one behind it opens in the step that answers it, and every request  *)
(* that is answered was open or was refused when its turn came.  A request *)
(* meant for the plugin of an open panel is opened there at once.          *)
(***************************************************************************)
EXTENDS Naturals, Sequences

CONSTANTS Request, Window, WindowOf

VARIABLES
  line,      \* Window -> the requests of the window, the open one first
  open,      \* the requests that have a panel
  answered   \* the requests that have been answered

qvars == <<line, open, answered>>

Lined == UNION {{line[w][i] : i \in 1 .. Len(line[w])} : w \in Window}

Init ==
  /\ line = [w \in Window |-> <<>>]
  /\ open = {}
  /\ answered = {}

New(r) == r \notin Lined \cup open \cup answered

\* r joins its line; it opens at once if it is the first.
Join(r) ==
  /\ New(r)
  /\ line' = [line EXCEPT ![WindowOf[r]] = Append(@, r)]
  /\ open' = IF line[WindowOf[r]] = <<>> THEN open \cup {r} ELSE open
  /\ UNCHANGED answered

\* r would be the first of its line and is refused.
Refuse(r) ==
  /\ New(r)
  /\ line[WindowOf[r]] = <<>>
  /\ answered' = answered \cup {r}
  /\ UNCHANGED <<line, open>>

\* r goes to the plugin of an open panel.
Delegate(r) ==
  /\ New(r)
  /\ open' = open \cup {r}
  /\ UNCHANGED <<line, answered>>

\* The delegated requests D are answered.
AnswerDelegated(D) ==
  /\ D \subseteq open \ Lined
  /\ answered' = answered \cup D
  /\ open' = open \ D
  /\ UNCHANGED line

\* The open request of w is answered, and with it the delegated requests D;
\* the k - 1 requests behind it are refused and the next one opens.
Advance(w, k, D) ==
  /\ D \subseteq open \ Lined
  /\ k \in 1 .. Len(line[w])
  /\ LET done == D \cup {line[w][i] : i \in 1 .. k}
         next == IF k = Len(line[w]) THEN {} ELSE {line[w][k + 1]}
     IN /\ answered' = answered \cup done
        /\ open' = (open \ done) \cup next
  /\ line' = [line EXCEPT ![w] = SubSeq(@, k + 1, Len(@))]

Next ==
  \/ \E r \in Request : Join(r) \/ Refuse(r) \/ Delegate(r)
  \/ \E D \in SUBSET (open \ Lined) :
       \/ AnswerDelegated(D)
       \/ \E w \in Window : \E k \in 1 .. Len(line[w]) : Advance(w, k, D)

Spec == Init /\ [][Next]_qvars

=============================================================================
