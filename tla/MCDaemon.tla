------------------------------ MODULE MCDaemon ------------------------------
(***************************************************************************)
(* Small instances of Daemon for TLC: an account request a1, a sign-on     *)
(* request s1 that a1's plugin may handle, and one account with a recorded *)
(* failure and a call to reauthenticate it.                                *)
(***************************************************************************)
EXTENDS Daemon

CONSTANTS a1, s1, w0, w1, h1, acct1, c1

Requests == {a1, s1}
Windows  == [r \in Requests |-> IF r = a1 THEN w1 ELSE w0]
Handlers == [r \in Requests |-> IF r = s1 THEN h1 ELSE NoHandler]

Accounts == [c \in {c1} |-> acct1]

=============================================================================
