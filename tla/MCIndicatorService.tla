------------------------- MODULE MCIndicatorService -------------------------
(***************************************************************************)
(* Small instances of IndicatorService for TLC: three calls about one      *)
(* account, or two calls about each of two accounts.                       *)
(***************************************************************************)
EXTENDS IndicatorService

CONSTANTS acct1, acct2, c1, c2, c3

SingleAccount == [c \in {c1, c2, c3} |-> acct1]

PairAccount == [c \in {c1, c2, c3} |-> IF c = c2 THEN acct2 ELSE acct1]

=============================================================================
