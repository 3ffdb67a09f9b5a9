---------------------------- MODULE MCUiRequests ----------------------------
(***************************************************************************)
(* Instances of UiRequests: two or three requests of any kinds, one handler.        *)
(***************************************************************************)
EXTENDS UiRequests

CONSTANTS r1, r2, r3, h1

OneOpensUrl == {r1}
BothOpenUrl == {r1, r2}
SecondIsLocal == {r2}
NotTheDialog == {r1, r3}
ThirdIsLocal == {r3}
BothMatch == [r \in Request |-> h1]
FirstMatches == [r \in Request |-> IF r = r1 THEN h1 ELSE NoHandler]

=============================================================================
