-------------------------- MODULE MCProviderPanel --------------------------
(* Instances of ProviderPanel for TLC: two accounts and a service or two.  *)
EXTENDS ProviderPanel

CONSTANTS a1, a2, s1, s2

TwoAccounts == {a1, a2}
OneService == {s1}
TwoServices == {s1, s2}
NoService == {}

=============================================================================
