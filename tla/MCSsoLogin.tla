----------------------------- MODULE MCSsoLogin -----------------------------
(* Two tabs of one browser, and one user with two accounts.                 *)
EXTENDS SsoLogin, TLC

CONSTANTS left, right, home, work

TwoTabs == {left, right}
OneTab == {left}
TwoAccounts == {home, work}

Symmetry == Permutations(TwoTabs) \cup Permutations(TwoAccounts)
=============================================================================
