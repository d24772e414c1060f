--------------------------- MODULE MCIdentityUsers ---------------------------
(* Two users, two emails, two updates at once.                              *)
EXTENDS IdentityUsers, TLC

CONSTANTS ann, bob, p, q, r1, r2

TwoUsers == {ann, bob}
TwoEmails == {p, q}
OnePhone == {p}
OneName == {p}
TwoCalls == {r1, r2}

Symmetry == Permutations(TwoUsers) \cup Permutations(TwoCalls)
=============================================================================
