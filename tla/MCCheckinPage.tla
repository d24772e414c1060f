---------------------------- MODULE MCCheckinPage ----------------------------
(* Three forms sent from one page.                                          *)
EXTENDS CheckinPage, TLC

CONSTANTS s1, s2, s3

ThreeSubmits == {s1, s2, s3}
Symmetry == Permutations(ThreeSubmits)
=============================================================================
