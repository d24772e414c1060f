-------------------------- MODULE MCCheckinPipeline --------------------------
(* The instances of the check-in pipeline that TLC explores. *)
EXTENDS CheckinPipeline, TLC

CONSTANTS c1, c2, t1, t2

\* Two requests race for the producer, one leg each.
TwoCheckins == {c1, c2}
OneLeg == {1}

\* One reservation with an outbound and a return leg.
OneCheckin == {c1}
TwoLegs == {1, 2}

TwoThreads == {t1, t2}
OneThread == {t1}

\* Requests are alike, and so are threads.
Symmetry == Permutations(TwoCheckins) \cup Permutations(TwoThreads)
ThreadSymmetry == Permutations(TwoThreads)
=============================================================================
