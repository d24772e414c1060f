--------------------------- MODULE MCRedisAdapter ---------------------------
(* An authorization code and an access token of one grant, two requests in  *)
(* flight.                                                                  *)
EXTENDS RedisIndex, TLC

CONSTANTS code, access, r1, r2

TwoTokens == {code, access}
OnlyCode == {code}
TwoCalls == {r1, r2}
ShortAndLong == {0, 2, 3}

Symmetry == Permutations(TwoCalls)
=============================================================================
