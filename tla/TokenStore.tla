------------------------------ MODULE TokenStore ------------------------------
(***************************************************************************)
(* What the OpenID provider may rely on when it keeps tokens in a store,   *)
(* without keys, lists, expiries or round trips: a token is there only     *)
(* because a call was storing it, one that was used is used as long as it  *)
(* is there, and only the tokens that can be used up are marked.           *)
(***************************************************************************)
CONSTANTS Tokens, Consumable

VARIABLES
    token,  \* "absent", "live", "used", or "marked": used while it was absent
    asked   \* the tokens that some call is about to store

storeVars == <<token, asked>>

StoreInit ==
    /\ token = [t \in Tokens |-> "absent"]
    /\ asked = {}

Ask(t) ==
    /\ asked' = asked \cup {t}
    /\ UNCHANGED token

GiveUp(t) ==
    /\ asked' = asked \ {t}
    /\ UNCHANGED token

\* Another call may be storing the same token.
Store(t) ==
    /\ t \in asked
    /\ asked' \in {asked, asked \ {t}}
    /\ token' = [token EXCEPT ![t] = IF @ \in {"used", "marked"} THEN "used" ELSE "live"]

Use(t) ==
    /\ t \in Consumable
    /\ token' = [token EXCEPT ![t] = IF @ \in {"used", "live"} THEN "used" ELSE "marked"]
    /\ UNCHANGED asked

\* Expired, destroyed or revoked.
Remove(gone) ==
    /\ token' = [t \in Tokens |-> IF t \in gone THEN "absent" ELSE token[t]]
    /\ UNCHANGED asked

StoreNext ==
    \/ \E t \in Tokens : Ask(t) \/ GiveUp(t) \/ Store(t) \/ Use(t)
    \/ \E gone \in SUBSET Tokens : Remove(gone)

StoreSpec == StoreInit /\ [][StoreNext]_storeVars
=============================================================================
