----------------------------- MODULE RedisIndex -----------------------------
(***************************************************************************)
(* The adapter's indexes (sso/src/lib/redis.ts): a token with a user code  *)
(* or a uid is also found by that, through a key of its own that holds the *)
(* token's id.  upsert writes the key in the MULTI block that stores the   *)
(* token; no other call of the adapter knows it.  The two indexes are      *)
(* alike, and one stands for both.                                         *)
(***************************************************************************)
EXTENDS RedisAdapter

CONSTANT Coded  \* the tokens that have a user code or a uid

ASSUME CodedAssumption == Coded \subseteq Tokens

VARIABLE index  \* when the index key of each token expires

indexVars == <<vars, index>>

IndexTypeOK ==
    /\ TypeOK
    /\ index \in [Tokens -> {NoKey} \cup Nat]

IndexInit ==
    /\ Init
    /\ index = [t \in Tokens |-> NoKey]

\* findByUserCode and findByUid: a key that leads to a token which is gone makes
\* them end as find does.
FindByCode(t) == IF index[t] = NoKey THEN "undefined" ELSE Find(t)

\* EXPIRE drops the key at once for 0 seconds.
IndexedUntil(u) == IF u.expiresIn = 0 THEN NoKey ELSE now + u.expiresIn

\* A mistake: an index key that is there keeps its expiry.
IndexedOnce(u) ==
    IF u.token \in Coded /\ index[u.token] = NoKey
    THEN [index EXCEPT ![u.token] = IndexedUntil(u)] ELSE index

\* upsert: set and expire, whether the key was there or not.
Indexed(u) ==
    IF u.token \in Coded THEN [index EXCEPT ![u.token] = IndexedUntil(u)] ELSE index

UpsertIndexes(c) ==
    /\ UpsertExecutes(c)
    /\ index' = Indexed(call[c])

TickIndexes ==
    /\ Tick
    /\ index' = [t \in Tokens |-> IF Expired(index[t]) THEN NoKey ELSE index[t]]

\* What the other calls do leaves the index as it is.
OtherCall ==
    /\ \/ \E c \in Calls :
           \/ \E t \in Tokens, e \in Lifetimes : UpsertAsks(c, t, e)
           \/ RevokeReads(c) \/ RevokeExecutes(c) \/ CallLost(c)
       \/ \E t \in Tokens : Destroy(t) \/ Consume(t)
    /\ UNCHANGED index

IndexNext ==
    \/ \E c \in Calls : UpsertIndexes(c)
    \/ TickIndexes
    \/ OtherCall

IndexSpec == IndexInit /\ [][IndexNext]_indexVars

-----------------------------------------------------------------------------
\* What leads to a token lasts as long as the token does: its user code or uid
\* finds it for as long as it was last stored for; and the list of its grant goes
\* too, some time, with the exceptions of ListsExpire.
KeysFollowTokens ==
    /\ \A t \in Coded : Find(t) = "found" /\ now < store[t].due => FindByCode(t) = "found"
    /\ ListsExpire
=============================================================================
