---------------------------- MODULE RedisAdapter ----------------------------
(***************************************************************************)
(* The storage adapter of the sign-on server (sso/src/lib/redis.ts) for    *)
(* the tokens of one grant.  Redis keeps each token under its own key and, *)
(* per grant, the list of those keys that revokeByGrantId walks.  upsert   *)
(* and revokeByGrantId read the list in one round trip and run their MULTI *)
(* block in a later one; other requests run in between.  The clock counts  *)
(* Redis' whole seconds.                                                   *)
(***************************************************************************)
EXTENDS Integers

CONSTANTS
    Tokens,      \* ids of the tokens that carry the grant's id
    Consumable,  \* those of the models kept as hashes
    Lifetimes,   \* the expiresIn values, in seconds; 0 for a code saved again in its last
    Calls,       \* adapter calls that may be in flight at once
    MaxTrip,     \* bound: seconds between the two round trips of a call
    EndOfTime    \* bound: the last second explored

ASSUME ConsumableAssumption == Consumable \subseteq Tokens
ASSUME BoundsAssumption == MaxTrip \in Nat /\ EndOfTime \in Nat
ASSUME LifetimesAssumption == Lifetimes \subseteq Nat

VARIABLES
    now,    \* seconds since the server started
    store,  \* the key of each token
    grant,  \* the grant's list of token keys
    call,   \* the calls in flight
    raced   \* history: what came inside an upsert: an upsert, or the list's end

vars == <<now, store, grant, call, raced>>

\* What TTL answers for a key without expiry, and for no key.
NoExpiry == -1
NoKey == -2

NoToken == [payload |-> FALSE, consumed |-> FALSE, exp |-> NoKey, due |-> 0]
NoList == [members |-> {}, exp |-> NoKey]
Idle == [kind |-> "idle"]

Upserts == [kind : {"upsert"}, token : Tokens, expiresIn : Lifetimes,
            ttl : {NoKey, NoExpiry} \cup Nat, asked : Nat]
Revocations == [kind : {"revoke"}, tokens : SUBSET Tokens, asked : Nat]

TypeOK ==
    /\ now \in 0 .. EndOfTime
    /\ store \in [Tokens -> [payload : BOOLEAN, consumed : BOOLEAN,
                             exp : {NoKey, NoExpiry} \cup Nat, due : Nat]]
    /\ grant \in [members : SUBSET Tokens, exp : {NoKey, NoExpiry} \cup Nat]
    /\ call \in [Calls -> {Idle} \cup Upserts \cup Revocations]
    /\ raced \subseteq {"upsert", "end"}

Init ==
    /\ now = 0
    /\ store = [t \in Tokens |-> NoToken]
    /\ grant = NoList
    /\ call = [c \in Calls |-> Idle]
    /\ raced = {}

InFlight == {c \in Calls : call[c] # Idle}

\* A mistake: the reply taken for a number of seconds whatever it is.
GrantTtlUnchecked == grant.exp - now

\* The reply to TTL for the grant's list.
GrantTtl == IF grant.exp \in {NoKey, NoExpiry} THEN grant.exp ELSE grant.exp - now

\* find throws for a hash without payload: hgetall answers {} for no key, which
\* is not falsy, and JSON.parse(undefined) is a SyntaxError.
Find(t) ==
    IF store[t].payload THEN "found"
    ELSE IF t \in Consumable THEN "throws" ELSE "undefined"

\* What a new call of this kind races with: an upsert with upserts and with
\* revocations, which end the list; a revocation with upserts.
RacesOf(kind) ==
    {race \in {"upsert", "end"} : \E c \in InFlight :
        {kind, call[c].kind} = {"upsert", IF race = "end" THEN "revoke" ELSE "upsert"}}

\* Tokens live for minutes.  What is saved again near its end may be stored for
\* no longer than a call takes between its round trips, and the list it found,
\* which lasts as long, may end by itself meanwhile.
ShortLife(e) == IF e <= MaxTrip THEN {"end"} ELSE {}

-----------------------------------------------------------------------------
\* upsert collects its commands and asks for the remaining life of the list.
UpsertAsks(c, t, e) ==
    /\ call[c] = Idle
    /\ call' = [call EXCEPT ![c] = [kind |-> "upsert", token |-> t, expiresIn |-> e,
                                    ttl |-> GrantTtl, asked |-> now]]
    /\ raced' = raced \cup RacesOf("upsert") \cup ShortLife(e)
    /\ UNCHANGED <<now, store, grant>>

\* The expiry of the token's key: set as asked; for 0 seconds `if (expiresIn)`
\* leaves it, which a hash keeps and set takes away.
StoredUntil(u) ==
    IF u.expiresIn > 0 THEN now + u.expiresIn
    ELSE IF u.token \in Consumable /\ store[u.token].exp # NoKey THEN store[u.token].exp
    ELSE NoExpiry

\* A mistake: the whole hash is replaced instead of its payload field.
WrittenAnew(u) ==
    [payload |-> TRUE, consumed |-> FALSE, exp |-> StoredUntil(u), due |-> u.asked + u.expiresIn]

\* The MULTI block of upsert.  hmset keeps a hash's other fields, set does not.
Written(u) ==
    [payload |-> TRUE,
     consumed |-> u.token \in Consumable /\ store[u.token].consumed,
     exp |-> StoredUntil(u),
     due |-> u.asked + u.expiresIn]

\* The list as it is after rpush, when nothing sets its expiry ...
Pushed(u) ==
    [members |-> grant.members \cup {u.token},
     exp |-> IF grant = NoList THEN NoExpiry ELSE grant.exp]

\* ... and when EXPIRE does, which drops a key at once for 0 seconds.
Extended(u) ==
    IF u.expiresIn = 0 THEN NoList
    ELSE [members |-> grant.members \cup {u.token}, exp |-> now + u.expiresIn]

\* A mistake: the list's expiry set once, when there is no list yet.
ListedFirstOnly(u) == IF u.ttl = NoKey THEN Extended(u) ELSE Pushed(u)

\* The list gets a new expiry only if the ttl read before was shorter.
Listed(u) == IF u.expiresIn > u.ttl THEN Extended(u) ELSE Pushed(u)

UpsertExecutes(c) ==
    /\ call[c].kind = "upsert"
    /\ store' = [store EXCEPT ![call[c].token] = Written(call[c])]
    /\ grant' = Listed(call[c])
    /\ call' = [call EXCEPT ![c] = Idle]
    /\ UNCHANGED <<now, raced>>

\* A mistake: the list read from its second key on.
RevokeReadsLate(c) ==
    /\ call[c] = Idle
    /\ call' = [call EXCEPT ![c] = [kind |-> "revoke", asked |-> now,
                                    tokens |-> {t \in grant.members : grant.members # {t}}]]
    /\ raced' = raced \cup RacesOf("revoke")
    /\ UNCHANGED <<now, store, grant>>

RevokeReads(c) ==
    /\ call[c] = Idle
    /\ call' = [call EXCEPT ![c] = [kind |-> "revoke", tokens |-> grant.members,
                                    asked |-> now]]
    /\ raced' = raced \cup RacesOf("revoke")
    /\ UNCHANGED <<now, store, grant>>

RevokeExecutes(c) ==
    /\ call[c].kind = "revoke"
    /\ store' = [t \in Tokens |-> IF t \in call[c].tokens THEN NoToken ELSE store[t]]
    /\ grant' = NoList
    /\ call' = [call EXCEPT ![c] = Idle]
    /\ UNCHANGED <<now, raced>>

\* The connection or the process is lost between the two round trips.
CallLost(c) ==
    /\ call[c] # Idle
    /\ call' = [call EXCEPT ![c] = Idle]
    /\ UNCHANGED <<now, store, grant, raced>>

\* destroy leaves the key on the grant's list.
Destroy(t) ==
    /\ store' = [store EXCEPT ![t] = NoToken]
    /\ UNCHANGED <<now, grant, call, raced>>

\* hset creates the hash when the key is gone: no payload and no expiry.
Consume(t) ==
    /\ t \in Consumable
    /\ store' = [store EXCEPT ![t].consumed = TRUE,
                              ![t].exp = IF @ = NoKey THEN NoExpiry ELSE @]
    /\ UNCHANGED <<now, grant, call, raced>>

\* A second passes and Redis drops what has expired.
Expired(exp) == exp \in Nat /\ exp <= now + 1

Tick ==
    /\ now < EndOfTime
    /\ \A c \in InFlight : now < call[c].asked + MaxTrip
    /\ now' = now + 1
    /\ store' = [t \in Tokens |-> IF Expired(store[t].exp) THEN NoToken ELSE store[t]]
    /\ grant' = IF Expired(grant.exp) THEN NoList ELSE grant
    /\ UNCHANGED <<call, raced>>

Next ==
    \/ \E c \in Calls :
        \/ \E t \in Tokens, e \in Lifetimes : UpsertAsks(c, t, e)
        \/ UpsertExecutes(c)
        \/ RevokeReads(c)
        \/ RevokeExecutes(c)
        \/ CallLost(c)
    \/ \E t \in Tokens : Destroy(t) \/ Consume(t)
    \/ Tick

Spec == Init /\ [][Next]_vars

-----------------------------------------------------------------------------
\* A token that is still due is on the grant's list, so that revokeByGrantId
\* reaches it, as long as no upsert overlapped another upsert (whose older ttl
\* shortens the list's life) or a revocation (whose list is older), or was so
\* short that the list it counted on could run out before its block.
LiveTokensAreListed ==
    raced = {} => \A t \in Tokens :
        store[t].payload /\ now < store[t].due => t \in grant.members

\* The list outlives the token it was last extended for: it is left without an
\* expiry only when a revocation, or the list's own end, came inside an upsert.
ListsExpire ==
    raced \subseteq {"upsert"} => grant.exp # NoExpiry

\* When a revocation is done, no token of the grant is left that is still due:
\* none slips in between the round trip that reads the list and the one that
\* deletes, unless an upsert overlapped one of the two calls named above or was short.
RevocationsComplete ==
    [][\A c \in Calls : raced = {} /\ RevokeExecutes(c) =>
        \A t \in Tokens : ~(store'[t].payload /\ now < store'[t].due)]_vars

\* A token that find no longer returns is never returned again unless it is
\* stored anew: a consume that comes after expiry, destroy or revocation does
\* not bring the token back.
GoneStaysGone ==
    [][\A t \in Tokens :
        Find(t) # "found" /\ Find(t)' = "found" =>
            \E c \in Calls : call[c].kind = "upsert" /\ call[c].token = t
                             /\ call'[c] = Idle]_vars

\* A consumed code or refresh token never becomes usable again while it is
\* stored, whatever is upserted over it.
ConsumedStaysConsumed ==
    [][\A t \in Tokens :
        store[t].consumed /\ Find(t)' = "found" => store'[t].consumed]_vars

-----------------------------------------------------------------------------
(* What the keys of a token mean to the provider.                           *)

StateOf(t) ==
    IF store[t].payload
    THEN IF store[t].consumed THEN "used" ELSE "live"
    ELSE IF store[t].consumed THEN "marked" ELSE "absent"

BeingStored == {t \in Tokens : \E c \in Calls : call[c].kind = "upsert" /\ call[c].token = t}

Contract == INSTANCE TokenStore WITH
    token <- [t \in Tokens |-> StateOf(t)], asked <- BeingStored

\* The adapter is a token store, whatever expires or is revoked between the two
\* round trips of a call, and however late a consume comes.
ImplementsTokenStore == Contract!StoreSpec
=============================================================================
