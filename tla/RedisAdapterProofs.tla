------------------------- MODULE RedisAdapterProofs -------------------------
(***************************************************************************)
(* Proofs about the tokens of a grant, for every set of tokens, calls and  *)
(* lifetimes.  The indexes are last: adding them takes nothing away, the   *)
(* indexed adapter implements RedisAdapter, and the theorems about grants  *)
(* and tokens hold of it too.                                              *)
(***************************************************************************)
EXTENDS RedisIndex, TLAPS

\* Redis has no empty lists.
NoEmptyList == grant.exp = NoKey <=> grant.members = {}

\* An expired list is gone.
NothingStale == grant.exp \in Nat => grant.exp > now

TripsAreShort ==
    \A c \in InFlight : call[c].asked <= now /\ now <= call[c].asked + MaxTrip

\* An upsert that is short or shares its time with another call has been noticed.
RacesNoticed ==
    \A c, d \in Calls : call[c].kind = "upsert" =>
        /\ call[c].expiresIn <= MaxTrip => "end" \in raced
        /\ call[d].kind = "revoke" => "end" \in raced
        /\ call[d].kind = "upsert" /\ c # d => "upsert" \in raced

\* The list an upsert will not extend is still there when its block runs.
ListWaits ==
    "end" \notin raced =>
        \A c \in Calls :
            call[c].kind = "upsert" /\ call[c].expiresIn <= call[c].ttl =>
                grant.exp \in Nat /\ grant.exp > call[c].asked + MaxTrip

\* Without races the list is as the upsert found it, or has expired.
ListAsAsked ==
    raced = {} =>
        \A c \in Calls : call[c].kind = "upsert" =>
            grant.exp = NoKey \/ (call[c].ttl \in Nat /\ grant.exp = call[c].asked + call[c].ttl)

Due(t) == store[t].payload /\ now < store[t].due

\* Without races a token that is due is on a list that outlives it ...
DueTokensCovered ==
    raced = {} =>
        \A t \in Tokens : Due(t) =>
            t \in grant.members /\ grant.exp \in Nat /\ store[t].due <= grant.exp

\* ... and in the hands of every revocation under way.
RevocationsReachDue ==
    raced = {} =>
        \A c \in Calls, t \in Tokens : call[c].kind = "revoke" /\ Due(t) => t \in call[c].tokens

OnlyConsumablesConsumed == \A t \in Tokens : store[t].consumed => t \in Consumable

IInv ==
    /\ TypeOK
    /\ NoEmptyList
    /\ NothingStale
    /\ TripsAreShort
    /\ RacesNoticed
    /\ ListWaits
    /\ ListsExpire
    /\ ListAsAsked
    /\ DueTokensCovered
    /\ RevocationsReachDue
    /\ OnlyConsumablesConsumed

-----------------------------------------------------------------------------
\* The three kinds of call, and what they hold.
LEMMA CallFields ==
    ASSUME NEW u \in {Idle} \cup Upserts \cup Revocations
    PROVE  /\ u.kind = "upsert" => /\ u \in Upserts /\ u.token \in Tokens
                                   /\ u.expiresIn \in Lifetimes
                                   /\ u.ttl \in {NoKey, NoExpiry} \cup Nat
                                   /\ u.asked \in Nat
           /\ u.kind = "revoke" => u \in Revocations /\ u.tokens \subseteq Tokens /\ u.asked \in Nat
           /\ u # Idle => u.kind \in {"upsert", "revoke"} /\ u.asked \in Nat
           /\ u = Idle => u.kind = "idle"
  BY DEF Idle, Upserts, Revocations

LEMMA Lifetime == \A e \in Lifetimes : e \in Nat /\ MaxTrip \in Nat
  BY LifetimesAssumption, BoundsAssumption

LEMMA TypeParts ==
    ASSUME TypeOK
    PROVE  /\ now \in Nat /\ now \in 0 .. EndOfTime
           /\ store \in [Tokens -> [payload : BOOLEAN, consumed : BOOLEAN,
                                    exp : {NoKey, NoExpiry} \cup Nat, due : Nat]]
           /\ \A t \in Tokens : /\ store[t].payload \in BOOLEAN /\ store[t].consumed \in BOOLEAN
                                /\ store[t].exp \in {NoKey, NoExpiry} \cup Nat
                                /\ store[t].due \in Nat
           /\ grant \in [members : SUBSET Tokens, exp : {NoKey, NoExpiry} \cup Nat]
           /\ grant.members \subseteq Tokens
           /\ grant.exp \in {NoKey, NoExpiry} \cup Nat
           /\ call \in [Calls -> {Idle} \cup Upserts \cup Revocations]
           /\ \A c \in Calls : call[c] \in {Idle} \cup Upserts \cup Revocations
           /\ raced \subseteq {"upsert", "end"}
  BY BoundsAssumption DEF TypeOK

\* One call is replaced, the others go on.
LEMMA CallReplaced ==
    ASSUME TypeOK, NEW c \in Calls, NEW u, call' = [call EXCEPT ![c] = u]
    PROVE  /\ call'[c] = u
           /\ \A d \in Calls : d # c => call'[d] = call[d]
           /\ u \in {Idle} \cup Upserts \cup Revocations
                => call' \in [Calls -> {Idle} \cup Upserts \cup Revocations]
  BY DEF TypeOK

\* A list without expiry reads as absent to no upsert.
LEMMA Replies == NoKey = -2 /\ NoExpiry = -1 /\ NoKey \notin Nat /\ NoExpiry \notin Nat
  BY DEF NoKey, NoExpiry

LEMMA InitInvariant == Init => IInv
<1> SUFFICES ASSUME Init PROVE IInv
  OBVIOUS
<1>1. \A c \in Calls : call[c] = Idle /\ call[c].kind = "idle"
  BY DEF Init, Idle
<1>2. InFlight = {}
  BY <1>1 DEF InFlight
<1>3. grant.members = {} /\ grant.exp = NoKey /\ raced = {} /\ now = 0
  BY DEF Init, NoList
<1>4. \A t \in Tokens : store[t].payload = FALSE
  BY Zenon DEF Init, NoToken
<1>5. \A t \in Tokens : store[t].consumed = FALSE
  BY Zenon DEF Init, NoToken
<1>6. TypeOK
  <2>1. store \in [Tokens -> [payload : BOOLEAN, consumed : BOOLEAN,
                             exp : {NoKey, NoExpiry} \cup Nat, due : Nat]]
    BY DEF Init, NoToken
  <2>2. grant \in [members : SUBSET Tokens, exp : {NoKey, NoExpiry} \cup Nat]
    BY DEF Init, NoList
  <2>3. call \in [Calls -> {Idle} \cup Upserts \cup Revocations]
    BY DEF Init
  <2> QED
    BY <1>3, <2>1, <2>2, <2>3, BoundsAssumption DEF TypeOK
<1>7. NoEmptyList /\ NothingStale /\ TripsAreShort /\ RacesNoticed /\ ListWaits /\ ListAsAsked
      /\ RevocationsReachDue
  BY <1>1, <1>2, <1>3, Replies DEF NoEmptyList, NothingStale, TripsAreShort, RacesNoticed,
     ListWaits, ListAsAsked, RevocationsReachDue
<1>8. ListsExpire
  BY <1>3, Replies DEF ListsExpire
<1>9. DueTokensCovered /\ OnlyConsumablesConsumed
  BY <1>4, <1>5 DEF DueTokensCovered, OnlyConsumablesConsumed, Due
<1> QED
  BY <1>6, <1>7, <1>8, <1>9 DEF IInv

-----------------------------------------------------------------------------
LEMMA UpsertAsksStep ==
    ASSUME IInv, NEW c \in Calls, NEW t \in Tokens, NEW e \in Lifetimes, UpsertAsks(c, t, e)
    PROVE  IInv'
<1> DEFINE u == [kind |-> "upsert", token |-> t, expiresIn |-> e, ttl |-> GrantTtl, asked |-> now]
<1>0. /\ TypeOK /\ NoEmptyList /\ NothingStale /\ TripsAreShort /\ RacesNoticed /\ ListWaits
      /\ ListsExpire /\ ListAsAsked /\ DueTokensCovered /\ RevocationsReachDue
      /\ OnlyConsumablesConsumed
  BY DEF IInv
<1>1. /\ GrantTtl \in {NoKey, NoExpiry} \cup Nat
      /\ GrantTtl \in Nat => grant.exp \in Nat /\ grant.exp = now + GrantTtl
      /\ GrantTtl = NoKey => grant.exp = NoKey
      /\ GrantTtl = NoExpiry => grant.exp = NoExpiry
  BY <1>0, TypeParts, Replies DEF GrantTtl, NothingStale
<1>2. u \in Upserts
  BY <1>0, <1>1, TypeParts DEF Upserts
<1>3. /\ call'[c] = u
      /\ \A d \in Calls : d # c => call'[d] = call[d]
      /\ call' \in [Calls -> {Idle} \cup Upserts \cup Revocations]
  BY <1>0, <1>2, CallReplaced DEF UpsertAsks
<1>4. now' = now /\ store' = store /\ grant' = grant
  BY DEF UpsertAsks
<1>5. /\ raced \subseteq raced' /\ raced' \subseteq {"upsert", "end"}
      /\ \A d \in Calls : call[d].kind = "upsert" => "upsert" \in raced'
      /\ \A d \in Calls : call[d].kind = "revoke" => "end" \in raced'
      /\ e <= MaxTrip => "end" \in raced'
  <2>1. raced' = raced \cup RacesOf("upsert") \cup ShortLife(e)
    BY DEF UpsertAsks
  <2>2. RacesOf("upsert") \cup ShortLife(e) \subseteq {"upsert", "end"}
    BY DEF RacesOf, ShortLife
  <2>3. \A d \in Calls : call[d].kind \in {"upsert", "revoke"} => d \in InFlight
    BY DEF InFlight, Idle
  <2>4. /\ \A d \in Calls : call[d].kind = "upsert" => "upsert" \in RacesOf("upsert")
        /\ \A d \in Calls : call[d].kind = "revoke" => "end" \in RacesOf("upsert")
    BY <2>3 DEF RacesOf
  <2>5. e <= MaxTrip => "end" \in ShortLife(e)
    BY DEF ShortLife
  <2> QED
    BY <1>0, <2>1, <2>2, <2>4, <2>5, TypeParts
<1>6. TypeOK'
  BY <1>0, <1>3, <1>4, <1>5 DEF TypeOK
<1>7. TripsAreShort'
  BY <1>0, <1>3, <1>4, TypeParts, BoundsAssumption DEF TripsAreShort, InFlight
<1>8. RacesNoticed'
  <2>1. call[c].kind = "idle"
    BY DEF UpsertAsks, Idle
  <2> QED
    BY <1>0, <1>3, <1>5 DEF RacesNoticed
<1>9. ListWaits'
  <2>1. "end" \notin raced' /\ e <= GrantTtl => grant.exp \in Nat /\ grant.exp > now + MaxTrip
    BY <1>0, <1>1, <1>5, Lifetime, Replies, TypeParts
  <2> QED
    BY <1>0, <1>3, <1>4, <1>5, <2>1 DEF ListWaits
<1>10. ListAsAsked'
  <2>1. raced' = {} => grant.exp # NoExpiry
    BY <1>0, <1>5 DEF ListsExpire
  <2> QED
    BY <1>0, <1>1, <1>3, <1>4, <1>5, <2>1 DEF ListAsAsked
<1>11. ListsExpire' /\ NoEmptyList' /\ NothingStale'
  BY <1>0, <1>4, <1>5 DEF ListsExpire, NoEmptyList, NothingStale
<1>12. raced' = {} => raced = {}
  BY <1>5
<1>13. DueTokensCovered' /\ OnlyConsumablesConsumed'
  BY <1>0, <1>4, <1>12 DEF DueTokensCovered, OnlyConsumablesConsumed, Due
<1>14. RevocationsReachDue'
  BY <1>0, <1>3, <1>4, <1>12 DEF RevocationsReachDue, Due
<1> QED
  BY <1>6, <1>7, <1>8, <1>9, <1>10, <1>11, <1>13, <1>14 DEF IInv

LEMMA RevokeReadsStep ==
    ASSUME IInv, NEW c \in Calls, RevokeReads(c)
    PROVE  IInv'
<1> DEFINE r == [kind |-> "revoke", tokens |-> grant.members, asked |-> now]
<1>0. /\ TypeOK /\ NoEmptyList /\ NothingStale /\ TripsAreShort /\ RacesNoticed /\ ListWaits
      /\ ListsExpire /\ ListAsAsked /\ DueTokensCovered /\ RevocationsReachDue
      /\ OnlyConsumablesConsumed
  BY DEF IInv
<1>2. r \in Revocations
  BY <1>0, TypeParts DEF Revocations
<1>3. /\ call'[c] = r
      /\ \A d \in Calls : d # c => call'[d] = call[d]
      /\ call' \in [Calls -> {Idle} \cup Upserts \cup Revocations]
  BY <1>0, <1>2, CallReplaced DEF RevokeReads
<1>4. now' = now /\ store' = store /\ grant' = grant
  BY DEF RevokeReads
<1>5. /\ raced \subseteq raced' /\ raced' \subseteq {"upsert", "end"}
      /\ \A d \in Calls : call[d].kind = "upsert" => "end" \in raced'
  <2>1. raced' = raced \cup RacesOf("revoke")
    BY DEF RevokeReads
  <2>2. RacesOf("revoke") \subseteq {"upsert", "end"}
    BY DEF RacesOf
  <2>3. \A d \in Calls : call[d].kind = "upsert" => d \in InFlight
    BY DEF InFlight, Idle
  <2>4. \A d \in Calls : call[d].kind = "upsert" => "end" \in RacesOf("revoke")
    BY <2>3 DEF RacesOf
  <2> QED
    BY <1>0, <2>1, <2>2, <2>4, TypeParts
<1>6. TypeOK'
  BY <1>0, <1>3, <1>4, <1>5 DEF TypeOK
<1>7. TripsAreShort'
  BY <1>0, <1>3, <1>4, TypeParts, BoundsAssumption DEF TripsAreShort, InFlight
<1>8. RacesNoticed'
  BY <1>0, <1>3, <1>5 DEF RacesNoticed
<1>9. ListWaits'
  BY <1>0, <1>3, <1>4, <1>5 DEF ListWaits
<1>10. ListAsAsked'
  BY <1>0, <1>3, <1>4, <1>5 DEF ListAsAsked
<1>11. ListsExpire' /\ NoEmptyList' /\ NothingStale'
  BY <1>0, <1>4, <1>5 DEF ListsExpire, NoEmptyList, NothingStale
<1>12. raced' = {} => raced = {}
  BY <1>5
<1>13. DueTokensCovered' /\ OnlyConsumablesConsumed'
  BY <1>0, <1>4, <1>12 DEF DueTokensCovered, OnlyConsumablesConsumed, Due
<1>14. RevocationsReachDue'
  BY <1>0, <1>3, <1>4, <1>12 DEF RevocationsReachDue, DueTokensCovered, Due
<1> QED
  BY <1>6, <1>7, <1>8, <1>9, <1>10, <1>11, <1>13, <1>14 DEF IInv

\* A call that is over constrains nothing.
LEMMA CallLostStep ==
    ASSUME IInv, NEW c \in Calls, CallLost(c)
    PROVE  IInv'
<1>0. /\ TypeOK /\ NoEmptyList /\ NothingStale /\ TripsAreShort /\ RacesNoticed /\ ListWaits
      /\ ListsExpire /\ ListAsAsked /\ DueTokensCovered /\ RevocationsReachDue
      /\ OnlyConsumablesConsumed
  BY DEF IInv
<1>3. /\ call'[c] = Idle /\ Idle.kind = "idle"
      /\ \A d \in Calls : d # c => call'[d] = call[d]
      /\ call' \in [Calls -> {Idle} \cup Upserts \cup Revocations]
  BY <1>0, CallReplaced DEF CallLost, Idle
<1>4. now' = now /\ store' = store /\ grant' = grant /\ raced' = raced
  BY DEF CallLost
<1>6. TypeOK'
  BY <1>0, <1>3, <1>4 DEF TypeOK
<1>7. TripsAreShort'
  BY <1>0, <1>3, <1>4 DEF TripsAreShort, InFlight
<1>8. RacesNoticed'
  BY <1>0, <1>3, <1>4 DEF RacesNoticed
<1>9. ListWaits' /\ ListAsAsked'
  BY <1>0, <1>3, <1>4 DEF ListWaits, ListAsAsked
<1>11. ListsExpire' /\ NoEmptyList' /\ NothingStale'
  BY <1>0, <1>4 DEF ListsExpire, NoEmptyList, NothingStale
<1>13. DueTokensCovered' /\ OnlyConsumablesConsumed'
  BY <1>0, <1>4 DEF DueTokensCovered, OnlyConsumablesConsumed, Due
<1>14. RevocationsReachDue'
  BY <1>0, <1>3, <1>4 DEF RevocationsReachDue, Due
<1> QED
  BY <1>6, <1>7, <1>8, <1>9, <1>11, <1>13, <1>14 DEF IInv

\* A list with no key is the empty list, and the other way round.
LEMMA AbsentList ==
    ASSUME TypeOK, NoEmptyList
    PROVE  grant = NoList <=> grant.exp = NoKey
  BY TypeParts DEF NoEmptyList, NoList

LEMMA UpsertExecutesStep ==
    ASSUME IInv, NEW c \in Calls, UpsertExecutes(c)
    PROVE  IInv'
<1> DEFINE u == call[c]
<1>0. /\ TypeOK /\ NoEmptyList /\ NothingStale /\ TripsAreShort /\ RacesNoticed /\ ListWaits
      /\ ListsExpire /\ ListAsAsked /\ DueTokensCovered /\ RevocationsReachDue
      /\ OnlyConsumablesConsumed
  BY DEF IInv
<1>1. /\ u.kind = "upsert" /\ u.token \in Tokens /\ u.expiresIn \in Nat
      /\ "end" \notin raced => u.expiresIn > MaxTrip
      /\ MaxTrip \in Nat
      /\ u.ttl \in {NoKey, NoExpiry} \cup Nat /\ u.asked \in Nat
      /\ u.asked <= now /\ now <= u.asked + MaxTrip
  <2>1. c \in InFlight
    BY DEF UpsertExecutes, InFlight, Idle
  <2> QED
    BY <1>0, <2>1, TypeParts, CallFields, Lifetime DEF UpsertExecutes, TripsAreShort, RacesNoticed
<1>2. /\ call'[c] = Idle /\ Idle.kind = "idle"
      /\ \A d \in Calls : d # c => call'[d] = call[d]
      /\ call' \in [Calls -> {Idle} \cup Upserts \cup Revocations]
  BY <1>0, CallReplaced DEF UpsertExecutes, Idle
<1>3. now' = now /\ raced' = raced /\ now \in Nat
  BY <1>0, TypeParts DEF UpsertExecutes
<1>e. u.expiresIn > u.ttl /\ u.expiresIn = 0 => grant'.members = {} /\ grant'.exp = NoKey
  BY DEF UpsertExecutes, Listed, Extended, NoList
<1>4. /\ ~(u.expiresIn > u.ttl /\ u.expiresIn = 0) => grant'.members = grant.members \cup {u.token}
      /\ u.expiresIn > u.ttl /\ u.expiresIn # 0 => grant'.exp = now + u.expiresIn
      /\ ~(u.expiresIn > u.ttl) /\ grant.exp = NoKey => grant'.exp = NoExpiry
      /\ ~(u.expiresIn > u.ttl) /\ grant.exp # NoKey => grant'.exp = grant.exp
  BY <1>0, AbsentList DEF UpsertExecutes, Listed, Extended, Pushed
<1>5. /\ store'[u.token] = Written(u)
      /\ \A t \in Tokens : t # u.token => store'[t] = store[t]
  BY <1>0, <1>1, TypeParts DEF UpsertExecutes
\* Who else is in flight.
<1>6. /\ "end" \notin raced => \A d \in Calls : call[d].kind # "revoke"
      /\ "upsert" \notin raced => \A d \in Calls : d # c => call[d].kind # "upsert"
  BY <1>0, <1>1 DEF RacesNoticed
<1>7. "end" \notin raced /\ ~(u.expiresIn > u.ttl) => grant.exp \in Nat
  BY <1>0, <1>1, Replies DEF ListWaits
<1>8. TypeOK'
  <2>1. /\ Written(u).payload \in BOOLEAN /\ Written(u).consumed \in BOOLEAN
        /\ Written(u) = [payload |-> Written(u).payload, consumed |-> Written(u).consumed,
                         exp |-> StoredUntil(u), due |-> u.asked + u.expiresIn]
    BY Zenon DEF Written
  <2>2. /\ StoredUntil(u) \in {NoKey, NoExpiry} \cup Nat
        /\ now + u.expiresIn \in Nat /\ u.asked + u.expiresIn \in Nat
    BY <1>0, <1>1, <1>3, TypeParts DEF StoredUntil
  <2>3. Written(u) \in [payload : BOOLEAN, consumed : BOOLEAN,
                        exp : {NoKey, NoExpiry} \cup Nat, due : Nat]
    BY <2>1, <2>2
  <2>4. store' \in [Tokens -> [payload : BOOLEAN, consumed : BOOLEAN,
                              exp : {NoKey, NoExpiry} \cup Nat, due : Nat]]
    BY <1>0, <2>3, TypeParts DEF UpsertExecutes
  <2>5. grant' \in [members : SUBSET Tokens, exp : {NoKey, NoExpiry} \cup Nat]
    <3>1. NoList \in [members : SUBSET Tokens, exp : {NoKey, NoExpiry} \cup Nat]
      BY DEF NoList
    <3>2. Pushed(u) \in [members : SUBSET Tokens, exp : {NoKey, NoExpiry} \cup Nat]
      BY <1>0, <1>1, TypeParts DEF Pushed
    <3>3. Extended(u) \in [members : SUBSET Tokens, exp : {NoKey, NoExpiry} \cup Nat]
      BY <1>0, <1>1, <2>2, <3>1, TypeParts DEF Extended
    <3> QED
      BY <3>2, <3>3 DEF UpsertExecutes, Listed
  <2> QED
    BY <1>0, <1>2, <1>3, <2>4, <2>5 DEF TypeOK
<1>9. NoEmptyList' /\ NothingStale'
  BY <1>0, <1>1, <1>3, <1>e, <1>4, TypeParts, Replies DEF NoEmptyList, NothingStale
<1>10. TripsAreShort'
  BY <1>0, <1>2, <1>3 DEF TripsAreShort, InFlight
<1>11. RacesNoticed'
  BY <1>0, <1>2, <1>3 DEF RacesNoticed
<1>12. ListWaits'
  <2> SUFFICES ASSUME "end" \notin raced, NEW d \in Calls, d # c, call[d].kind = "upsert",
                      call[d].expiresIn <= call[d].ttl
               PROVE  grant'.exp \in Nat /\ grant'.exp > call[d].asked + MaxTrip
    BY <1>2, <1>3 DEF ListWaits
  <2>1. grant.exp \in Nat /\ grant.exp > call[d].asked + MaxTrip
    BY <1>0 DEF ListWaits
  <2>2. d \in InFlight /\ call[d].asked \in Nat
    BY <1>0, TypeParts, CallFields DEF InFlight, Idle
  <2>3. call[d].asked <= now
    BY <1>0, <2>2 DEF TripsAreShort
  <2> QED
    BY <1>1, <1>3, <1>4, <2>1, <2>2, <2>3, Replies
<1>13. ListsExpire'
  <2> SUFFICES ASSUME "end" \notin raced PROVE grant'.exp # NoExpiry
    BY <1>0, <1>3, TypeParts DEF ListsExpire
  <2> QED
    BY <1>1, <1>3, <1>4, <1>7, Replies
<1>14. ListAsAsked' /\ RevocationsReachDue'
  BY <1>2, <1>3, <1>6 DEF ListAsAsked, RevocationsReachDue
<1>15. DueTokensCovered'
  <2> SUFFICES ASSUME raced = {}, NEW t \in Tokens, Due(t)'
               PROVE  t \in grant'.members /\ grant'.exp \in Nat /\ store'[t].due <= grant'.exp
    BY <1>3 DEF DueTokensCovered
  <2>1. grant.exp = NoKey \/ (u.ttl \in Nat /\ grant.exp = u.asked + u.ttl)
    BY <1>0, <1>1 DEF ListAsAsked
  <2>2. CASE t = u.token
    <3>1. store'[t].due = u.asked + u.expiresIn
      BY <1>5, <2>2 DEF Written
    <3>2. CASE u.expiresIn > u.ttl
      BY <1>1, <1>3, <1>4, <2>2, <3>1, <3>2
    <3>3. CASE ~(u.expiresIn > u.ttl)
      BY <1>1, <1>4, <1>7, <2>1, <2>2, <3>1, <3>3, Replies
    <3> QED
      BY <3>2, <3>3
  <2>3. CASE t # u.token
    <3>1. Due(t) /\ store'[t] = store[t]
      BY <1>3, <1>5, <2>3 DEF Due
    <3>2. t \in grant.members /\ grant.exp \in Nat /\ store[t].due <= grant.exp /\ store[t].due \in Nat
      BY <1>0, <3>1, TypeParts DEF DueTokensCovered
    <3> QED
      BY <1>1, <1>3, <1>4, <2>1, <3>1, <3>2, Replies
  <2> QED
    BY <2>2, <2>3
<1>16. OnlyConsumablesConsumed'
  <2>1. Written(u).consumed => u.token \in Consumable
    BY Zenon DEF Written
  <2> QED
    BY <1>0, <1>5, <2>1 DEF OnlyConsumablesConsumed
<1> QED
  BY <1>8, <1>9, <1>10, <1>11, <1>12, <1>13, <1>14, <1>15, <1>16 DEF IInv

LEMMA RevokeExecutesStep ==
    ASSUME IInv, NEW c \in Calls, RevokeExecutes(c)
    PROVE  IInv'
<1>0. /\ TypeOK /\ NoEmptyList /\ NothingStale /\ TripsAreShort /\ RacesNoticed /\ ListWaits
      /\ ListsExpire /\ ListAsAsked /\ DueTokensCovered /\ RevocationsReachDue
      /\ OnlyConsumablesConsumed
  BY DEF IInv
<1>1. call[c].kind = "revoke"
  BY DEF RevokeExecutes
<1>2. /\ call'[c] = Idle /\ Idle.kind = "idle"
      /\ \A d \in Calls : d # c => call'[d] = call[d]
      /\ call' \in [Calls -> {Idle} \cup Upserts \cup Revocations]
  BY <1>0, CallReplaced DEF RevokeExecutes, Idle
<1>3. now' = now /\ raced' = raced
  BY DEF RevokeExecutes
<1>4. grant' = NoList /\ grant'.members = {} /\ grant'.exp = NoKey
  BY DEF RevokeExecutes, NoList
<1>5. \A t \in Tokens : store'[t] = IF t \in call[c].tokens THEN NoToken ELSE store[t]
  BY DEF RevokeExecutes
<1>6. "end" \notin raced => \A d \in Calls : call[d].kind # "upsert"
  BY <1>0, <1>1 DEF RacesNoticed
<1>7. \A t \in Tokens : Due(t)' => Due(t) /\ t \notin call[c].tokens
  <2>1. NoToken.payload = FALSE
    BY Zenon DEF NoToken
  <2> QED
    BY <1>3, <1>5, <2>1 DEF Due
<1>8. raced = {} => \A t \in Tokens : ~Due(t)'
  BY <1>0, <1>1, <1>7 DEF RevocationsReachDue
<1>9. TypeOK'
  <2>1. NoToken \in [payload : BOOLEAN, consumed : BOOLEAN, exp : {NoKey, NoExpiry} \cup Nat, due : Nat]
    BY DEF NoToken
  <2>2. store' \in [Tokens -> [payload : BOOLEAN, consumed : BOOLEAN,
                              exp : {NoKey, NoExpiry} \cup Nat, due : Nat]]
    BY <1>0, <2>1, TypeParts DEF RevokeExecutes
  <2>3. grant' \in [members : SUBSET Tokens, exp : {NoKey, NoExpiry} \cup Nat]
    BY <1>4 DEF NoList
  <2> QED
    BY <1>0, <1>2, <1>3, <2>2, <2>3 DEF TypeOK
<1>10. NoEmptyList' /\ NothingStale' /\ ListsExpire'
  BY <1>4, Replies DEF NoEmptyList, NothingStale, ListsExpire
<1>11. TripsAreShort'
  BY <1>0, <1>2, <1>3 DEF TripsAreShort, InFlight
<1>12. RacesNoticed'
  BY <1>0, <1>2, <1>3 DEF RacesNoticed
<1>13. ListWaits' /\ ListAsAsked'
  BY <1>2, <1>3, <1>4, <1>6 DEF ListWaits, ListAsAsked
<1>14. DueTokensCovered' /\ RevocationsReachDue'
  BY <1>3, <1>8 DEF DueTokensCovered, RevocationsReachDue
<1>15. OnlyConsumablesConsumed'
  <2>1. NoToken.consumed = FALSE
    BY Zenon DEF NoToken
  <2> QED
    BY <1>0, <1>5, <2>1 DEF OnlyConsumablesConsumed
<1> QED
  BY <1>9, <1>10, <1>11, <1>12, <1>13, <1>14, <1>15 DEF IInv

\* destroy and consume touch one token, and make none due.
LEMMA OneTokenStep ==
    ASSUME IInv, NEW t \in Tokens, Destroy(t) \/ Consume(t)
    PROVE  IInv'
<1>0. /\ TypeOK /\ NoEmptyList /\ NothingStale /\ TripsAreShort /\ RacesNoticed /\ ListWaits
      /\ ListsExpire /\ ListAsAsked /\ DueTokensCovered /\ RevocationsReachDue
      /\ OnlyConsumablesConsumed
  BY DEF IInv
<1>1. now' = now /\ grant' = grant /\ call' = call /\ raced' = raced
  BY DEF Destroy, Consume
<1>2. TypeOK'
  <2>1. NoToken \in [payload : BOOLEAN, consumed : BOOLEAN, exp : {NoKey, NoExpiry} \cup Nat, due : Nat]
    BY DEF NoToken
  <2>2. store' \in [Tokens -> [payload : BOOLEAN, consumed : BOOLEAN,
                              exp : {NoKey, NoExpiry} \cup Nat, due : Nat]]
    <3>1. store \in [Tokens -> [payload : BOOLEAN, consumed : BOOLEAN,
                               exp : {NoKey, NoExpiry} \cup Nat, due : Nat]]
      BY <1>0 DEF TypeOK
    <3>2. CASE Destroy(t)
      BY <2>1, <3>1, <3>2 DEF Destroy
    <3>3. CASE Consume(t)
      <4>1. store[t] \in [payload : BOOLEAN, consumed : BOOLEAN,
                          exp : {NoKey, NoExpiry} \cup Nat, due : Nat]
        BY <3>1
      <4>2. [store[t] EXCEPT !.consumed = TRUE, !.exp = IF @ = NoKey THEN NoExpiry ELSE @]
              \in [payload : BOOLEAN, consumed : BOOLEAN,
                   exp : {NoKey, NoExpiry} \cup Nat, due : Nat]
        BY <4>1
      <4>3. store' = [store EXCEPT ![t] = [store[t] EXCEPT !.consumed = TRUE,
                                                   !.exp = IF @ = NoKey THEN NoExpiry ELSE @]]
        BY <3>1, <3>3 DEF Consume
      <4> QED
        BY <3>1, <4>2, <4>3
    <3> QED
      BY <3>2, <3>3
  <2> QED
    BY <1>0, <1>1, <2>2 DEF TypeOK
<1>3. NoEmptyList' /\ NothingStale' /\ TripsAreShort' /\ RacesNoticed' /\ ListWaits' /\ ListsExpire'
      /\ ListAsAsked'
  BY <1>0, <1>1 DEF NoEmptyList, NothingStale, TripsAreShort, RacesNoticed, ListWaits, ListsExpire,
     ListAsAsked, InFlight
<1>4. \A s \in Tokens : s # t => store'[s] = store[s]
  BY <1>0, TypeParts DEF Destroy, Consume
<1>5. CASE Destroy(t)
  <2>1. store'[t] = NoToken
    BY <1>0, <1>5, TypeParts DEF Destroy
  <2>2. NoToken.payload = FALSE /\ NoToken.consumed = FALSE
    BY Zenon DEF NoToken
  <2>3. \A s \in Tokens : Due(s)' => Due(s) /\ store'[s].due = store[s].due
    BY <1>1, <1>4, <2>1, <2>2 DEF Due
  <2>4. DueTokensCovered' /\ RevocationsReachDue'
    BY <1>0, <1>1, <2>3 DEF DueTokensCovered, RevocationsReachDue
  <2>5. OnlyConsumablesConsumed'
    BY <1>0, <1>4, <2>1, <2>2 DEF OnlyConsumablesConsumed
  <2> QED
    BY <1>2, <1>3, <2>4, <2>5 DEF IInv
<1>6. CASE Consume(t)
  <2>1. store'[t].payload = store[t].payload /\ store'[t].due = store[t].due
    BY <1>0, <1>6, TypeParts DEF Consume
  <2>2. \A s \in Tokens : Due(s)' => Due(s) /\ store'[s].due = store[s].due
    BY <1>1, <1>4, <2>1 DEF Due
  <2>3. DueTokensCovered' /\ RevocationsReachDue'
    BY <1>0, <1>1, <2>2 DEF DueTokensCovered, RevocationsReachDue
  <2>4. OnlyConsumablesConsumed'
    BY <1>0, <1>4, <1>6 DEF OnlyConsumablesConsumed, Consume
  <2> QED
    BY <1>2, <1>3, <2>3, <2>4 DEF IInv
<1> QED
  BY <1>5, <1>6

\* A list that covers the due tokens expires after them, and after the calls that
\* count on it.
LEMMA TickStep ==
    ASSUME IInv, Tick
    PROVE  IInv'
<1>0. /\ TypeOK /\ NoEmptyList /\ NothingStale /\ TripsAreShort /\ RacesNoticed /\ ListWaits
      /\ ListsExpire /\ ListAsAsked /\ DueTokensCovered /\ RevocationsReachDue
      /\ OnlyConsumablesConsumed
  BY DEF IInv
<1>1. now' = now + 1 /\ now \in Nat /\ now' \in 0 .. EndOfTime /\ call' = call /\ raced' = raced
  BY <1>0, TypeParts, BoundsAssumption DEF Tick
<1>2. \/ grant' = NoList /\ grant'.exp = NoKey /\ grant'.members = {} /\ grant.exp \in Nat /\ grant.exp <= now + 1
      \/ grant' = grant /\ ~(grant.exp \in Nat /\ grant.exp <= now + 1)
  BY DEF Tick, Expired, NoList
<1>3. \A t \in Tokens : store'[t] = NoToken \/ store'[t] = store[t]
  BY DEF Tick
<1>4. NoToken.payload = FALSE /\ NoToken.consumed = FALSE
  BY Zenon DEF NoToken
<1>5. \A t \in Tokens : Due(t)' => /\ Due(t) /\ store'[t].due = store[t].due
                                   /\ now + 1 < store[t].due /\ store[t].due \in Nat
  BY <1>0, <1>1, <1>3, <1>4, TypeParts DEF Due
<1>6. \A c \in InFlight : now + 1 <= call[c].asked + MaxTrip /\ call[c].asked \in Nat
  BY <1>0, <1>1, TypeParts, CallFields, BoundsAssumption DEF Tick, InFlight
<1>7. TypeOK'
  <2>1. NoToken \in [payload : BOOLEAN, consumed : BOOLEAN, exp : {NoKey, NoExpiry} \cup Nat, due : Nat]
    BY DEF NoToken
  <2>2. store' \in [Tokens -> [payload : BOOLEAN, consumed : BOOLEAN,
                              exp : {NoKey, NoExpiry} \cup Nat, due : Nat]]
    BY <1>0, <2>1, TypeParts DEF Tick
  <2>3. grant' \in [members : SUBSET Tokens, exp : {NoKey, NoExpiry} \cup Nat]
    BY <1>0, <1>2, TypeParts DEF NoList
  <2> QED
    BY <1>0, <1>1, <2>2, <2>3 DEF TypeOK
<1>8. NoEmptyList' /\ NothingStale' /\ ListsExpire'
  BY <1>0, <1>1, <1>2, Replies DEF NoEmptyList, NothingStale, ListsExpire
<1>9. TripsAreShort'
  BY <1>0, <1>1, <1>6 DEF TripsAreShort, InFlight
<1>10. RacesNoticed' /\ ListAsAsked'
  BY <1>0, <1>1, <1>2 DEF RacesNoticed, ListAsAsked
<1>11. ListWaits'
  <2> SUFFICES ASSUME "end" \notin raced, NEW c \in Calls, call[c].kind = "upsert",
                      call[c].expiresIn <= call[c].ttl
               PROVE  grant'.exp \in Nat /\ grant'.exp > call[c].asked + MaxTrip
    BY <1>1 DEF ListWaits
  <2>1. grant.exp \in Nat /\ grant.exp > call[c].asked + MaxTrip
    BY <1>0 DEF ListWaits
  <2>2. c \in InFlight
    BY DEF InFlight, Idle
  <2>3. grant.exp > now + 1
    BY <1>1, <1>6, <2>1, <2>2, BoundsAssumption
  <2> QED
    BY <1>1, <1>2, <2>1, <2>3
<1>12. DueTokensCovered'
  <2> SUFFICES ASSUME raced = {}, NEW t \in Tokens, Due(t)'
               PROVE  t \in grant'.members /\ grant'.exp \in Nat /\ store'[t].due <= grant'.exp
    BY <1>1 DEF DueTokensCovered
  <2>1. t \in grant.members /\ grant.exp \in Nat /\ store[t].due <= grant.exp
    BY <1>0, <1>5 DEF DueTokensCovered
  <2> QED
    BY <1>1, <1>2, <1>5, <2>1
<1>13. RevocationsReachDue'
  BY <1>0, <1>1, <1>5 DEF RevocationsReachDue
<1>14. OnlyConsumablesConsumed'
  BY <1>0, <1>3, <1>4 DEF OnlyConsumablesConsumed
<1> QED
  BY <1>7, <1>8, <1>9, <1>10, <1>11, <1>12, <1>13, <1>14 DEF IInv

LEMMA StutterStep == IInv /\ UNCHANGED vars => IInv'
<1> SUFFICES ASSUME IInv, UNCHANGED vars PROVE IInv'
  OBVIOUS
<1>1. now' = now /\ store' = store /\ grant' = grant /\ call' = call /\ raced' = raced
  BY DEF vars
<1>2. TypeOK'
  BY <1>1 DEF IInv, TypeOK
<1> QED
  BY <1>1, <1>2 DEF IInv, NoEmptyList, NothingStale, TripsAreShort, RacesNoticed, ListWaits,
     ListsExpire, ListAsAsked, DueTokensCovered, RevocationsReachDue, OnlyConsumablesConsumed,
     InFlight, Due

-----------------------------------------------------------------------------
\* The invariant holds in every reachable state.
THEOREM AdapterInvariant == Spec => []IInv
<1>1. IInv /\ [Next]_vars => IInv'
  BY UpsertAsksStep, UpsertExecutesStep, RevokeReadsStep, RevokeExecutesStep, CallLostStep,
     OneTokenStep, TickStep, StutterStep DEF Next
<1> QED
  BY <1>1, InitInvariant, PTL DEF Spec

\* Types, for every set of tokens and calls and every bound.
THEOREM TypeCorrect == Spec => []TypeOK
<1>1. IInv => TypeOK
  BY DEF IInv
<1> QED
  BY <1>1, AdapterInvariant, PTL

\* While upserts overlap nothing, revokeByGrantId reaches every token that is due.
THEOREM RevocationReachesTokens == Spec => []LiveTokensAreListed
<1>1. IInv => LiveTokensAreListed
  BY DEF IInv, DueTokensCovered, LiveTokensAreListed, Due
<1> QED
  BY <1>1, AdapterInvariant, PTL

\* upsert leaves a list without expiry only when a revocation ran inside it, or when
\* it was so short that the list could end meanwhile.
THEOREM ListsAlwaysExpire == Spec => []ListsExpire
<1>1. IInv => ListsExpire
  BY DEF IInv
<1> QED
  BY <1>1, AdapterInvariant, PTL

\* No call but an upsert of a token makes find return it again.
THEOREM NoTokenComesBack == Spec => GoneStaysGone
<1> DEFINE ComesBackByUpsert ==
        \A t \in Tokens :
            Find(t) # "found" /\ Find(t)' = "found" =>
                \E c \in Calls : call[c].kind = "upsert" /\ call[c].token = t
                                 /\ call'[c] = Idle
<1>1. ASSUME TypeOK, Next, NEW t \in Tokens, ~store[t].payload, store'[t].payload
      PROVE  \E c \in Calls : UpsertExecutes(c) /\ call[c].token = t
  <2>1. ~NoToken.payload
    BY Zenon DEF NoToken
  <2>2. ASSUME NEW c \in Calls, UpsertExecutes(c), call[c].token # t PROVE FALSE
    BY <1>1, <2>2, TypeParts DEF UpsertExecutes
  <2>3. ASSUME NEW c \in Calls, RevokeExecutes(c) PROVE FALSE
    BY <1>1, <2>1, <2>3 DEF RevokeExecutes
  <2>4. ASSUME NEW s \in Tokens, Destroy(s) \/ Consume(s) PROVE FALSE
    BY <1>1, <2>1, <2>4, TypeParts DEF Destroy, Consume
  <2>5. ASSUME Tick PROVE FALSE
    BY <1>1, <2>1, <2>5 DEF Tick
  <2>6. ASSUME store' = store PROVE FALSE
    BY <1>1, <2>6
  <2>7. ASSUME NEW c \in Calls, \/ \E s \in Tokens, e \in Lifetimes : UpsertAsks(c, s, e)
                                \/ RevokeReads(c) \/ CallLost(c)
        PROVE  FALSE
    BY <2>6, <2>7 DEF UpsertAsks, RevokeReads, CallLost
  <2> QED
    BY <1>1, <2>2, <2>3, <2>4, <2>5, <2>7 DEF Next
<1>2. TypeOK /\ [Next]_vars => [ComesBackByUpsert]_vars
  <2> SUFFICES ASSUME TypeOK, Next, NEW t \in Tokens, Find(t) # "found", Find(t)' = "found"
               PROVE  \E c \in Calls : call[c].kind = "upsert" /\ call[c].token = t
                                       /\ call'[c] = Idle
    OBVIOUS
  <2>1. ~store[t].payload /\ store'[t].payload
    BY DEF Find
  <2>2. PICK c \in Calls : UpsertExecutes(c) /\ call[c].token = t
    BY <1>1, <2>1
  <2> QED
    BY <2>2, CallReplaced DEF UpsertExecutes
<1> QED
  BY <1>2, TypeCorrect, PTL DEF Spec, GoneStaysGone

\* No call takes the mark off a consumed token that find still returns.
THEOREM ConsumedForGood == Spec => ConsumedStaysConsumed
<1> DEFINE MarkKept ==
        \A t \in Tokens : store[t].consumed /\ Find(t)' = "found" => store'[t].consumed
<1>1. ASSUME TypeOK, OnlyConsumablesConsumed, Next, NEW t \in Tokens,
             store[t].consumed, store'[t].payload
      PROVE  store'[t].consumed
  <2>1. ~NoToken.payload
    BY Zenon DEF NoToken
  <2>2. t \in Consumable
    BY <1>1 DEF OnlyConsumablesConsumed
  <2>3. ASSUME NEW c \in Calls, UpsertExecutes(c) PROVE store'[t].consumed
    <3>1. Written(call[c]).consumed <=> call[c].token \in Consumable /\ store[call[c].token].consumed
      BY Zenon DEF Written
    <3>2. store' = [store EXCEPT ![call[c].token] = Written(call[c])]
      BY <2>3 DEF UpsertExecutes
    <3>3. CASE call[c].token = t
      BY <1>1, <2>2, <3>1, <3>2, <3>3, TypeParts
    <3>4. CASE call[c].token # t
      BY <1>1, <3>2, <3>4, TypeParts
    <3> QED
      BY <3>3, <3>4
  <2>4. ASSUME NEW c \in Calls, RevokeExecutes(c) PROVE store'[t].consumed
    BY <1>1, <2>1, <2>4 DEF RevokeExecutes
  <2>5. ASSUME NEW s \in Tokens, Destroy(s) PROVE store'[t].consumed
    BY <1>1, <2>1, <2>5, TypeParts DEF Destroy
  <2>6. ASSUME NEW s \in Tokens, Consume(s) PROVE store'[t].consumed
    BY <1>1, <2>6, TypeParts DEF Consume
  <2>7. ASSUME Tick PROVE store'[t].consumed
    BY <1>1, <2>1, <2>7 DEF Tick
  <2>8. ASSUME store' = store PROVE store'[t].consumed
    BY <1>1, <2>8
  <2>9. ASSUME NEW c \in Calls, \/ \E s \in Tokens, e \in Lifetimes : UpsertAsks(c, s, e)
                                \/ RevokeReads(c) \/ CallLost(c)
        PROVE  store'[t].consumed
    BY <2>8, <2>9 DEF UpsertAsks, RevokeReads, CallLost
  <2> QED
    BY <1>1, <2>3, <2>4, <2>5, <2>6, <2>7, <2>9 DEF Next
<1>2. IInv /\ [Next]_vars => [MarkKept]_vars
  <2> SUFFICES ASSUME IInv, Next, NEW t \in Tokens, store[t].consumed, Find(t)' = "found"
               PROVE  store'[t].consumed
    OBVIOUS
  <2>1. store'[t].payload
    BY DEF Find
  <2> QED
    BY <1>1, <2>1 DEF IInv
<1> QED
  BY <1>2, AdapterInvariant, PTL DEF Spec, ConsumedStaysConsumed
\* What a revocation has in hand is all that is due, so nothing due is left.
THEOREM RevocationTakesAll == Spec => RevocationsComplete
<1> DEFINE NothingDueLeft ==
        \A c \in Calls : raced = {} /\ RevokeExecutes(c) =>
            \A t \in Tokens : ~(store'[t].payload /\ now < store'[t].due)
<1>1. IInv => NothingDueLeft
  <2> SUFFICES ASSUME IInv, NEW c \in Calls, raced = {}, RevokeExecutes(c), NEW t \in Tokens,
                      store'[t].payload, now < store'[t].due
               PROVE  FALSE
    OBVIOUS
  <2>1. ~NoToken.payload
    BY Zenon DEF NoToken
  <2>2. t \notin call[c].tokens /\ store'[t] = store[t]
    BY <2>1 DEF RevokeExecutes
  <2>3. Due(t)
    BY <2>2 DEF Due
  <2>4. t \in call[c].tokens
    BY <2>3 DEF IInv, RevocationsReachDue, RevokeExecutes
  <2> QED
    BY <2>2, <2>4
<1> QED
  BY <1>1, AdapterInvariant, PTL DEF RevocationsComplete

-----------------------------------------------------------------------------
\* The state of a token follows from its two fields.
LEMMA StatesOfTokens ==
    ASSUME TypeOK, NEW t \in Tokens
    PROVE  /\ StateOf(t) \in {"used", "marked"} <=> store[t].consumed
           /\ StateOf(t) \in {"used", "live"} <=> store[t].payload
           /\ StateOf(t) \in {"absent", "live", "used", "marked"}
  BY TypeParts DEF StateOf

\* A block that is run stores its token, marked if it was marked before.
LEMMA UpsertIsStore ==
    ASSUME IInv, NEW c \in Calls, UpsertExecutes(c)
    PROVE  Contract!Store(call[c].token)
<1> DEFINE u == call[c]
<1>1. /\ TypeOK /\ OnlyConsumablesConsumed /\ u.kind = "upsert" /\ u.token \in Tokens
      /\ store' = [store EXCEPT ![u.token] = Written(u)] /\ call' = [call EXCEPT ![c] = Idle]
  BY TypeParts, CallFields DEF IInv, UpsertExecutes
<1>t. PICK t \in Tokens : t = call[c].token
  BY <1>1
<1>2. /\ call'[c] = Idle /\ \A d \in Calls : d # c => call'[d] = call[d]
  BY <1>1, CallReplaced
<1>3. t \in BeingStored
  BY <1>1, <1>t DEF BeingStored
<1>4. BeingStored' \in {BeingStored, BeingStored \ {t}}
  <2>1. Idle.kind # "upsert"
    BY DEF Idle
  <2>2. \A s \in Tokens : s # t => (s \in BeingStored' <=> s \in BeingStored)
    BY <1>2, <1>t, <2>1 DEF BeingStored
  <2>3. BeingStored' \subseteq Tokens /\ BeingStored \subseteq Tokens
    BY DEF BeingStored
  <2>4. CASE t \in BeingStored'
    BY <1>3, <2>2, <2>3, <2>4
  <2>5. CASE t \notin BeingStored'
    BY <1>3, <2>2, <2>3, <2>5
  <2> QED
    BY <2>4, <2>5
<1>5. \A s \in Tokens : s # t => StateOf(s)' = StateOf(s)
  BY <1>1, <1>t, TypeParts DEF StateOf
<1>6. StateOf(t)' = IF StateOf(t) \in {"used", "marked"} THEN "used" ELSE "live"
  <2>1. store'[t] = Written(u)
    BY <1>1, <1>t, TypeParts
  <2>2. Written(u).payload /\ (Written(u).consumed <=> t \in Consumable /\ store[t].consumed)
    BY <1>t, Zenon DEF Written
  <2>3. store[t].consumed <=> store'[t].consumed
    BY <1>1, <2>1, <2>2 DEF OnlyConsumablesConsumed
  <2>4. StateOf(t)' = IF store'[t].consumed THEN "used" ELSE "live"
    BY <2>1, <2>2 DEF StateOf
  <2>5. store[t].consumed <=> StateOf(t) \in {"used", "marked"}
    BY <1>1, StatesOfTokens
  <2> QED
    BY <2>3, <2>4, <2>5
<1>7. [s \in Tokens |-> StateOf(s)]'
        = [[s \in Tokens |-> StateOf(s)] EXCEPT
            ![t] = IF @ \in {"used", "marked"} THEN "used" ELSE "live"]
  BY <1>1, <1>5, <1>6
<1> QED
  BY <1>t, <1>3, <1>4, <1>7 DEF Contract!Store

\* The other calls move no token to a state it may not come to.
LEMMA ConsumeIsUse ==
    ASSUME TypeOK, NEW t \in Tokens, Consume(t)
    PROVE  Contract!Use(t)
<1>1. /\ t \in Consumable /\ call' = call
      /\ store' = [store EXCEPT ![t].consumed = TRUE,
                                ![t].exp = IF @ = NoKey THEN NoExpiry ELSE @]
  BY DEF Consume
<1>2. /\ store'[t].consumed /\ (store'[t].payload <=> store[t].payload)
      /\ \A s \in Tokens : s # t => store'[s] = store[s]
  BY <1>1, TypeParts
<1>3. StateOf(t)' = IF StateOf(t) \in {"used", "live"} THEN "used" ELSE "marked"
  <2>1. StateOf(t)' = IF store[t].payload THEN "used" ELSE "marked"
    BY <1>2 DEF StateOf
  <2> QED
    BY <2>1, StatesOfTokens
<1>4. \A s \in Tokens : s # t => StateOf(s)' = StateOf(s)
  BY <1>2 DEF StateOf
<1>5. [s \in Tokens |-> StateOf(s)]'
        = [[s \in Tokens |-> StateOf(s)] EXCEPT
            ![t] = IF @ \in {"used", "live"} THEN "used" ELSE "marked"]
  BY <1>3, <1>4
<1>6. BeingStored' = BeingStored
  BY <1>1 DEF BeingStored
<1> QED
  BY <1>1, <1>5, <1>6 DEF Contract!Use

LEMMA KeysGoneIsRemove ==
    ASSUME NEW gone \in SUBSET Tokens,
           \A t \in Tokens : store'[t] = IF t \in gone THEN NoToken ELSE store[t],
           BeingStored' = BeingStored
    PROVE  Contract!Remove(gone)
<1>1. ~NoToken.payload /\ ~NoToken.consumed
  BY Zenon DEF NoToken
<1>2. \A t \in Tokens : StateOf(t)' = IF t \in gone THEN "absent" ELSE StateOf(t)
  BY <1>1 DEF StateOf
<1>3. [t \in Tokens |-> StateOf(t)]'
        = [t \in Tokens |-> IF t \in gone THEN "absent" ELSE [s \in Tokens |-> StateOf(s)][t]]
  BY <1>2
<1> QED
  BY <1>3 DEF Contract!Remove

\* A call that begins or is lost changes only who is about to store what.
LEMMA CallsAsk ==
    ASSUME TypeOK, store' = store, NEW c \in Calls, NEW u, call' = [call EXCEPT ![c] = u]
    PROVE  /\ [t \in Tokens |-> StateOf(t)]' = [t \in Tokens |-> StateOf(t)]
           /\ u.kind = "upsert" /\ u.token \in Tokens /\ call[c].kind # "upsert"
                => Contract!Ask(u.token)
           /\ u.kind # "upsert" /\ call[c].kind = "upsert" /\ call[c].token \in Tokens
                => Contract!GiveUp(call[c].token) \/ BeingStored' = BeingStored
           /\ u.kind # "upsert" /\ call[c].kind # "upsert" => BeingStored' = BeingStored
<1>1. call'[c] = u /\ \A d \in Calls : d # c => call'[d] = call[d]
  BY CallReplaced
<1>2. [t \in Tokens |-> StateOf(t)]' = [t \in Tokens |-> StateOf(t)]
  BY DEF StateOf
<1>3. ASSUME u.kind = "upsert", u.token \in Tokens, call[c].kind # "upsert"
      PROVE  Contract!Ask(u.token)
  <2>1. BeingStored' = BeingStored \cup {u.token}
    BY <1>1, <1>3 DEF BeingStored
  <2> QED
    BY <1>2, <2>1 DEF Contract!Ask
<1>4. ASSUME u.kind # "upsert", call[c].kind = "upsert", call[c].token \in Tokens
      PROVE  Contract!GiveUp(call[c].token) \/ BeingStored' = BeingStored
  <2>1. \A t \in Tokens : t # call[c].token => (t \in BeingStored' <=> t \in BeingStored)
    BY <1>1, <1>4 DEF BeingStored
  <2>2. call[c].token \in BeingStored
    BY <1>4 DEF BeingStored
  <2>3. BeingStored' \subseteq Tokens /\ BeingStored \subseteq Tokens
    BY DEF BeingStored
  <2>4. CASE call[c].token \in BeingStored'
    BY <2>1, <2>2, <2>3, <2>4
  <2>5. CASE call[c].token \notin BeingStored'
    <3>1. BeingStored' = BeingStored \ {call[c].token}
      BY <2>1, <2>3, <2>5
    <3> QED
      BY <1>2, <3>1 DEF Contract!GiveUp
  <2> QED
    BY <2>4, <2>5
<1>5. ASSUME u.kind # "upsert", call[c].kind # "upsert" PROVE BeingStored' = BeingStored
  BY <1>1, <1>5 DEF BeingStored
<1> QED
  BY <1>2, <1>3, <1>4, <1>5

\* Each call of the adapter is a step of the store, or of nobody.
LEMMA StepOfTheStore == IInv /\ [Next]_vars => [Contract!StoreNext]_Contract!storeVars
<1> SUFFICES ASSUME IInv, [Next]_vars
             PROVE  Contract!StoreNext \/ Contract!storeVars' = Contract!storeVars
  OBVIOUS
<1>0. TypeOK /\ OnlyConsumablesConsumed /\ Idle.kind = "idle"
  BY DEF IInv, Idle
<1>1. ASSUME NEW c \in Calls, NEW t \in Tokens, NEW e \in Lifetimes, UpsertAsks(c, t, e)
      PROVE  Contract!Ask(t)
  <2> DEFINE u == [kind |-> "upsert", token |-> t, expiresIn |-> e, ttl |-> GrantTtl, asked |-> now]
  <2>1. u.kind = "upsert" /\ u.token = t
    OBVIOUS
  <2>2. store' = store /\ call' = [call EXCEPT ![c] = u] /\ call[c].kind # "upsert"
    BY <1>0, <1>1 DEF UpsertAsks
  <2> HIDE DEF u
  <2> QED
    BY <1>0, <2>1, <2>2, CallsAsk
<1>2. ASSUME NEW c \in Calls, UpsertExecutes(c)
      PROVE  Contract!Store(call[c].token) /\ call[c].token \in Tokens
  BY <1>0, <1>2, UpsertIsStore, TypeParts, CallFields DEF UpsertExecutes
<1>3. ASSUME NEW c \in Calls, RevokeReads(c)
      PROVE  Contract!storeVars' = Contract!storeVars
  <2> DEFINE r == [kind |-> "revoke", tokens |-> grant.members, asked |-> now]
  <2>1. r.kind # "upsert"
    OBVIOUS
  <2>2. store' = store /\ call' = [call EXCEPT ![c] = r] /\ call[c].kind # "upsert"
    BY <1>0, <1>3 DEF RevokeReads
  <2> HIDE DEF r
  <2> QED
    BY <1>0, <2>1, <2>2, CallsAsk DEF Contract!storeVars
<1>4. ASSUME NEW c \in Calls, RevokeExecutes(c)
      PROVE  \E gone \in SUBSET Tokens : Contract!Remove(gone)
  <2>1. /\ call[c].kind = "revoke" /\ call' = [call EXCEPT ![c] = Idle]
        /\ call[c].tokens \in SUBSET Tokens
        /\ \A t \in Tokens : store'[t] = IF t \in call[c].tokens THEN NoToken ELSE store[t]
    BY <1>0, <1>4, TypeParts, CallFields DEF RevokeExecutes
  <2>2. call'[c] = Idle /\ \A d \in Calls : d # c => call'[d] = call[d]
    BY <1>0, <2>1, CallReplaced
  <2>3. BeingStored' = BeingStored
    BY <1>0, <2>1, <2>2 DEF BeingStored
  <2> QED
    BY <2>1, <2>3, KeysGoneIsRemove
<1>5. ASSUME NEW c \in Calls, CallLost(c)
      PROVE  (\E t \in Tokens : Contract!GiveUp(t)) \/ Contract!storeVars' = Contract!storeVars
  <2>1. store' = store /\ call' = [call EXCEPT ![c] = Idle]
    BY <1>5 DEF CallLost
  <2>2. call[c].kind = "upsert" => call[c].token \in Tokens
    BY <1>0, TypeParts, CallFields
  <2> QED
    BY <1>0, <2>1, <2>2, CallsAsk DEF Contract!storeVars
<1>6. ASSUME NEW t \in Tokens, Destroy(t)
      PROVE  Contract!Remove({t})
  <2>1. /\ BeingStored' = BeingStored
        /\ \A s \in Tokens : store'[s] = IF s \in {t} THEN NoToken ELSE store[s]
    BY <1>0, <1>6, TypeParts DEF Destroy, BeingStored
  <2> QED
    BY <2>1, KeysGoneIsRemove
<1>7. ASSUME Tick
      PROVE  \E gone \in SUBSET Tokens : Contract!Remove(gone)
  <2> DEFINE gone == {t \in Tokens : Expired(store[t].exp)}
  <2>1. /\ BeingStored' = BeingStored /\ gone \in SUBSET Tokens
        /\ \A t \in Tokens : store'[t] = IF t \in gone THEN NoToken ELSE store[t]
    BY <1>7 DEF Tick, BeingStored
  <2> HIDE DEF gone
  <2> QED
    BY <2>1, KeysGoneIsRemove
<1>8. ASSUME UNCHANGED vars
      PROVE  Contract!storeVars' = Contract!storeVars
  BY <1>8 DEF vars, Contract!storeVars, StateOf, BeingStored
<1>9. \A t \in Tokens : Consume(t) => Contract!Use(t)
  BY <1>0, ConsumeIsUse
<1> QED
  BY <1>1, <1>2, <1>3, <1>4, <1>5, <1>6, <1>7, <1>8, <1>9 DEF Next, Contract!StoreNext

\* The adapter implements the store the provider relies on: with round trips
\* that other calls run in between, with expiry, and with calls that are lost.
THEOREM AdapterIsATokenStore == Spec => ImplementsTokenStore
<1>1. Init => Contract!StoreInit
  <2> SUFFICES ASSUME Init PROVE Contract!StoreInit
    OBVIOUS
  <2>1. ~NoToken.payload /\ ~NoToken.consumed /\ Idle.kind # "upsert"
    BY Zenon DEF NoToken, Idle
  <2>2. \A t \in Tokens : StateOf(t) = "absent"
    BY <2>1 DEF Init, StateOf
  <2>3. BeingStored = {}
    BY <2>1 DEF Init, BeingStored
  <2> QED
    BY <2>2, <2>3 DEF Contract!StoreInit
<1> QED
  BY <1>1, StepOfTheStore, AdapterInvariant, PTL
  DEF Spec, ImplementsTokenStore, Contract!StoreSpec

-----------------------------------------------------------------------------
\* The index key of a token that is due has the expiry it was written with.
IndexAsToken ==
    \A t \in Tokens : Due(t) =>
        store[t].exp \in Nat /\ (t \in Coded => index[t] = store[t].exp)

IndexInv ==
    /\ index \in [Tokens -> {NoKey} \cup Nat]
    /\ IndexAsToken

-----------------------------------------------------------------------------
\* A step of the indexed adapter is a step of the adapter or leaves it alone.
LEMMA IndexStep == [IndexNext]_indexVars => [Next]_vars
  BY DEF IndexNext, indexVars, UpsertIndexes, TickIndexes, OtherCall, Next

\* The indexed adapter implements the adapter of RedisAdapter.
THEOREM IndexImplementsAdapter == IndexSpec => Spec
<1>1. IndexInit => Init
  BY DEF IndexInit
<1> QED
  BY <1>1, IndexStep, PTL DEF IndexSpec, Spec

\* One key is written, the others stay; a token that is due after its block was
\* stored for some seconds, and its key for as many.
LEMMA OneIndexed ==
    ASSUME index \in [Tokens -> {NoKey} \cup Nat], IInv,
           NEW c \in Calls, UpsertIndexes(c)
    PROVE  /\ call[c].token \in Tokens
           /\ index' \in [Tokens -> {NoKey} \cup Nat]
           /\ \A t \in Tokens : t # call[c].token => index'[t] = index[t] /\ store'[t] = store[t]
           /\ \A t \in Tokens : t = call[c].token /\ Due(t)' =>
                store'[t].exp \in Nat /\ (t \in Coded => index'[t] = store'[t].exp)
<1> DEFINE u == call[c]
<1>1. TypeOK /\ TripsAreShort /\ now \in Nat
  BY TypeParts DEF IInv
<1>2. u.kind = "upsert" /\ now' = now /\ store' = [store EXCEPT ![u.token] = Written(u)]
  BY <1>1, TypeParts DEF UpsertIndexes, UpsertExecutes
<1>3. u.token \in Tokens /\ u.expiresIn \in Nat /\ u.asked \in Nat
  BY <1>1, <1>2, TypeParts, CallFields, Lifetime
<1>4. u.asked <= now
  BY <1>1, <1>2 DEF TripsAreShort, InFlight, Idle
<1>5. IndexedUntil(u) \in {NoKey} \cup Nat
  BY <1>1, <1>3 DEF IndexedUntil
<1>6. index' = Indexed(u)
  BY DEF UpsertIndexes
<1>7. store'[u.token] = Written(u) /\ \A t \in Tokens : t # u.token => store'[t] = store[t]
  BY <1>1, <1>2, <1>3, TypeParts
<1>8. index' \in [Tokens -> {NoKey} \cup Nat] /\ \A t \in Tokens : t # u.token => index'[t] = index[t]
  BY <1>3, <1>5, <1>6 DEF Indexed
<1>9. u.token \in Coded => index'[u.token] = IndexedUntil(u)
  BY <1>3, <1>6 DEF Indexed
<1>10. Written(u).exp = StoredUntil(u) /\ Written(u).due = u.asked + u.expiresIn
  BY DEF Written
<1>11. \A t \in Tokens : t = u.token /\ Due(t)' => u.expiresIn > 0
  BY <1>1, <1>2, <1>3, <1>4, <1>7, <1>10 DEF Due
<1>12. u.expiresIn > 0 => StoredUntil(u) = now + u.expiresIn /\ IndexedUntil(u) = now + u.expiresIn
  BY <1>3 DEF StoredUntil, IndexedUntil
<1> QED
  BY <1>1, <1>3, <1>7, <1>8, <1>9, <1>10, <1>11, <1>12

LEMMA IndexStays == IndexInv /\ IInv /\ [IndexNext]_indexVars => IndexInv'
<1> SUFFICES ASSUME IndexInv, IInv, [IndexNext]_indexVars PROVE IndexInv'
  OBVIOUS
<1>0. TypeOK /\ now \in Nat /\ ~NoToken.payload
  <2>1. ~NoToken.payload
    BY Zenon DEF NoToken
  <2> QED
    BY <2>1, TypeParts DEF IInv
<1> USE DEF IndexInv, IndexAsToken
<1>1. ASSUME NEW c \in Calls, UpsertIndexes(c) PROVE IndexInv'
  <2>1. index' \in [Tokens -> {NoKey} \cup Nat]
    BY <1>1, OneIndexed
  <2>2. ASSUME NEW t \in Tokens, Due(t)'
        PROVE  store'[t].exp \in Nat /\ (t \in Coded => index'[t] = store'[t].exp)
    <3>1. CASE t = call[c].token
      BY <1>1, <2>2, <3>1, OneIndexed
    <3>2. CASE t # call[c].token
      <4>1. store'[t] = store[t] /\ index'[t] = index[t] /\ now' = now
        BY <1>1, <3>2, OneIndexed DEF UpsertIndexes, UpsertExecutes
      <4>2. Due(t)
        BY <2>2, <4>1 DEF Due
      <4> QED
        BY <4>1, <4>2
    <3> QED
      BY <3>1, <3>2
  <2> QED
    BY <2>1, <2>2
<1>2. ASSUME TickIndexes PROVE IndexInv'
  <2>1. now' = now + 1
    BY <1>2 DEF TickIndexes, Tick
  <2>2. index' \in [Tokens -> {NoKey} \cup Nat]
    BY <1>2 DEF TickIndexes
  <2>3. ASSUME NEW t \in Tokens, Due(t)'
        PROVE  store'[t].exp \in Nat /\ (t \in Coded => index'[t] = store'[t].exp)
    <3>1. store'[t] = store[t] /\ ~Expired(store[t].exp)
      BY <1>0, <1>2, <2>3 DEF TickIndexes, Tick, Due
    <3>2. index'[t] = IF Expired(index[t]) THEN NoKey ELSE index[t]
      BY <1>2 DEF TickIndexes
    <3>3. Due(t)
      BY <1>0, <2>1, <2>3, <3>1, TypeParts DEF Due
    <3> QED
      BY <3>1, <3>2, <3>3
  <2> QED
    BY <2>2, <2>3
\* What is due after a call was so before, with the same expiry.
<1>3. ASSUME UNCHANGED <<index, now>>,
             \A t \in Tokens : store'[t].payload =>
                 /\ store[t].payload /\ store'[t].due = store[t].due
                 /\ store[t].exp \in Nat => store'[t].exp = store[t].exp
      PROVE  IndexInv'
  BY <1>3 DEF Due
<1>5. ASSUME OtherCall PROVE IndexInv'
  <2>1. UNCHANGED index
    BY <1>5 DEF OtherCall
  <2>2. ASSUME NEW c \in Calls, RevokeExecutes(c) PROVE IndexInv'
    BY <1>0, <1>3, <2>1, <2>2 DEF RevokeExecutes
  <2>3. ASSUME NEW t \in Tokens, Destroy(t) PROVE IndexInv'
    BY <1>0, <1>3, <2>1, <2>3, TypeParts DEF Destroy
  <2>4. ASSUME NEW t \in Tokens, Consume(t) PROVE IndexInv'
    <3>1. ASSUME NEW s \in Tokens, store'[s].payload
          PROVE  /\ store[s].payload /\ store'[s].due = store[s].due
                 /\ store[s].exp \in Nat => store'[s].exp = store[s].exp
      BY <1>0, <2>4, <3>1, TypeParts, Replies DEF Consume
    <3> QED
      BY <1>3, <2>1, <2>4, <3>1 DEF Consume
  <2>5. ASSUME NEW c \in Calls, \/ \E s \in Tokens, e \in Lifetimes : UpsertAsks(c, s, e)
                                \/ RevokeReads(c) \/ CallLost(c)
        PROVE  IndexInv'
    BY <1>3, <2>1, <2>5 DEF UpsertAsks, RevokeReads, CallLost
  <2> QED
    BY <1>5, <2>2, <2>3, <2>4, <2>5 DEF OtherCall
<1>6. CASE UNCHANGED indexVars
  BY <1>3, <1>6 DEF indexVars, vars
<1> QED
  BY <1>1, <1>2, <1>5, <1>6 DEF IndexNext

\* The index key of a token that is due expires with the token, in every reachable
\* state.
THEOREM IndexInvariant == IndexSpec => [](TypeOK /\ IndexInv)
<1>1. IndexInit => IndexInv
  <2> SUFFICES ASSUME IndexInit PROVE IndexInv
    OBVIOUS
  <2>1. ~NoToken.payload
    BY Zenon DEF NoToken
  <2>2. \A t \in Tokens : ~Due(t)
    BY <2>1 DEF IndexInit, Init, Due
  <2>3. index \in [Tokens -> {NoKey} \cup Nat]
    BY DEF IndexInit
  <2> QED
    BY <2>2, <2>3 DEF IndexInv, IndexAsToken
<1>2. IndexSpec => []IInv
  BY IndexImplementsAdapter, AdapterInvariant, PTL
<1>3. IInv => TypeOK
  BY DEF IInv
<1> QED
  BY <1>1, <1>2, <1>3, IndexStays, PTL DEF IndexSpec

\* Types of the adapter with its indexes.
THEOREM IndexTypeCorrect == IndexSpec => []IndexTypeOK
<1>1. TypeOK /\ IndexInv => IndexTypeOK
  BY DEF IndexInv, IndexTypeOK
<1> QED
  BY <1>1, IndexInvariant, PTL

\* upsert gives the index key the token's expiry in the same MULTI block, so the
\* user code or uid of a token that is due leads to it; and no grant list is without
\* expiry unless a revocation, or the list's own end, came inside an upsert.
THEOREM IndexesLastAsTokens == IndexSpec => []KeysFollowTokens
<1>1. TypeOK /\ IndexInv /\ ListsExpire => KeysFollowTokens
  <2> SUFFICES ASSUME IndexInv, ListsExpire, NEW t \in Coded, Find(t) = "found",
                      now < store[t].due
               PROVE  FindByCode(t) = "found"
    BY DEF KeysFollowTokens
  <2>1. t \in Tokens /\ Due(t)
    BY CodedAssumption DEF Find, Due
  <2>2. index[t] # NoKey
    BY <2>1, Replies DEF IndexInv, IndexAsToken
  <2> QED
    BY <2>2 DEF FindByCode
<1>2. IndexSpec => []ListsExpire
  BY IndexImplementsAdapter, ListsAlwaysExpire, PTL
<1> QED
  BY <1>1, <1>2, IndexInvariant, PTL

\* The promises of RedisAdapter hold of the adapter with its indexes.
THEOREM IndexedRevocationReaches == IndexSpec => []LiveTokensAreListed
  BY IndexImplementsAdapter, RevocationReachesTokens, PTL

\* No call but an upsert of the token makes find return it again.
THEOREM IndexedGoneStaysGone == IndexSpec => GoneStaysGone
  BY IndexImplementsAdapter, NoTokenComesBack

\* No call takes the mark off a consumed token that find still returns.
THEOREM IndexedConsumedForGood == IndexSpec => ConsumedStaysConsumed
  BY IndexImplementsAdapter, ConsumedForGood
\* With the indexes too, a finished revocation leaves nothing that is due.
THEOREM IndexedRevocationTakesAll == IndexSpec => RevocationsComplete
  BY IndexImplementsAdapter, RevocationTakesAll

\* The adapter with its indexes is a token store as well.
THEOREM IndexedAdapterIsATokenStore == IndexSpec => ImplementsTokenStore
  BY IndexImplementsAdapter, AdapterIsATokenStore
=============================================================================
