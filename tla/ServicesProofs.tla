--------------------------- MODULE ServicesProofs ---------------------------
(***************************************************************************)
(* Proofs about the processes of the sign-on application, for every number *)
(* of logins, every limit and every url.                                   *)
(***************************************************************************)
EXTENDS Services, TLAPS

\* While the limiter's count survives, it knows of every request let through.
CountedInRedis == UseRedis => passed <= used

\* From its migrations on identity has its tables, or they were taken from it.
MigratedBeforeBinding ==
    proc["identity"] \in {"binding", "serving"} => db.tables \/ renewed

IInv ==
    /\ TypeOK
    /\ CountedInRedis
    /\ MigratedBeforeBinding

-----------------------------------------------------------------------------
LEMMA InitInvariant == Init => IInv
<1> SUFFICES ASSUME Init PROVE IInv
  OBVIOUS
<1>1. TypeOK
  <2>1. db \in [state : {"up", "refusing", "silent"}, tables : BOOLEAN]
    BY DEF Init
  <2>2. proc \in [Processes -> Stages]
    BY DEF Init, Stages
  <2>3. login \in [Logins -> {"none"} \cup Waiting \cup Ended]
    BY DEF Init
  <2>4. redis \in {"up", "gone", "silent"} /\ renewed \in BOOLEAN /\ conf \in Setups
    BY Zenon DEF Init
  <2>5. used \in Nat /\ passed \in Nat /\ used <= RateLimit
    BY RateLimitAssumption DEF Init
  <2> QED
    BY <2>1, <2>2, <2>3, <2>4, <2>5, Zenon DEF TypeOK
<1>2. CountedInRedis
  BY DEF Init, CountedInRedis
<1>3. MigratedBeforeBinding
  BY DEF Init, MigratedBeforeBinding, Processes
<1> QED
  BY <1>1, <1>2, <1>3 DEF IInv

\* One process enters a stage, the others stay.
LEMMA Entered ==
    ASSUME TypeOK, NEW s \in Processes, NEW stage \in Stages, Enter(s, stage)
    PROVE  /\ proc' \in [Processes -> Stages]
           /\ proc'[s] = stage
           /\ \A p \in Processes : p # s => proc'[p] = proc[p]
  BY DEF TypeOK, Enter

LEMMA Gone ==
    ASSUME TypeOK, NEW r \in Logins, NEW stage \in Waiting \cup Ended, Go(r, stage)
    PROVE  login' \in [Logins -> {"none"} \cup Waiting \cup Ended]
  BY DEF TypeOK, Go

\* What a step of a process leaves alone keeps the invariant.
LEMMA ProcessStep ==
    ASSUME IInv, UNCHANGED <<conf, db, redis, login, used, passed, renewed>>,
           proc' \in [Processes -> Stages],
           proc'["identity"] \in {"binding", "serving"}
               => proc["identity"] \in {"binding", "serving"}
    PROVE  IInv'
  BY DEF IInv, TypeOK, CountedInRedis, MigratedBeforeBinding, UseRedis

\* A step of a request that lets nothing through.
LEMMA RequestStep ==
    ASSUME IInv, NEW r \in Logins, NEW from, NEW to \in Waiting \cup Ended, Goes(r, from, to)
    PROVE  IInv'
<1>1. login' \in [Logins -> {"none"} \cup Waiting \cup Ended]
  BY Gone DEF Goes, IInv
<1> QED
  BY <1>1 DEF Goes, IInv, TypeOK, CountedInRedis, MigratedBeforeBinding, UseRedis

LEMMA StartsStep ==
    ASSUME IInv,
           \/ \E s \in Processes : Start(s)
           \/ IdentityConnects \/ IdentityBinds \/ NotificationsStarts \/ SsoStarts \/ SsoFails
    PROVE  IInv'
<1> USE DEF IInv
<1>1. {"starting", "migrating", "binding", "serving", "stranded", "down"} \subseteq Stages
  BY DEF Stages
<1>2. {"sso", "identity", "notifications"} = Processes
  BY DEF Processes
<1>3. ASSUME NEW s \in Processes, NEW stage \in Stages, Enter(s, stage),
             UNCHANGED <<conf, db, redis, login, used, passed, renewed>>,
             stage \in {"binding", "serving"} =>
                 s # "identity" \/ proc["identity"] \in {"binding", "serving"}
      PROVE  IInv'
  <2>1. /\ proc' \in [Processes -> Stages] /\ proc'[s] = stage
        /\ \A p \in Processes : p # s => proc'[p] = proc[p]
    BY <1>3, Entered
  <2>2. "identity" \in Processes
    BY <1>2
  <2> QED
    BY <1>3, <2>1, <2>2, ProcessStep
<1>4. ASSUME NEW s \in Processes, StartFails(s) PROVE IInv'
  <2>1. PICK stage \in {"down", "stranded"} : Enter(s, stage)
    BY <1>4 DEF StartFails, Enter
  <2> QED
    BY <1>1, <1>3, <1>4, <2>1 DEF StartFails
<1>5. ASSUME NEW s \in Processes, Start(s) PROVE IInv'
  BY <1>1, <1>3, <1>5 DEF Start
<1>6. CASE IdentityConnects
  BY <1>1, <1>2, <1>3, <1>4, <1>6 DEF IdentityConnects
<1>7. CASE IdentityBinds
  BY <1>1, <1>2, <1>3, <1>4, <1>7 DEF IdentityBinds
<1>8. CASE NotificationsStarts
  BY <1>1, <1>2, <1>3, <1>4, <1>8 DEF NotificationsStarts
<1>9. CASE SsoStarts
  BY <1>1, <1>2, <1>3, <1>9 DEF SsoStarts
<1>10. CASE SsoFails
  BY <1>1, <1>2, <1>3, <1>10 DEF SsoFails
<1> QED
  BY <1>5, <1>6, <1>7, <1>8, <1>9, <1>10

\* The migrations make the tables before identity goes on to bind.
LEMMA MigrationStep ==
    ASSUME IInv, IdentityMigrates
    PROVE  IInv'
<1>1. CASE db.state = "up"
  <2>1. Enter("identity", "binding") /\ db' = [db EXCEPT !.tables = TRUE]
        /\ renewed' = FALSE /\ UNCHANGED <<conf, redis, login, used, passed>>
    BY <1>1 DEF IdentityMigrates
  <2>2. proc' \in [Processes -> Stages]
    BY <2>1, Entered DEF IInv, Processes, Stages
  <2> QED
    BY <2>1, <2>2 DEF IInv, TypeOK, CountedInRedis, MigratedBeforeBinding, UseRedis
<1>2. CASE db.state # "up"
  <2>1. StartFails("identity")
    BY <1>2 DEF IdentityMigrates
  <2>2. PICK stage \in {"down", "stranded"} : Enter("identity", stage)
    BY <2>1 DEF StartFails, Enter
  <2>3. proc' \in [Processes -> Stages] /\ proc'["identity"] = stage
    BY <2>2, Entered DEF IInv, Processes, Stages
  <2> QED
    BY <2>1, <2>3, ProcessStep DEF StartFails
<1> QED
  BY <1>1, <1>2

LEMMA FaultsStep ==
    ASSUME IInv,
           \/ \E s \in Processes : Dies(s)
           \/ DbChanges \/ DbReplaced \/ RedisChanges \/ WindowPasses
    PROVE  IInv'
<1> USE DEF IInv, TypeOK, CountedInRedis, MigratedBeforeBinding, UseRedis
<1>1. ASSUME NEW s \in Processes, Dies(s) PROVE IInv'
  <2>1. \A r \in Logins : AfterDeath(s, login[r]) \in {"none"} \cup Waiting \cup Ended
    BY DEF AfterDeath, Ended
  <2>2. proc' \in [Processes -> Stages]
        /\ (proc'["identity"] \in {"binding", "serving"} => proc'["identity"] = proc["identity"])
    BY <1>1, Entered DEF Dies, Processes, Stages
  <2>3. used' \in Nat /\ used' <= RateLimit /\ (UseRedis => used' = used)
    BY <1>1, RateLimitAssumption DEF Dies, LimiterInRedis
  <2> QED
    BY <1>1, <2>1, <2>2, <2>3 DEF Dies
<1>2. CASE DbChanges
  BY <1>2 DEF DbChanges
<1>3. CASE DbReplaced
  BY <1>3 DEF DbReplaced
<1>4. CASE RedisChanges
  BY <1>4 DEF RedisChanges
<1>5. CASE WindowPasses
  BY <1>5, RateLimitAssumption DEF WindowPasses
<1> QED
  BY <1>1, <1>2, <1>3, <1>4, <1>5

LEMMA LoginStep ==
    ASSUME IInv, NEW r \in Logins, Post(r) \/ Handles(r)
    PROVE  IInv'
<1>1. {"limiting", "finding", "looking", "found", "sending", "texting"} = Waiting
      /\ {"tooMany", "useHttps", "notFound", "codePage", "error", "cut"} = Ended
  BY DEF Waiting, Ended
<1>2. CASE LimitPasses(r)
  <2>1. AfterGate(r) \in Waiting \cup Ended
    BY <1>1 DEF AfterGate
  <2>2. login' \in [Logins -> {"none"} \cup Waiting \cup Ended]
    BY <1>2, <2>1, Gone DEF LimitPasses, IInv
  <2> QED
    BY <1>2, <2>2, RateLimitAssumption
       DEF LimitPasses, IInv, TypeOK, CountedInRedis, MigratedBeforeBinding, UseRedis
<1>3. CASE RedisMissing(r)
  <2>1. login' \in [Logins -> {"none"} \cup Waiting \cup Ended]
    BY <1>1, <1>3, Gone DEF RedisMissing, IInv
  <2>2. used' \in Nat /\ used <= used' /\ used' <= RateLimit
    BY <1>3, RateLimitAssumption DEF RedisMissing, IInv, TypeOK
  <2> QED
    BY <1>3, <2>1, <2>2
       DEF RedisMissing, IInv, TypeOK, CountedInRedis, MigratedBeforeBinding, UseRedis
<1>4. PICK from, to : \/ Goes(r, from, to) /\ to \in Waiting \cup Ended
                      \/ LimitPasses(r) \/ RedisMissing(r)
  BY <1>1 DEF Post, Handles, LimitRefuses, AsksProfile, Looks, AsksCode, Sends, Texts
<1> QED
  BY <1>2, <1>3, <1>4, RequestStep

\* The invariant holds in every reachable state.
THEOREM ServicesInvariant == Spec => []IInv
<1>1. IInv /\ [Next]_vars => IInv'
  <2>1. IInv /\ UNCHANGED vars => IInv'
    BY DEF vars, IInv, TypeOK, CountedInRedis, MigratedBeforeBinding, UseRedis
  <2> QED
    BY <2>1, StartsStep, MigrationStep, FaultsStep, LoginStep DEF Next
<1> QED
  BY <1>1, InitInvariant, PTL DEF Spec

\* Types, for every set of logins and every limit.
THEOREM TypeCorrect == Spec => []TypeOK
<1>1. IInv => TypeOK
  BY DEF IInv
<1> QED
  BY <1>1, ServicesInvariant, PTL

\* With the Redis driver no death or restart of sso opens the limit of a window.
THEOREM LimitSurvivesRestarts == Spec => []LimitHolds
<1>1. IInv => LimitHolds
  <2> SUFFICES ASSUME IInv, UseRedis PROVE passed <= RateLimit
    BY DEF LimitHolds
  <2>1. passed \in Nat /\ used \in Nat /\ RateLimit \in Nat /\ passed <= used /\ used <= RateLimit
    BY RateLimitAssumption DEF IInv, TypeOK, CountedInRedis
  <2> QED
    BY <2>1
<1> QED
  BY <1>1, ServicesInvariant, PTL

\* identity binds after its migrations: it never serves on a database without
\* tables, but one that was put in place of its own.
THEOREM IdentityServesOnItsTables == Spec => []ServesOnItsTables
<1>1. IInv => ServesOnItsTables
  BY DEF IInv, MigratedBeforeBinding, ServesOnItsTables, Serves
<1> QED
  BY <1>1, ServicesInvariant, PTL
=============================================================================
