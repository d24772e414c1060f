------------------------------ MODULE Services ------------------------------
(***************************************************************************)
(* The processes of the sign-on application as they start, fail and serve: *)
(* sso, identity, notifications and the two stores.  A login request       *)
(* passes through sso's middleware and then walks sso -> identity ->       *)
(* notifications by gRPC calls that have no deadline.  The stores and the  *)
(* gRPC channels are external: a call to a process that does not serve     *)
(* fails at once, and so does a call whose callee dies.                    *)
(***************************************************************************)
EXTENDS Naturals

CONSTANTS
    Logins,     \* POST /interaction/:uid/login requests from one address
    Known,      \* those with the email of a user
    Plain,      \* those sent over http
    UrlParams,  \* the sets of parameters POSTGRES_URL may end with
    RateLimit   \* `max`: requests of one address in one window

ASSUME LoginsAssumption == Known \subseteq Logins /\ Plain \subseteq Logins
ASSUME RateLimitAssumption == RateLimit \in Nat

VARIABLES
    conf,    \* how the services are set up; it never changes
    db,      \* the identity database
    redis,   \* is Redis there, and does it answer?
    proc,    \* the stage each process is in
    login,   \* the stage each request is in
    used,    \* requests the limiter holds against the address in this window
    passed,  \* history: requests the limiter let through in this window
    renewed  \* history: the database was replaced since identity migrated it

vars == <<conf, db, redis, proc, login, used, passed, renewed>>

Processes == {"sso", "identity", "notifications"}
Stages == {"new", "starting", "migrating", "binding", "serving", "stranded", "down"}
Waiting == {"limiting", "finding", "looking", "found", "sending", "texting"}
Ended == {"tooMany", "useHttps", "notFound", "codePage", "error", "cut"}

\* compose: run by docker-compose, or by hand on one host; useRedis, params and
\* production: the environment variables; keys: the file of sso's keys is there
\* (outside production they are in the repository); tls: the database insists on
\* TLS.
Setups ==
    {c \in [compose : BOOLEAN, production : BOOLEAN, useRedis : BOOLEAN,
            keys : BOOLEAN, params : UrlParams, tls : BOOLEAN] :
        /\ c.compose => c.useRedis
        /\ ~c.production => c.keys}

TypeOK ==
    /\ conf \in Setups
    /\ db \in [state : {"up", "refusing", "silent"}, tables : BOOLEAN]
    /\ redis \in {"up", "gone", "silent"}
    /\ proc \in [Processes -> Stages]
    /\ login \in [Logins -> {"none"} \cup Waiting \cup Ended]
    /\ used \in Nat /\ passed \in Nat /\ used <= RateLimit
    /\ renewed \in BOOLEAN

Init ==
    /\ conf \in Setups
    /\ db = [state |-> "up", tables |-> FALSE]
    /\ redis = "up"
    /\ proc = [s \in Processes |-> "new"]
    /\ login = [r \in Logins |-> "none"]
    /\ used = 0 /\ passed = 0
    /\ renewed = FALSE

Serves(s) == proc[s] = "serving"
Enter(s, stage) == proc' = [proc EXCEPT ![s] = stage]
Go(r, stage) == login' = [login EXCEPT ![r] = stage]

\* `USE_REDIS: IS_PRODUCTION || USE_REDIS === "true"`.
UseRedis == conf.production \/ conf.useRedis

\* require of the keys throws while sso is loaded, before there is a catch.
KeysFound == conf.keys

\* ssl=true and sslmode=require both ask for TLS; no other parameter takes it back.
SslAsked(params) == \E p \in params : p \in {"ssl=true", "sslmode=require"}

\* Connecting neither creates, drops nor migrates anything, and asks for TLS as
\* the url says; the server takes the connection when that suits it.
ConnectionTaken == db.state = "up" /\ SslAsked(conf.params) = conf.tls

\* The clients dial localhost, which in a container is the container itself.
ReachesIdentity == Serves("identity") /\ ~conf.compose
ReachesNotifications == Serves("notifications") /\ ~conf.compose

-----------------------------------------------------------------------------
(* Starting.                                                                *)

\* Somebody starts what is not running: `docker-compose up`, or `yarn start`.
Start(s) ==
    /\ proc[s] \in {"new", "down"}
    /\ Enter(s, "starting")
    /\ UNCHANGED <<conf, db, redis, login, used, passed, renewed>>

\* A promise of startServer that is rejected is handled by nobody.  The process
\* ends, or stays without a server: nodemon keeps the container, the pool the
\* process.
StartFails(s) ==
    /\ proc' \in {[proc EXCEPT ![s] = stage] : stage \in {"down", "stranded"}}
    /\ UNCHANGED <<conf, db, redis, login, used, passed, renewed>>

IdentityConnects ==
    /\ proc["identity"] = "starting"
    /\ db.state # "silent"
    /\ IF ConnectionTaken
       THEN /\ Enter("identity", "migrating")
            /\ UNCHANGED <<conf, db, redis, login, used, passed, renewed>>
       ELSE StartFails("identity")

\* A mistake: bindAsync not made to wait for the migrations.
IdentityMigratesLater ==
    /\ proc["identity"] = "migrating"
    /\ Enter("identity", "binding")
    /\ UNCHANGED <<conf, db, redis, login, used, passed, renewed>>

\* runMigrations: the tables are created if they are not there.
IdentityMigrates ==
    /\ proc["identity"] = "migrating"
    /\ db.state # "silent"
    /\ IF db.state = "up"
       THEN /\ Enter("identity", "binding")
            /\ db' = [db EXCEPT !.tables = TRUE]
            /\ renewed' = FALSE
            /\ UNCHANGED <<conf, redis, login, used, passed>>
       ELSE StartFails("identity")

\* A bindAsync error is logged, and no server is started.
IdentityBinds ==
    /\ proc["identity"] = "binding"
    /\ \/ /\ Enter("identity", "serving")
          /\ UNCHANGED <<conf, db, redis, login, used, passed, renewed>>
       \/ StartFails("identity")

NotificationsStarts ==
    /\ proc["notifications"] = "starting"
    /\ \/ /\ Enter("notifications", "serving")
          /\ UNCHANGED <<conf, db, redis, login, used, passed, renewed>>
       \/ StartFails("notifications")

\* sso waits for nothing: ioredis and gRPC connect in the background.
SsoStarts ==
    /\ proc["sso"] = "starting"
    /\ KeysFound
    /\ Enter("sso", "serving")
    /\ UNCHANGED <<conf, db, redis, login, used, passed, renewed>>

\* No keys; or the Provider refuses the configuration, and the catch sets an exit
\* code, but a Redis client opened before keeps the process.
SsoFails ==
    /\ proc["sso"] = "starting"
    /\ Enter("sso", IF KeysFound /\ UseRedis THEN "stranded" ELSE "down")
    /\ UNCHANGED <<conf, db, redis, login, used, passed, renewed>>

\* Somebody replaces the container of the database, as identity/README.md says
\* to: no table is left, and nothing makes identity migrate again.
DbReplaced ==
    /\ db' = [state |-> "up", tables |-> FALSE]
    /\ renewed' = TRUE
    /\ UNCHANGED <<conf, redis, proc, login, used, passed>>

\* The database comes, goes, or takes a query and never answers.
DbChanges ==
    /\ \E state \in {"up", "refusing", "silent"} : db' = [db EXCEPT !.state = state]
    /\ UNCHANGED <<conf, redis, proc, login, used, passed, renewed>>

\* Redis is lost and found with what it holds, or takes commands and never
\* answers.
RedisChanges ==
    /\ redis' \in {"up", "gone", "silent"}
    /\ UNCHANGED <<conf, db, proc, login, used, passed, renewed>>

\* A mistake: the memory driver whatever the configuration.
LimiterInMemory == FALSE

\* The limiter's driver: what it counted survives sso, or does not.
LimiterInRedis == UseRedis

\* A mistake: calls that are never told that their callee died.
CallsLeftPending(s, stage) == IF s = "sso" /\ stage \in Waiting THEN "cut" ELSE stage

\* Where a request goes when a process on its way dies: a call that breaks off
\* fails.  findByLogin's failure is caught, sendPasswordlessCode's is a 500.
AfterDeath(s, stage) ==
    CASE s = "sso" /\ stage \in Waiting -> "cut"
      [] s = "identity" /\ stage = "looking" -> "notFound"
      [] s = "identity" /\ stage \in {"sending", "texting"} -> "error"
      [] s = "notifications" /\ stage = "texting" -> "error"
      [] OTHER -> stage

Dies(s) ==
    /\ proc[s] \notin {"new", "down"}
    /\ Enter(s, "down")
    /\ login' = [r \in Logins |-> AfterDeath(s, login[r])]
    /\ used' = IF s = "sso" /\ ~LimiterInRedis THEN 0 ELSE used
    /\ UNCHANGED <<conf, db, redis, passed, renewed>>

WindowPasses ==
    /\ used' = 0
    /\ passed' = 0
    /\ UNCHANGED <<conf, db, redis, proc, login, renewed>>

-----------------------------------------------------------------------------
(* A login request.  sso is "serving" whenever one is in Waiting.           *)

\* From one stage to the next, whatever the services are.
Goes(r, from, to) ==
    /\ login[r] = from
    /\ Go(r, to)
    /\ UNCHANGED <<conf, db, redis, proc, used, passed, renewed>>

Post(r) == Serves("sso") /\ Goes(r, "none", "limiting")

\* In production only https goes on, and a POST is not redirected.
AfterGate(r) == IF conf.production /\ r \in Plain THEN "useHttps" ELSE "finding"

\* A mistake: one request too many let through.
LimitPassesLate(r) ==
    /\ login[r] = "limiting"
    /\ UseRedis => redis = "up"
    /\ used <= RateLimit
    /\ used' = used + 1
    /\ passed' = passed + 1
    /\ Go(r, AfterGate(r))
    /\ UNCHANGED <<conf, db, redis, proc, renewed>>

\* The limiter comes first: it counts requests the https gate then refuses.
LimitPasses(r) ==
    /\ login[r] = "limiting"
    /\ UseRedis => redis = "up"
    /\ used < RateLimit
    /\ used' = used + 1
    /\ passed' = passed + 1
    /\ Go(r, AfterGate(r))
    /\ UNCHANGED <<conf, db, redis, proc, renewed>>

LimitRefuses(r) == used >= RateLimit /\ (UseRedis => redis = "up") /\ Goes(r, "limiting", "tooMany")

\* The store of the limiter, and then of the interaction, is not there; it may
\* have gone with the answer, after it counted the request.
RedisMissing(r) ==
    /\ UseRedis /\ redis = "gone"
    /\ login[r] \in {"limiting", "finding"}
    /\ \/ used' = used
       \/ login[r] = "limiting" /\ used < RateLimit /\ used' = used + 1
    /\ Go(r, "error")
    /\ UNCHANGED <<conf, db, redis, proc, passed, renewed>>

\* Account.findByLogin: its failure is shown as a misspelt address.
AsksProfile(r) ==
    /\ UseRedis => redis = "up"
    /\ Goes(r, "finding", IF ReachesIdentity THEN "looking" ELSE "notFound")

\* getUserProfile: a query that fails is an error as much as no user is.
Looks(r) ==
    /\ Serves("identity")
    /\ db.state # "silent"
    /\ Goes(r, "looking",
            IF db.state = "up" /\ db.tables /\ r \in Known THEN "found" ELSE "notFound")

AsksCode(r) == Goes(r, "found", IF ReachesIdentity THEN "sending" ELSE "error")

\* sendPasswordlessCode: the user is found again, then the text is sent.
Sends(r) ==
    /\ Serves("identity")
    /\ db.state # "silent"
    /\ Goes(r, "sending",
            IF db.state = "up" /\ db.tables /\ ReachesNotifications THEN "texting" ELSE "error")

\* Twilio's answer, or its timeout: the code page either way.
Texts(r) == Serves("notifications") /\ Goes(r, "texting", "codePage")

Handles(r) ==
    \/ LimitPasses(r) \/ LimitRefuses(r) \/ RedisMissing(r) \/ AsksProfile(r)
    \/ Looks(r) \/ AsksCode(r) \/ Sends(r) \/ Texts(r)

Next ==
    \/ \E s \in Processes : Start(s) \/ Dies(s)
    \/ IdentityConnects \/ IdentityMigrates \/ IdentityBinds
    \/ NotificationsStarts \/ SsoStarts \/ SsoFails
    \/ DbChanges \/ DbReplaced \/ RedisChanges \/ WindowPasses
    \/ \E r \in Logins : Post(r) \/ Handles(r)

Spec == Init /\ [][Next]_vars

\* Only the handling of a request that arrived is fair: nothing promises that a
\* process is started, that it stays up, or that the stores come back.
FairSpec == Spec /\ \A r \in Logins : WF_vars(Handles(r))

-----------------------------------------------------------------------------
\* With the Redis driver the rate limit (sso/src/index.ts, `max`) holds over the
\* deaths and restarts of sso: no window lets more requests through.
LimitHolds == UseRedis => passed <= RateLimit

\* The identity service serves on the tables its migrations made, unless the
\* database was replaced under it: identity/src/index.ts binds after both awaits,
\* however often the database goes away while it starts.
ServesOnItsTables == Serves("identity") => db.tables \/ renewed

\* A store that takes what it is asked and does not answer: neither the queries
\* nor the commands of ioredis have a deadline.
StoreIsSilent == db.state = "silent" \/ (UseRedis /\ redis = "silent")

\* A login that arrived is answered, or its connection breaks, whichever process
\* dies or restarts on its way and whichever store is lost; only a store that is
\* silent can hold it.
LoginsEnd ==
    \A r \in Logins : login[r] \in Waiting ~> login[r] \in Ended \/ StoreIsSilent

\* "User was not found. Did you spell it right?" (sso/src/routes.ts:143): the
\* page is for those who have no user.
NotFoundMeansUnknown == \A r \in Logins : login[r] = "notFound" => r \notin Known
=============================================================================
