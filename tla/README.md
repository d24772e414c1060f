# Models and proofs of kschoon.me

TLA+ specifications of the services behind kschoon.me, the TLC instances that
check them and the TLAPS proofs about them.  Paths below are relative to the
repository (`src/` in `PROJECT.json`); `PROJECT.json` maps every definition to
the lines it models.

## 1. The system

Two applications share a deployment (docker compose, traefik in front).

**Check-in.**  A user enters a Southwest reservation; the service checks the
flights in when the airline allows it, 24 hours before departure.

```
 browser  --GraphQL-->  web backend  --PUSH-->  Faktory  --FETCH-->  worker  --HTTP-->  Southwest
 (checkin/)             (backend/src)           (external)           (backend/worker)
                             |  ^                                        |
                         Postgres  +-------- updateCheckinStatus --------+
```

**Sign-on.**  An OpenID provider whose users prove themselves with a code sent
to their phone.

```
 browser  --->  sso  --gRPC-->  identity  --gRPC-->  notifications  --HTTP-->  Twilio
                 |                 |
               Redis            Postgres
```

| Component | State | Operations | Hard because |
|---|---|---|---|
| Web backend, mutations (`backend/src/gql.rs`, `database.rs`, `main.rs`) | table `checkins`; one Faktory producer behind a `std::sync::Mutex` | `createCheckin`, `updateCheckinStatus` | requests contend for the mutex; row and job are two steps; a panic poisons the mutex; the process restarts |
| Web backend, query (`models.rs`) | none: reads the table | `allCheckins(after, before, first, last)` | slice boundaries; cursors of an older list while rows commit in any id order |
| Faktory (external) | jobs, reservations, retries | PUSH, FETCH, ACK, FAIL, expiry | delivery is at least once |
| Worker (`backend/worker`) | what each of 16 threads is doing | `schedule_checkin`, `start_checkin` | retries after partial work; no timeouts, so late threads; two servers to keep in step; the process may exit inside a job |
| Check-in page (`checkin/src`) | cached list, mutation state, form, banner, modal | query, type, submit, close | answers arrive in any order; errors are kept per field and per request |
| Sign-on login (`sso/src/routes.ts`, `lib/retry.ts`) | cookies `accountId` and `retries`; the provider's interaction | login, verify, abort | several tabs; cookies read before an await and used after; expiry |
| Redis adapter (`sso/src/lib/redis.ts`) | tokens, one list of keys per grant, uid and userCode indexes | upsert, find, consume, destroy, revokeByGrantId | a read one round trip before the MULTI block that depends on it; expiry in between |
| Identity (`identity/src`) | table `user` | createUser, updateUser, getUserProfile, sendPasswordlessCode, verifyPasswordlessCode | read, modify, save without a lock; ignored answers |
| Notifications (`notifications/src`) | none | sendText | a refused message is not an error |
| OpenID configuration (`sso/src/lib/oidcConfig.ts`, `account.ts`) | the provider's session: account, remembered scopes, clients answered | consent checks, findAccount | what one authorization leaves behind decides about the next |
| Processes of the sign-on (`*/src/index.ts`, `config.ts`, `identity/src/lib/db.ts`) | what each process is doing, the limiter's count, the migrated database | start, migrate, bind, limit, call | no deadlines, no order of starting, stores that come and go, deaths in mid-call |
| Backend containers, index site, CI, Terraform and Ansible | configuration | | start-up order; job graph |

What makes each correct, in a sentence: a check-in row that exists has a job, or
one of few named reasons why not, and its status says what was arranged; a
reader of the connection misses nothing; revoking a grant reaches its tokens, and
a used or removed token does not come back; whoever is signed in was sent a
code, and no late page changes who that is; a login ends, whatever
process dies under it; an update changes what it was asked to change; the page
tells what happened.  `PROJECT.json` lists the hazards line by line, with the properties that
cover them.

## 2. Modules

| Module | Models |
|---|---|
| `CheckinJobs` | vocabulary: rows, status values, jobs |
| `Faktory` | the job server as the code relies on it (external) |
| `WebApi` | the web backend's mutations, mutex and process (EXTENDS `Faktory`) |
| `CheckinWorker` | the worker (EXTENDS `WebApi`: it calls `updateCheckinStatus`) |
| `CheckinPipeline` | the composition, its fairness and its properties |
| `CheckinLifecycle` | abstract: what users are promised |
| `CheckinPipelineInv`, `CheckinPipelineProofs` | inductive invariant, theorems |
| `Pagination`, `PaginationProofs` | `Checkin::query` and a client that follows the cursors, theorems |
| `CheckinPage`, `CheckinPageProofs` | the check-in page, theorems |
| `Passwordless` | one-time codes of identity and notifications |
| `SsoLogin`, `SsoLoginProofs` | one login interaction (EXTENDS `Passwordless`), theorems |
| `SignOn`, `SignOnProofs` | authorizations of one session around that login (EXTENDS `SsoLogin`), theorems |
| `RedisAdapter` | the tokens of one grant |
| `TokenStore` | abstract: what the OpenID provider may rely on |
| `RedisIndex` | the adapter with user-code and uid keys (EXTENDS `RedisAdapter`, which it implements) |
| `RedisAdapterProofs` | theorems of both |
| `Services`, `ServicesProofs` | the processes of the sign-on and a login's way through them, theorems |
| `IdentityUsers`, `IdentityUsersProofs` | the user table, theorems |
| `MC*` | instances for TLC: model values, small sets, symmetry |

A definition whose comment begins with "A mistake" or "Mutant" is no part of a specification.
It is a plausible bug in the definition after it; put in its place, it must break
the property it is paired with under `mutants`.

### How state and actions correspond to the code

*Pipeline.*  `row` is the table, named by the request that inserts the row
(SERIAL ids are never reused).  `createCheckin` is `Arrive`, `LockProducer`,
`InsertRow`, `Enqueue`, with `InsertFails` the `?` of line 44 (guard dropped, no
poison; the row committed or not, since an INSERT commits by itself and only its
answer may be lost) and `EnqueuePanics` the `unwrap()` of line 55 (guard dropped while
panicking: poison; the server may or may not have the job).  `InsertHangs` and
`EnqueueHangs` are the calls that never return, with the guard held.  `KillWeb` loses what
was in progress, `StartWeb` is `main()` again.  A thread of the worker walks the
job function call by call: `lookup`, then per leg `queue` and `report`, then `ack`
or, after any exception but `FailedCheckin`, `fail`.  Each call may fail without
effect or after its effect, or never return, with or without it (`Breaks`): a thread
that is `hung` takes no further step.  A reservation may expire under a busy thread, so two
threads may run two deliveries of one job; the ACK or FAIL of the late one is
then about whichever reservation exists, because Faktory knows jobs by id.
`noFlights` and `insertedBy` are history: no guard reads them.

*Pagination.*  `Nodes`, `StartIdx`, `EndIdx`, `Page` follow `Checkin::query`.  The
reader stands for a client that asks for the next page while `hasNextPage`
(or, backwards, `hasPreviousPage`) says so.  Rows commit in any order of ids.

*Page.*  `list` counts how often the cached list holds a row.  The client library
logs and swallows an exception of `update` (and of `writeQuery`, were a row to lack
a field of the query: `AllCheckinsNode`, `CreateCheckinNode` are the two documents),
and reports only the most recent mutation's error.  `form` is the form library's:
values, errors by field, and whether one was submitted, after which each change
checks its field; the modal unmounts the fields, not the library's state.  Each action that changes state ends by rendering, which is where
lines 70-75 put the banner back.

*Login.*  A tab holds its page or the request it waits for; a request carries the
cookies of when it was sent.  Each await of a handler is a step of its own
(`LooksUp`, then `FindsAccount`; `AsksIdentity`, then `CodeAccepted` or a refusal), so the
interaction may end between them.  `Resume` is the provider's (external).  `slipped` is
history: two verifications overlapped, or the retries cookie expired.

*Authorization.*  `auth` walks from the login over the provider's `Checks` to
`FindsItsAccount` or the consent page.  `LoginStep` is any step of `SsoLogin`; the
one that takes the result into the session moves `auth` on.  `Checks` and the
answer are the library's, their conditions (`ClientNotAuthorized`, `ScopesMissing`,
`Remembered`) the repository's.  Other tabs keep taking `LoginStep`s while the session
goes on to further authorizations.

*Services.*  `proc` is the stage of each process, `conf` how everything is set up
(every combination is an initial state).  `Start` is anybody's: `docker-compose up`,
`yarn start`.  A start that fails leaves the process `down`, or `stranded`: alive
without serving, which nobody restarts.  A login goes `limiting`, `finding`, `looking`,
`found`, `sending`, `texting`; the stage names the process that holds it.  A call to a
process that does not serve fails at once, and breaks off when its callee dies
(`AfterDeath`).  In containers `localhost` is the caller (`ReachesIdentity`,
`ReachesNotifications`).  Database and Redis are each up, gone, or silent: they take
commands and never answer.  `passed` and `renewed` are history.

*Adapter.*  A call is two steps around its round trip: `UpsertAsks` (the TTL) and
`UpsertExecutes` (the MULTI block), `RevokeReads` and `RevokeExecutes`.  `exp` is a
Redis expiry, `due` the moment the token was stored for when it was asked.
For an `expiresIn` of 0, which a code saved again in its last second has, `if (expiresIn)`
leaves the key's expiry, and `EXPIRE 0` drops the list and the index keys
(`StoredUntil`, `Extended`, `IndexedUntil`).  `raced` is history: an upsert overlapped
another one (`"upsert"`), or a revocation (`"end"`); an upsert that stores for no longer
than a call may take counts as `"end"` too, because the list it found can run out under it.  `index` is the expiry of
the key that a token's user code or uid has; both are written alike, and one
stands for both.  As a `TokenStore` a token is `absent`, `live` (a payload), `used` (a payload
and the mark of consume) or `marked` (the bare hash that a late `hset` leaves, for which
find throws); it is `asked` for while an upsert of it is between its two steps.

*Users.*  `UpdateFinds` reads the row and changes the object; `SaveCompares` is
TypeORM's second read, `SaveWrites` its UPDATE of the columns that differed.
`SaveFails` leaves the row as it was, or writes it and loses the answer.
`given` and `stale` are history.

## 3. Runs

Every run uses 2 workers; times are of a two-core machine.

| Run | Distinct states | Question | Bounds, and why they are enough |
|---|---|---|---|
| `pipeline_race` | 484 560 (42 s) | Does the lock-insert-enqueue order keep untold orphans to one per process, and every job on a row, under races, panics, lost answers and restarts?  Is every request answered, unless a call hangs? | two requests, one leg, one thread, one delivery, one restart of each process: two requests are needed to contend and to compare orphans, a restart to clear the poison; two threads are `pipeline_redelivery`'s |
| `pipeline_redelivery` | 3 716 544 (114 s) | Is the reported status backed when jobs are delivered again, threads are late and calls fail half-way or hang?  Does the pipeline refine `CheckinLifecycle`? | one row, two legs (the loop runs twice), two deliveries, two threads (two deliveries of one job at once) |
| `pipeline_progress` | 1 238 976 (133 s) | Does a WAITING row move on, but for the five holes the property names? | one row, two deliveries, two threads (one may hang and the other go on), one death of each process |
| `pipeline_report` | violation | Does the worker report only values the API takes? | one of everything |
| `pagination` | 1 852 (12 s) | Does a page equal the reference for every argument and table?  Does reading page by page miss, repeat or not end? | four ids, sizes 0 to 2: a page in the middle has a row on either side, and rows may commit around it |
| `checkin_page` | 76 050 (3 s) | What do table, banner and form show when answers come in any order and forms are refused, given up and sent? | three forms: the last, one before, one more; each field missing, malformed or good |
| `sso_login` | 677 940 (10 s) | Who is signed in, how are wrong codes counted with two tabs, what can a tab still do once the login is over, and which authorizations are then answered? | two tabs, two accounts, two time steps, four wrong codes: one more than ends a login; a first party with and without prompt=consent, a third party |
| `sso_code_page` | violation | Does the code page mean that a code was sent? | one tab |
| `redis_adapter` | 4 547 130 (187 s) | What does a revocation or an index reach, is anything left when a revocation is done, and is the adapter a `TokenStore`: can a token come back, or be used again? | a consumable token with a code and a plain one, two calls at once, lifetimes 0, 2 and 3, a second at most between the two round trips of a call, three seconds: each lifetime ends and a list can expire under a call |
| `services` | 1 673 136 (134 s) | Does the limit hold over restarts, does identity serve only on its tables, and does every login end, in every setup and whatever dies? | two logins of one address with a limit of one, so that one is refused; one known over https, one unknown over http; no bound on deaths, outages and restarts |
| `services_not_found` | violation | Is "User was not found" shown only to those who have no user? | as `services` |
| `identity_users` | 622 860 (15 s) | What may crossing updates change, and are their answers true? | two users, two emails, two updates at once; phone and name take one value or none, which is enough to see a change put back |

Deadlock is checked where the system cannot stop (`redis_adapter`'s clock ends while
other calls go on; `identity_users`, `checkin_page`).  It is off in the pipeline, pagination,
login and service runs: all requests may be answered and all bounded deaths, wrong
codes and steps used up.

### What the three violations show

* `pipeline_report`: after a check-in that went well `start_checkin` reports
  `SUCCESS` (`backend/worker/main.py:86`), which is no `CheckinStatusEnum`.  The
  call is refused, the job FAILs and is delivered again, and the row never reads
  COMPLETED.  No other property depends on the defect: `StatusSettles` allows the
  change to COMPLETED that a mended worker would make.
* `sso_code_page`: "Please enter code we texted you" is shown whether or not
  Twilio took the message, because `identity.ts:88` ignores the answer of
  `sendText`.
* `services_not_found`: "User was not found. Did you spell it right?"
  (`sso/src/routes.ts:143`) is shown for every failure of `findByLogin`: identity not
  reached (always so in containers, where `grpc.ts:14` dials the container's own
  localhost), or its query failing.

### Facts the runs make precise

* An orphaned row (no job) comes of a failed enqueue, a call that hangs or a killed
  process, and each run of the web process leaves one such row at most, because the
  same panic poisons the mutex (`OneOrphanPerIncarnation`).  After it every
  `createCheckin` panics until the process is replaced.  The exception is an INSERT
  that commits and loses its answer: the client is told of an error, nothing is
  poisoned, and one run may leave any number of those.
* Once the schedule job of a row is over, what it reported stands
  (`StatusSettles`).  It is not over while any thread has it in hand, a hung one included.
* `RequestsAnswered` and `WaitingEnds` need calls that hang among their exceptions:
  one hung request holds the mutex for all others, and when every worker thread hangs
  nothing is fetched.
* `LiveTokensAreListed` and `RevocationsComplete` hold as long as no upsert overlaps
  another upsert or a revocation of its grant, or is too short.  Each of these can take a
  token off the list that revokes it; the condition `raced = {}` is needed, and excludes
  exactly those interleavings, which the properties therefore do not catch.
* `RetriesAreCounted` needs `~slipped`; `GivenUpAfterThree` does not.
* `OnlyGivenFieldsChange` and `AnswersAreStored` need their exception: a stale
  object puts older values back.
* `RefusalsAreExplained` needs its exception: the Last Name group is given the error
  of the first name (`App.tsx:101`), so a form that lacks only the last name is
  refused without a word.
* An authorization that comes to the consent page is never answered: the form posts
  to `/interaction/:uid/confirm`, which is no route, and asking again comes to the
  same page (`ConsentIsForThirdParties`).  First parties come there only with
  prompt=consent.
* `LimitHolds` is about the Redis driver.  The memory driver forgets its count with
  the process; the mutant of the property is just that driver.
* `ServesOnItsTables` needs `renewed`: nothing makes a running identity migrate again
  when the container of its database is replaced.
* `LoginsEnd` has two holes, a database and a Redis that take commands and do not
  answer: no call has a deadline, and no Redis client a command timeout, that would end
  the wait.
* `CreatedRowsShownOnce` needs `~hurried`: a form sent before the table is there
  may show twice or not at all.

### Fairness

Only `pipeline_race`, `pipeline_progress`, `pagination` and `services` use it, always weak
and per action, thread or login.  A request past `Arrive` runs on a thread of the
tokio runtime; `docker-compose.yml` restarts the web container (`restart:
unless-stopped`); Faktory offers each waiting job and gives up each silent
reservation; a running worker thread goes on (its call ends in one of the modelled
outcomes, of which never to return is one: then the thread or request is `hung`, and
fairness asks no more of it).  Only the worker library's own exchanges with Faktory are
taken to end.  Nothing is assumed of clients (`Arrive` is not fair), nor that anybody
starts the worker again: its service has no restart policy, hence `~workerUp` among
the holes of `WaitingEnds`.  In `Pagination` only the reader is fair.  In `Services` only
the handling of a login that arrived is: its process goes on with it as long as
it lives, and a call whose callee is gone comes back as an error.  Nothing is
assumed of starts, of the stores coming back, or of deaths ending.

## 4. Proofs

All for every value of the constants, from the `ASSUME`s in the modules (finite
names distinct from null values, bounds and lifetimes natural numbers).

**Pipeline** (`CheckinPipelineProofs`).  `IInv` has seventeen named conjuncts.  The safety
properties are not inductive by themselves: that orphans are unique needs `OrphanInv`
(an orphan of this run is the holder's row, or the mutex is poisoned or the process
down), which needs `HolderInv` (the guard is held exactly between lock and
enqueue, never on a poisoned mutex) and `RowInv`; that an ACK is never
premature needs `AckInv` and `StepInv` about threads; that pushes are fresh needs
`RunInv` and `DistinctRuns` (two threads on one job run different deliveries).
There is one lemma per action, and from it the theorems `TypeCorrect`,
`OrphansAreBounded`, `JobsAreAboutRows`, `ScheduledMeansQueued`,
`AckedJobsAreReported`, `AnsweredTruthfully` (an answer with a row means row and job,
an error that there is no job), `PushesAreFresh`, `FinishedRowsSettle` and the refinement
`PipelineImplementsLifecycle` (each step maps to a step of `CheckinLifecycle` or
a stutter, with `planned` the legs that have a start job).  `WaitingRowsExplained` is what can
be had of `WaitingEnds` without fairness: a WAITING row is about to be enqueued, or its
job is deliverable, dead or found no flight, or it has no job and its request hangs or
ended in an error, a panic or a cut connection; its client was never told ok.

**Pagination** (`PaginationProofs`).  The page is cut out of a sequence by positions, the
reference is a set of ids; induction over the table is avoided by counting.  The
rank of an id (how many ids of the table are smaller) is an injection of the
table into as many places, so it is onto (`RankOnto`), and the sequence the query
builds holds at each place the id of that rank (`NodesInOrder`).  A cursor is then a place
(`CursorsAsPlaces`), a slice a stretch of ids between two ranks (`PageIsSlice`,
`BetweenIsStretch`), its length a difference of ranks (`StretchCounted`), and what
lies on either side of the page, which `hasNextPage` and `hasPreviousPage` tell of, a
matter of arithmetic (`SidesCounted`).  `PagesCorrect` follows for every table, pair of cursors
and size.  The reader's `IInv` says that what it read are rows in
ascending order (`ReadRows`), that its cursor is the end it moves from (`CursorAtEnd`), and
that of the rows it is owed it has read all the cursor has passed (`NothingSkipped`); hence `EachRowOnce` and
`NoRowMissed`, while rows commit anywhere.  `EveryPageAdvances` (a page ends the
reading or adds to it) and `ReadingIsBounded` (never more rows than ids) are the
part of `ReadingEnds` that needs no fairness.

**Adapter** (`RedisAdapterProofs`).  The invariant strengthens `LiveTokensAreListed`
to `DueTokensCovered`: without races a token that is due is on a list that lives
at least as long.  An upsert that found the list long enough must still find it:
`ListWaits` (the list outlives the trip, since without `"end"` in `raced` the upsert stores
for longer than a trip, and `TripsAreShort`) and `ListAsAsked` (it is as it was when asked).  `RacesNoticed`
says that calls in flight together, and short upserts, are in `raced`; `RevocationsReachDue` that a
revocation under way holds every due token.  Theorems: `TypeCorrect`,
`RevocationReachesTokens`, `ListsAlwaysExpire`, `NoTokenComesBack`,
`ConsumedForGood`, `RevocationTakesAll` (from `RevocationsReachDue`, at the step that
deletes) and the refinement `AdapterIsATokenStore`, one lemma per kind of step:
the two round trips of an upsert are `Ask` and `Store`, whatever ran in between; a `Tick`, a
`destroy` and a revocation are each one `Remove` of some set of tokens.

**Login** (`SsoLoginProofs`).  `SignInsWereTexted` extends the property from the
session to the results that can still become one; `CountIsEarned` says that no
cookie, in the jar or in a request, claims more refusals than there were;
`OneAtATime` that without a slip the request under way carries the jar's cookie.
Theorems: `TypeCorrect`, `SignInNeedsText`, `NotGivenUpEarly`,
`SequentialRetriesCount`.

**Authorization** (`SignOnProofs`).  The login's `IInv` is kept by its own steps and by
`SessionExpires`, the one step from outside that touches its variables.  `AuthInv`
adds that past the login the interaction is gone (`LoginIsOver`, from which no late tab can finish or
resume anything), that somebody is signed in on the way to an
answer, and `OnlyFirstPartiesAnswered`: because no third party is ever in `sids`,
`ClientNotAuthorized` never lets one pass.  Theorems: `SignOnTypeCorrect`,
`SessionsNeedText`, `LateTabsSignNobodyIn`, `ConsentIsADeadEnd`.

**Indexes** (also `RedisAdapterProofs`).  Every step of the indexed adapter is a step of the
adapter, so `IndexImplementsAdapter`, and its theorems carry over
(`IndexedRevocationReaches`, `IndexedGoneStaysGone`, `IndexedConsumedForGood`,
`IndexedRevocationTakesAll`, `IndexedAdapterIsATokenStore`).
`IndexInv` says that the index key of a token that is due expires at the same moment as
the token, from which `IndexesLastAsTokens`.  It needs the adapter's `IInv`: only because a
call was asked in the past (`TripsAreShort`) is a token stored for 0 seconds not due.

**Services** (`ServicesProofs`).  `LimitHolds` needs `CountedInRedis` (what the limiter
holds in Redis is at least what it let through) next to the bound in `TypeOK`;
`ServesOnItsTables` needs the same of the stage before (`MigratedBeforeBinding`).
Theorems: `TypeCorrect`, `LimitSurvivesRestarts`, `IdentityServesOnItsTables`.

**Page** (`CheckinPageProofs`).  `FormsWaitForTheTable` (without hurry nothing is sent or
committed before the query's answer) and `AddedOnce` (a row is counted twice
only once its mutation is answered) carry the table; `ErrorIsOfTheLast` the
banner; that errors are of what is wrong now needs that there are none before a
first submit.  Theorems: `PageTypeCorrect`, `RowsShownOnce`, `FailuresAreTold`,
`RefusalsHaveMessages`.

**Users** (`IdentityUsersProofs`).  That an object differs from its row only in what the
request gave is true only while no other update has written that row, so
`GivenMakesTheDifference` and `ColumnsSuffice` (what save will not write is as it
should be) speak of objects that are not stale; `CallsHaveUsers` adds that no user in
hand disappears.  Theorems: `TypeCorrect`, `AnswersTellWhatIsStored`, `NothingElseChanges`.

Only model-checked: the liveness properties (`RequestsAnswered`, `WaitingEnds`,
`ReadingEnds`, `LoginsEnd`): they need fairness and ENABLED, which the prover does not
take on.  Every invariant and action property of the passing runs, and both
refinements, are proved.

## 5. Not modelled, and why

* The OpenID protocol itself (a library): tokens, keys and redirects.  The
  repository's part in it, the consent policy and the account's lookup, is
  `SignOn`.
* What an answer claims (`Account.claims`): one read of one object, which no order of
  steps changes.  By reading: the profile is a protobuf message with getters only, so
  every claim but `sub` is undefined, also where `oidcConfig.ts:112-116` names `email`;
  and the sample profile in `account.ts:54-83` is never used, since a profile is
  always there.
* That addresses are unique: the database's UNIQUE constraint, which `Taken` takes over
  as the guard of both writes.
* The pages that GET requests render: they change no state.  The select_account
  page posts to a route that is not there, like the consent page.
* Date arithmetic, the bounded attempts of `safe_request` and the airline's JSON: only
  their outcomes are told apart.
* Start-up of the backend container (`wait-for-it.sh`, then the migration, then the
  server): a shell script that ends before the server shares any state;
  `StartWeb` stands for the start that went well.
* Updates that outlive their call: a call of the worker that has an effect has it before
  the worker goes on, fails or hangs.  That the web backend executes an
  `updateCheckinStatus` after its caller has lost the connection and FAILed the job is left
  out; it could set a row back after its job is over.
* The deployment graph: the order of the jobs is the CI service's, the workflow is
  data.  Terraform, Ansible, the index site, generated code: declarative or
  without state.
* What find should answer for a consumable token that is gone: `Find` has the
  exception as an outcome, and no text says what it should be.

## 6. Plan

What is left, by weight:

1. `Services` refined by `SsoLogin`: that the failures of the login's calls are those
   of the processes, in one composition small enough to check.
2. The fairness-free part of `RequestsAnswered` and `LoginsEnd` as theorems, like that of
   `WaitingEnds` and `ReadingEnds`: in every state some step of the request or the login is
   waited for, and by whom.
