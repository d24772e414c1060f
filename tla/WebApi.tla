------------------------------- MODULE WebApi -------------------------------
(***************************************************************************)
(* The Rust web backend (backend/src): the createCheckin and               *)
(* updateCheckinStatus mutations over the checkins table, and the one      *)
(* Faktory producer all requests share behind a std::sync::Mutex.  A panic *)
(* while the guard is held poisons the mutex: every later lock().unwrap()  *)
(* panics too, until the process is replaced.                              *)
(***************************************************************************)
EXTENDS Faktory

CONSTANTS
    Nobody,       \* the holder of a free producer mutex
    MaxRestarts   \* bound: times the web process is killed and started again

ASSUME NobodyAssumption == Nobody \notin Checkins
ASSUME RestartsAssumption == MaxRestarts \in Nat

VARIABLES
    row,         \* the checkins table: the status of each row, or NoRow
    request,     \* how far each createCheckin request has come
    holder,      \* the request that holds the producer mutex
    poisoned,    \* the mutex is poisoned
    webUp,       \* the web process is running
    incarnation, \* how often the process has been started again
    insertedBy   \* history: the incarnation that inserted each row

webVars == <<row, request, holder, poisoned, webUp, incarnation, insertedBy>>

\* A request is "hung" when its INSERT or its PUSH never returns: neither the
\* connections of the pool nor the producer's TCP stream has a time limit.
RequestStates ==
    {"unsent", "arrived", "locked", "inserted", "hung", "ok", "error", "panicked", "lost"}
InProgress == {"arrived", "locked", "inserted", "hung"}
Answered == {"ok", "error", "panicked", "lost"}

WebTypeOK ==
    /\ row \in [Checkins -> CheckinStatusEnum \cup {NoRow}]
    /\ request \in [Checkins -> RequestStates]
    /\ holder \in Checkins \cup {Nobody}
    /\ poisoned \in BOOLEAN
    /\ webUp \in BOOLEAN
    /\ incarnation \in 0 .. MaxRestarts
    /\ insertedBy \in [Checkins -> 0 .. MaxRestarts]

WebInit ==
    /\ row = [c \in Checkins |-> NoRow]
    /\ request = [c \in Checkins |-> "unsent"]
    /\ holder = Nobody
    /\ poisoned = FALSE
    /\ webUp = TRUE
    /\ incarnation = 0
    /\ insertedBy = [c \in Checkins |-> 0]

-----------------------------------------------------------------------------
(* createCheckin, one step per call that another request can interleave.   *)

\* The request reaches the resolver and waits for the producer mutex.
Arrive(c) ==
    /\ webUp
    /\ request[c] = "unsent"
    /\ request' = [request EXCEPT ![c] = "arrived"]
    /\ UNCHANGED <<row, holder, poisoned, webUp, incarnation, insertedBy, faktoryVars>>

\* producer.lock() returns the guard.
LockProducer(c) ==
    /\ request[c] = "arrived"
    /\ holder = Nobody
    /\ ~poisoned
    /\ request' = [request EXCEPT ![c] = "locked"]
    /\ holder' = c
    /\ UNCHANGED <<row, poisoned, webUp, incarnation, insertedBy, faktoryVars>>

\* producer.lock() returns a PoisonError and unwrap() panics.
LockPoisoned(c) ==
    /\ request[c] = "arrived"
    /\ holder = Nobody
    /\ poisoned
    /\ request' = [request EXCEPT ![c] = "panicked"]
    /\ UNCHANGED <<row, holder, poisoned, webUp, incarnation, insertedBy, faktoryVars>>

\* The INSERT commits by itself; the row's status is the column default.
Commit(c) ==
    /\ row' = [row EXCEPT ![c] = "WAITING"]
    /\ insertedBy' = [insertedBy EXCEPT ![c] = incarnation]

\* database.create_checkin commits the row and returns it.
InsertRow(c) ==
    /\ request[c] = "locked"
    /\ Commit(c)
    /\ request' = [request EXCEPT ![c] = "inserted"]
    /\ UNCHANGED <<holder, poisoned, webUp, incarnation, faktoryVars>>

\* Mutant: the error path keeps the guard.
InsertFailsHolding(c) ==
    /\ request[c] = "locked"
    /\ Commit(c) \/ UNCHANGED <<row, insertedBy>>
    /\ request' = [request EXCEPT ![c] = "error"]
    /\ UNCHANGED <<holder, poisoned, webUp, incarnation, faktoryVars>>

\* No pooled connection, the INSERT is refused, or the connection is lost before
\* or after the commit: `?` returns the error and drops the guard without a panic.
InsertFails(c) ==
    /\ request[c] = "locked"
    /\ Commit(c) \/ UNCHANGED <<row, insertedBy>>
    /\ request' = [request EXCEPT ![c] = "error"]
    /\ holder' = Nobody
    /\ UNCHANGED <<poisoned, webUp, incarnation, faktoryVars>>

\* The INSERT never returns, committed or not; the guard stays held.
InsertHangs(c) ==
    /\ request[c] = "locked"
    /\ Commit(c) \/ UNCHANGED <<row, insertedBy>>
    /\ request' = [request EXCEPT ![c] = "hung"]
    /\ UNCHANGED <<holder, poisoned, webUp, incarnation, faktoryVars>>

\* Mutant: the job is enqueued before the row is inserted.
EnqueueFirst(c) ==
    /\ request[c] = "locked"
    /\ Push(ScheduleJob(c))
    /\ request' = [request EXCEPT ![c] = "ok"]
    /\ holder' = Nobody
    /\ UNCHANGED <<row, poisoned, webUp, incarnation, insertedBy>>

\* producer.enqueue succeeds; the guard is dropped as the mutation returns.
Enqueue(c) ==
    /\ request[c] = "inserted"
    /\ Push(ScheduleJob(c))
    /\ request' = [request EXCEPT ![c] = "ok"]
    /\ holder' = Nobody
    /\ UNCHANGED <<row, poisoned, webUp, incarnation, insertedBy>>

\* Mutant: a mutex that a panic does not poison.
EnqueuePanicsUnpoisoned(c) ==
    /\ request[c] = "inserted"
    /\ UNCHANGED faktoryVars
    /\ request' = [request EXCEPT ![c] = "panicked"]
    /\ holder' = Nobody
    /\ UNCHANGED <<row, poisoned, webUp, incarnation, insertedBy>>

\* producer.enqueue fails on its TCP stream, before or after the server has
\* stored the job, and unwrap() panics with the guard held.
EnqueuePanics(c) ==
    /\ request[c] = "inserted"
    /\ Push(ScheduleJob(c)) \/ UNCHANGED faktoryVars
    /\ request' = [request EXCEPT ![c] = "panicked"]
    /\ holder' = Nobody
    /\ poisoned' = TRUE
    /\ UNCHANGED <<row, webUp, incarnation, insertedBy>>

\* producer.enqueue never returns, with the job stored or not; the guard stays held.
EnqueueHangs(c) ==
    /\ request[c] = "inserted"
    /\ Push(ScheduleJob(c)) \/ UNCHANGED faktoryVars
    /\ request' = [request EXCEPT ![c] = "hung"]
    /\ UNCHANGED <<row, holder, poisoned, webUp, incarnation, insertedBy>>

-----------------------------------------------------------------------------
(* updateCheckinStatus: one UPDATE ... RETURNING.                          *)

\* Mutant: the status is not checked against the enum.
UpdateAcceptedUnchecked(c, status) ==
    /\ webUp
    /\ row[c] # NoRow

\* The server accepts the variables of an updateCheckinStatus call, and the
\* UPDATE has a row to return.
UpdateAccepted(c, status) ==
    /\ webUp
    /\ status \in CheckinStatusEnum
    /\ row[c] # NoRow

UpdateCheckinStatus(c, status) ==
    /\ UpdateAccepted(c, status)
    /\ row' = [row EXCEPT ![c] = status]
    /\ UNCHANGED <<request, holder, poisoned, webUp, incarnation, insertedBy>>

-----------------------------------------------------------------------------
(* The process itself.                                                     *)

\* The process is killed (a deploy, or out of memory): connections are cut,
\* and the mutex and the waiting requests are gone with it.
KillWeb ==
    /\ webUp
    /\ incarnation < MaxRestarts
    /\ webUp' = FALSE
    /\ request' = [c \in Checkins |->
                     IF request[c] \in InProgress THEN "lost" ELSE request[c]]
    /\ holder' = Nobody
    /\ poisoned' = FALSE
    /\ UNCHANGED <<row, incarnation, insertedBy, faktoryVars>>

\* main() runs again: a new pool, a new producer, a new mutex.
StartWeb ==
    /\ ~webUp
    /\ webUp' = TRUE
    /\ incarnation' = incarnation + 1
    /\ UNCHANGED <<row, request, holder, poisoned, insertedBy, faktoryVars>>

CreateStep(c) ==
    \/ LockProducer(c)
    \/ LockPoisoned(c)
    \/ InsertRow(c)
    \/ InsertFails(c)
    \/ InsertHangs(c)
    \/ Enqueue(c)
    \/ EnqueuePanics(c)
    \/ EnqueueHangs(c)

WebNext ==
    \/ \E c \in Checkins : Arrive(c) \/ CreateStep(c)
    \/ KillWeb
    \/ StartWeb
=============================================================================
