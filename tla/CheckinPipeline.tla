--------------------------- MODULE CheckinPipeline ---------------------------
(***************************************************************************)
(* The whole path of a check-in: the web backend inserts a row and pushes  *)
(* a schedule_checkin job, the worker looks the reservation up, queues one *)
(* start_checkin job per upcoming leg and reports the status back through  *)
(* the web backend; each start_checkin job checks its leg in and reports.  *)
(* The web process and the worker process may die at any step, and Faktory *)
(* delivers a job again whenever its reservation runs out.                 *)
(***************************************************************************)
EXTENDS CheckinWorker

vars == <<faktoryVars, webVars, workerVars>>

Init == FaktoryInit /\ WebInit /\ WorkerInit

\* Faktory gives up on a reservation by itself.
Expiry == \E j \in Jobs : Expire(j) /\ UNCHANGED <<webVars, workerVars>>

Next ==
    \/ WebNext /\ UNCHANGED workerVars
    \/ WorkerNext
    \/ Expiry

Spec == Init /\ [][Next]_vars

(***************************************************************************)
(* Fairness.  A request that has reached the resolver keeps running until  *)
(* it is answered or hangs, docker starts the web container again          *)
(* ("restart: unless-stopped"), Faktory offers every waiting job and gives *)
(* every silent reservation up, and a running thread goes on until it      *)
(* idles or hangs.  So a call is not assumed to return: that it never does *)
(* is one of its outcomes.  Only the exchanges of the worker library with  *)
(* Faktory (FETCH, ACK, FAIL) are taken to end.  No client has to send a   *)
(* request, and nothing starts the worker again: its container has no      *)
(* restart policy.                                                         *)
(***************************************************************************)
Fairness ==
    /\ \A c \in Checkins : WF_vars(CreateStep(c) /\ UNCHANGED workerVars)
    /\ WF_vars(StartWeb /\ UNCHANGED workerVars)
    /\ \A j \in Jobs : WF_vars(\E t \in Threads : Fetch(t, j))
    /\ \A j \in Jobs : WF_vars(Expire(j) /\ UNCHANGED <<webVars, workerVars>>)
    /\ \A t \in Threads : WF_vars(ThreadStep(t))

FairSpec == Spec /\ Fairness

-----------------------------------------------------------------------------
TypeOK == FaktoryTypeOK /\ WebTypeOK /\ WorkerTypeOK

\* A committed row for which no schedule job was ever stored.
Unqueued(c) == row[c] # NoRow /\ jobState[ScheduleJob(c)] = "absent"

\* Row c has been given a start_checkin job for the leg.
Planned(c, leg) == \E n \in 1 .. MaxDeliveries : jobState[StartJob(c, leg, n)] # "absent"

PlannedLegs == {p \in Checkins \X Legs : Planned(p[1], p[2])}

\* Such a row whose client was not answered an error: it was told nothing, or is
\* still waiting.  (The others are the INSERTs that committed and lost their
\* answer: gql.rs:44 answers an error without poisoning the mutex, any number of
\* times.)
Orphan(c) == Unqueued(c) /\ request[c] # "error"

\* create_checkin commits the row before it enqueues the job, so a failure in
\* between leaves a row that no job will ever move.  Because the producer is
\* locked before the row is inserted, and the panic of a failed enqueue poisons
\* it, one run of the web process leaves at most one such row behind without
\* having answered an error for it.
OneOrphanPerIncarnation ==
    \A c, d \in Checkins :
        Orphan(c) /\ Orphan(d) /\ insertedBy[c] = insertedBy[d] => c = d

\* Every job Faktory has ever stored is about a committed row, so an
\* updateCheckinStatus call of the worker never meets diesel's NotFound, however
\* often and however late the job is delivered.
JobsHaveRows == \A j \in Jobs : jobState[j] # "absent" => row[j.row] # NoRow

\* A row reads SCHEDULED only when Faktory has stored a start_checkin job for it,
\* also after failed reports, redelivered jobs and late threads.
ScheduledIsBacked ==
    \A c \in Checkins : row[c] = "SCHEDULED" => \E leg \in Legs : Planned(c, leg)

\* A schedule job leaves Faktory by an ACK only when its row has been reported
\* on, or a lookup found no upcoming flight: an ACK never stands for work that a
\* crash or a late thread has lost.
AckedMeansReported ==
    \A c \in Checkins :
        jobState[ScheduleJob(c)] = "acked" =>
            row[c] \in {"SCHEDULED", "FAILED"} \/ c \in noFlights

\* A delivery of a schedule job queues the start job of a leg at most once: each
\* push that repeats an earlier one comes from another delivery.
NoPushTwicePerDelivery ==
    \A t \in Threads : thread[t].at = "queue" =>
        \A leg \in thread[t].todo :
            jobState[StartJob(RowOf(t), leg, thread[t].run)] = "absent"

\* A row's schedule job is finished, and no thread has it in hand, not even one
\* that hangs: what it asked of the web backend might still be done.
ScheduleIsOver(c) ==
    /\ jobState[ScheduleJob(c)] \in {"acked", "dead"}
    /\ \A t \in Threads : thread[t].job # ScheduleJob(c)

\* What a schedule job has reported is final but for the end of the check-in
\* itself: once the job is over, no start job, late thread or repeated delivery
\* turns a FAILED row back into SCHEDULED, or a SCHEDULED one into FAILED.
StatusSettles ==
    [][\A c \in Checkins : ScheduleIsOver(c) => row'[c] \in {row[c], "COMPLETED"}]_vars

\* The pipeline implements the promise made to its users.
Lifecycle == INSTANCE CheckinLifecycle WITH
    status <- row,
    planned <- PlannedLegs,
    done <- checkedIn
ImplementsLifecycle == Lifecycle!LifecycleSpec

\* The worker reports only values that updateCheckinStatus takes: the operation
\* it sends declares $status as CheckinStatusEnum!.
ReportsAreEnumValues ==
    \A t \in Threads : thread[t].at = "report" => thread[t].say \in CheckinStatusEnum

\* Every createCheckin request that reaches the resolver ends: with the row, with
\* an error, or with its connection cut by a panic or the end of the process,
\* unless a call of it or of the request it waits for never returns.
RequestsAnswered ==
    \A c \in Checkins :
        request[c] = "arrived" ~>
            request[c] \in Answered \/ \E d \in Checkins : request[d] = "hung"

\* A waiting row does not wait for ever, but for the reasons the code leaves
\* open: no job was stored for it, the reservation has no upcoming flight, every
\* delivery of the job failed, the worker is down, or calls that never return
\* (southwest.py:23, 51 and 53 and the GraphQL transport have no timeout) hold
\* every thread of it.  One free thread is enough.
WaitingEnds ==
    \A c \in Checkins :
        row[c] = "WAITING" ~>
            \/ row[c] # "WAITING"
            \/ Unqueued(c)
            \/ c \in noFlights
            \/ jobState[ScheduleJob(c)] = "dead"
            \/ ~workerUp
            \/ \A t \in Threads : thread[t].at = "hung"
=============================================================================
