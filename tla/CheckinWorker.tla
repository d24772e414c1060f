---------------------------- MODULE CheckinWorker ----------------------------
(***************************************************************************)
(* The Python worker (backend/worker): threads that fetch jobs from        *)
(* Faktory and run schedule_checkin or start_checkin.  A thread can be     *)
(* slow for as long as it likes, or hang for ever: the requests to         *)
(* Southwest and the GraphQL transport have no timeout.  So its            *)
(* reservation may expire and another thread may run the same job          *)
(* meanwhile.  An exception other than FailedCheckin leaves the job        *)
(* function and the worker library FAILs the job.                          *)
(***************************************************************************)
EXTENDS WebApi

CONSTANTS
    Threads,         \* the worker's executors (16 in the code)
    NoJob,           \* the job of an idle thread
    MaxWorkerDeaths  \* bound: times the worker process ends

ASSUME NoJobAssumption == NoJob \notin Jobs
ASSUME DeathsAssumption == MaxWorkerDeaths \in Nat

VARIABLES
    thread,        \* what each thread is doing
    workerUp,      \* the worker process is running
    workerDeaths,  \* how often it has ended
    checkedIn,     \* external: the legs Southwest has checked in
    noFlights      \* history: rows whose lookup once found no upcoming flight

workerVars == <<thread, workerUp, workerDeaths, checkedIn, noFlights>>

\* Where a thread is in its job.  "queue" and "report" are the two calls of the
\* loop over flight_times, "ack" and "fail" what the library tells Faktory; a
\* thread is "hung" when its call never returns.
ThreadSteps == {"idle", "lookup", "queue", "checkin", "report", "ack", "fail", "hung"}

\* todo: the legs of flight_times not yet handled; say: the status to report.
Statuses == CheckinStatusEnum \cup {"SUCCESS"}
ThreadStates ==
    [at : ThreadSteps, job : Jobs \cup {NoJob}, run : 0 .. MaxDeliveries,
     todo : SUBSET Legs, say : Statuses]

Idle == [at |-> "idle", job |-> NoJob, run |-> 0, todo |-> {}, say |-> "WAITING"]

WorkerTypeOK ==
    /\ thread \in [Threads -> ThreadStates]
    /\ workerUp \in BOOLEAN
    /\ workerDeaths \in 0 .. MaxWorkerDeaths
    /\ checkedIn \subseteq Checkins \X Legs
    /\ noFlights \subseteq Checkins

WorkerInit ==
    /\ thread = [t \in Threads |-> Idle]
    /\ workerUp = TRUE
    /\ workerDeaths = 0
    /\ checkedIn = {}
    /\ noFlights = {}

\* The row the thread's job is about.
RowOf(t) == thread[t].job.row

Goto(t, step) == thread' = [thread EXCEPT ![t].at = step]

\* A call of the job function breaks: it raises, or it never returns.  What was
\* left to do and to say is lost with it.
Breaks(t) ==
    \E step \in {"fail", "hung"} :
        thread' = [thread EXCEPT ![t].at = step, ![t].todo = {}, ![t].say = Idle.say]

\* The next leg in the reservation's order.
IsNextLeg(leg, todo) == leg \in todo /\ \A other \in todo : leg <= other

-----------------------------------------------------------------------------
\* A thread fetches a job and calls its function.
Fetch(t, j) ==
    /\ workerUp
    /\ thread[t].at = "idle"
    /\ Reserve(j)
    /\ thread' = [thread EXCEPT ![t] =
                    [Idle EXCEPT !.at = "lookup", !.job = j, !.run = deliveries'[j]]]
    /\ UNCHANGED <<webVars, workerUp, workerDeaths, checkedIn, noFlights>>

\* lookup_reservation raises something schedule_checkin does not catch (a body
\* without "bounds", no connection), or never returns.  start_checkin catches nothing.
LookupRaises(t) ==
    /\ thread[t].at = "lookup"
    /\ Breaks(t)
    /\ UNCHANGED <<faktoryVars, webVars, workerUp, workerDeaths, checkedIn, noFlights>>

\* schedule_checkin: lookup_reservation raises FailedCheckin, and the handler
\* goes on to report FAILED.
LookupFailedCheckin(t) ==
    /\ thread[t].at = "lookup"
    /\ thread[t].job.kind = "schedule_checkin"
    /\ thread' = [thread EXCEPT ![t].at = "report", ![t].say = "FAILED"]
    /\ UNCHANGED <<faktoryVars, webVars, workerUp, workerDeaths, checkedIn, noFlights>>

\* schedule_checkin: the reservation has upcoming flights.
LookupFound(t, flights) ==
    /\ thread[t].at = "lookup"
    /\ thread[t].job.kind = "schedule_checkin"
    /\ flights # {}
    /\ thread' = [thread EXCEPT ![t].at = "queue", ![t].todo = flights]
    /\ UNCHANGED <<faktoryVars, webVars, workerUp, workerDeaths, checkedIn, noFlights>>

\* schedule_checkin: the reservation has none; the loop body never runs.
LookupFoundNothing(t) ==
    /\ thread[t].at = "lookup"
    /\ thread[t].job.kind = "schedule_checkin"
    /\ Goto(t, "ack")
    /\ noFlights' = noFlights \cup {RowOf(t)}
    /\ UNCHANGED <<faktoryVars, webVars, workerUp, workerDeaths, checkedIn>>

\* start_checkin: the reservation is found, and the time to check in has come.
LookupDone(t) ==
    /\ thread[t].at = "lookup"
    /\ thread[t].job.kind = "start_checkin"
    /\ Goto(t, "checkin")
    /\ UNCHANGED <<faktoryVars, webVars, workerUp, workerDeaths, checkedIn, noFlights>>

\* Mutant: a leg that was queued stays in the loop.
QueueStartAgain(t, leg) ==
    /\ thread[t].at = "queue"
    /\ IsNextLeg(leg, thread[t].todo)
    /\ Push(StartJob(RowOf(t), leg, thread[t].run))
    /\ thread' = [thread EXCEPT ![t].at = "report", ![t].say = "SCHEDULED"]
    /\ UNCHANGED <<webVars, workerUp, workerDeaths, checkedIn, noFlights>>

\* client.queue("start_checkin", ...) answers True.
QueueStart(t, leg) ==
    /\ thread[t].at = "queue"
    /\ IsNextLeg(leg, thread[t].todo)
    /\ Push(StartJob(RowOf(t), leg, thread[t].run))
    /\ thread' = [thread EXCEPT ![t].at = "report", ![t].say = "SCHEDULED",
                                ![t].todo = @ \ {leg}]
    /\ UNCHANGED <<webVars, workerUp, workerDeaths, checkedIn, noFlights>>

\* Mutant: the answer of client.queue is not looked at.
QueueRefusedUnseen(t, leg) ==
    /\ thread[t].at = "queue"
    /\ IsNextLeg(leg, thread[t].todo)
    /\ thread' = [thread EXCEPT ![t].at = "report", ![t].say = "SCHEDULED",
                                ![t].todo = @ \ {leg}]
    /\ UNCHANGED <<faktoryVars, webVars, workerUp, workerDeaths, checkedIn, noFlights>>

\* client.queue answers False: nothing is stored, and FAILED is reported.
QueueRefused(t, leg) ==
    /\ thread[t].at = "queue"
    /\ IsNextLeg(leg, thread[t].todo)
    /\ thread' = [thread EXCEPT ![t].at = "report", ![t].say = "FAILED",
                                ![t].todo = @ \ {leg}]
    /\ UNCHANGED <<faktoryVars, webVars, workerUp, workerDeaths, checkedIn, noFlights>>

\* client.queue raises or hangs, before or after the server has stored the job.
QueueRaises(t, leg) ==
    /\ thread[t].at = "queue"
    /\ IsNextLeg(leg, thread[t].todo)
    /\ Push(StartJob(RowOf(t), leg, thread[t].run)) \/ UNCHANGED faktoryVars
    /\ Breaks(t)
    /\ UNCHANGED <<webVars, workerUp, workerDeaths, checkedIn, noFlights>>

\* Mutant: the report is the one of schedule_checkin.
CheckinConfirmedScheduled(t) ==
    /\ thread[t].at = "checkin"
    /\ checkedIn' = checkedIn \cup {<<RowOf(t), thread[t].job.leg>>}
    /\ thread' = [thread EXCEPT ![t].at = "report", ![t].say = "SCHEDULED"]
    /\ UNCHANGED <<faktoryVars, webVars, workerUp, workerDeaths, noFlights>>

\* start_checkin: Southwest checks the leg in, data["flights"] is there, and
\* the function goes on to report "SUCCESS".
CheckinConfirmed(t) ==
    /\ thread[t].at = "checkin"
    /\ checkedIn' = checkedIn \cup {<<RowOf(t), thread[t].job.leg>>}
    /\ thread' = [thread EXCEPT ![t].at = "report", ![t].say = "SUCCESS"]
    /\ UNCHANGED <<faktoryVars, webVars, workerUp, workerDeaths, noFlights>>

\* start_checkin: reservation.checkin() raises or hangs, or its answer cannot be
\* read, with the leg checked in or not.
CheckinRaises(t) ==
    /\ thread[t].at = "checkin"
    /\ \/ checkedIn' = checkedIn \cup {<<RowOf(t), thread[t].job.leg>>}
       \/ UNCHANGED checkedIn
    /\ Breaks(t)
    /\ UNCHANGED <<faktoryVars, webVars, workerUp, workerDeaths, noFlights>>

\* What follows a report that went well: the next leg, or the end of the job.
AfterReport(t) == IF thread[t].todo = {} THEN "ack" ELSE "queue"

\* gql_client.execute(updateCheckinStatus) is answered.
ReportApplied(t) ==
    /\ thread[t].at = "report"
    /\ UpdateCheckinStatus(RowOf(t), thread[t].say)
    /\ Goto(t, AfterReport(t))
    /\ UNCHANGED <<faktoryVars, workerUp, workerDeaths, checkedIn, noFlights>>

\* The update is committed, but its answer never comes: execute raises or waits.
ReportAnswerLost(t) ==
    /\ thread[t].at = "report"
    /\ UpdateCheckinStatus(RowOf(t), thread[t].say)
    /\ Breaks(t)
    /\ UNCHANGED <<faktoryVars, workerUp, workerDeaths, checkedIn, noFlights>>

\* Mutant: an exception of the report is swallowed.
ReportSwallowed(t) ==
    /\ thread[t].at = "report"
    /\ Goto(t, AfterReport(t))
    /\ UNCHANGED <<faktoryVars, webVars, workerUp, workerDeaths, checkedIn, noFlights>>

\* The server cannot be reached, answers an error or nothing at all.
ReportRaises(t) ==
    /\ thread[t].at = "report"
    /\ Breaks(t)
    /\ UNCHANGED <<faktoryVars, webVars, workerUp, workerDeaths, checkedIn, noFlights>>

\* The job function has returned: ACK.
AckJob(t) ==
    /\ thread[t].at = "ack"
    /\ Acknowledge(thread[t].job)
    /\ thread' = [thread EXCEPT ![t] = Idle]
    /\ UNCHANGED <<webVars, workerUp, workerDeaths, checkedIn, noFlights>>

\* The job function has raised: FAIL.
FailJob(t) ==
    /\ thread[t].at = "fail"
    /\ Fail(thread[t].job)
    /\ thread' = [thread EXCEPT ![t] = Idle]
    /\ UNCHANGED <<webVars, workerUp, workerDeaths, checkedIn, noFlights>>

\* The worker process ends (sys.exit(1) in a job, a crash, a deploy) and its
\* threads with it; Faktory still holds their reservations.
WorkerDies ==
    /\ workerUp
    /\ workerDeaths < MaxWorkerDeaths
    /\ workerUp' = FALSE
    /\ workerDeaths' = workerDeaths + 1
    /\ thread' = [t \in Threads |-> Idle]
    /\ UNCHANGED <<faktoryVars, webVars, checkedIn, noFlights>>

\* Someone starts the container again: it has no restart policy.
WorkerStarts ==
    /\ ~workerUp
    /\ workerUp' = TRUE
    /\ UNCHANGED <<faktoryVars, webVars, thread, workerDeaths, checkedIn, noFlights>>

ScheduleStep(t) ==
    \/ LookupFailedCheckin(t)
    \/ \E flights \in SUBSET Legs : LookupFound(t, flights)
    \/ LookupFoundNothing(t)
    \/ \E leg \in Legs : QueueStart(t, leg) \/ QueueRefused(t, leg) \/ QueueRaises(t, leg)

StartStep(t) ==
    \/ LookupDone(t)
    \/ CheckinConfirmed(t)
    \/ CheckinRaises(t)

ThreadStep(t) ==
    \/ LookupRaises(t)
    \/ ScheduleStep(t)
    \/ StartStep(t)
    \/ ReportApplied(t)
    \/ ReportAnswerLost(t)
    \/ ReportRaises(t)
    \/ AckJob(t)
    \/ FailJob(t)

WorkerNext ==
    \/ \E t \in Threads : (\E j \in Jobs : Fetch(t, j)) \/ ThreadStep(t)
    \/ WorkerDies
    \/ WorkerStarts
=============================================================================
