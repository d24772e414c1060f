-------------------------- MODULE CheckinPipelineInv --------------------------
(***************************************************************************)
(* The inductive invariant behind the safety properties of the check-in    *)
(* pipeline: one named part per relation between two pieces of its state.  *)
(***************************************************************************)
EXTENDS CheckinPipeline

\* The guard of the producer mutex is held exactly while a request is between
\* lock() and the end of enqueue(), hung calls included, and never on a poisoned mutex.
HolderInv ==
    /\ \A c \in Checkins : request[c] \in {"locked", "inserted", "hung"} <=> holder = c
    /\ holder # Nobody => ~poisoned

\* No request is in progress while the web process is down, and a process that
\* is down can be started again.
DownInv ==
    ~webUp => /\ incarnation < MaxRestarts
              /\ \A c \in Checkins : request[c] \notin InProgress

\* A request has no row before its INSERT, a row after it, and no job before its
\* enqueue.
RowInv ==
    \A c \in Checkins :
        /\ request[c] \in {"unsent", "arrived", "locked"} => row[c] = NoRow
        /\ request[c] = "inserted" => row[c] # NoRow
        /\ request[c] \in {"unsent", "arrived", "locked", "inserted"} =>
             jobState[ScheduleJob(c)] = "absent"

\* The row this incarnation has left without a job, if any, belongs to the
\* holder of the mutex, or the mutex is poisoned, or the process is gone.
OrphanInv ==
    \A c \in Checkins :
        Orphan(c) =>
            /\ insertedBy[c] <= incarnation
            /\ insertedBy[c] = incarnation =>
                 request[c] \in {"inserted", "hung"} \/ poisoned \/ ~webUp

\* A job that can still be delivered has deliveries left.
DeliveryInv ==
    \A j \in Jobs :
        /\ jobState[j] = "absent" => deliveries[j] = 0
        /\ jobState[j] = "queued" => deliveries[j] < MaxDeliveries

\* A busy thread runs a stored job, in one of its deliveries.
BusyInv ==
    \A t \in Threads :
        thread[t].at # "idle" =>
            /\ thread[t].job \in Jobs
            /\ jobState[thread[t].job] # "absent"
            /\ thread[t].run \in 1 .. deliveries[thread[t].job]

\* Two threads on one job run two deliveries of it.
DistinctRuns ==
    \A t, u \in Threads :
        /\ thread[t].at # "idle"
        /\ thread[u].at # "idle"
        /\ thread[t].job = thread[u].job
        /\ thread[t].run = thread[u].run
        => t = u

\* Where a thread is says which function it runs and what it may report.
StepInv ==
    \A t \in Threads :
        /\ thread[t].at = "queue" => thread[t].job \in ScheduleJobs
        /\ thread[t].at = "checkin" => thread[t].job \in StartJobs
        /\ thread[t].at = "report" =>
             \/ thread[t].job \in ScheduleJobs /\ thread[t].say \in {"SCHEDULED", "FAILED"}
             \/ thread[t].job \in StartJobs /\ thread[t].say = "SUCCESS"

\* A thread is about to acknowledge only a schedule job that is accounted for.
Accounted(c) == row[c] \in {"SCHEDULED", "FAILED"} \/ c \in noFlights
AckInv ==
    \A t \in Threads :
        thread[t].at = "ack" =>
            thread[t].job \in ScheduleJobs /\ Accounted(RowOf(t))

\* A thread reports SCHEDULED only for a row with a start job.
SayInv ==
    \A t \in Threads :
        thread[t].at = "report" /\ thread[t].say = "SCHEDULED" =>
            \E leg \in Legs : Planned(RowOf(t), leg)

\* A start job comes from a delivery its schedule job has had, and the legs a
\* delivery has still to do have no start job of that delivery.
RunInv ==
    /\ \A c \in Checkins, leg \in Legs, n \in 1 .. MaxDeliveries :
         jobState[StartJob(c, leg, n)] # "absent" => n <= deliveries[ScheduleJob(c)]
    /\ \A t \in Threads :
         thread[t].at \in {"lookup", "queue", "report"} /\ thread[t].job \in ScheduleJobs =>
           \A leg \in Legs :
             (thread[t].at = "lookup" \/ leg \in thread[t].todo) =>
               jobState[StartJob(RowOf(t), leg, thread[t].run)] = "absent"

\* A leg is checked in only by a start job of its own.
CheckedInInv ==
    \A c \in Checkins, leg \in Legs : <<c, leg>> \in checkedIn => Planned(c, leg)

\* What createCheckin answers is true: a request that was answered with its row
\* has a stored row and a stored job, and one that was answered with an error has
\* no job (its row may be there: the answer of a committed INSERT can be lost).
\* Only a panic, a hung call or a cut connection leaves the client in the dark.
AnswersAreTrue ==
    \A c \in Checkins :
        /\ request[c] = "ok" => row[c] # NoRow /\ jobState[ScheduleJob(c)] # "absent"
        /\ request[c] = "error" => jobState[ScheduleJob(c)] = "absent"

IInv ==
    /\ TypeOK
    /\ HolderInv
    /\ DownInv
    /\ RowInv
    /\ AnswersAreTrue
    /\ OrphanInv
    /\ OneOrphanPerIncarnation
    /\ JobsHaveRows
    /\ DeliveryInv
    /\ BusyInv
    /\ DistinctRuns
    /\ StepInv
    /\ AckInv
    /\ SayInv
    /\ RunInv
    /\ CheckedInInv
    /\ ScheduledIsBacked
    /\ AckedMeansReported

\* A row waits for one of five reasons: its request is about to enqueue the job,
\* or hangs doing so; that request ended before it did, and its client was not
\* told ok, but an error, a panic or a cut connection; the job is to be delivered,
\* or is being worked on; it found no upcoming flight; or every delivery of it
\* failed.
WaitingIsExplained ==
    \A c \in Checkins : row[c] = "WAITING" =>
        \/ Unqueued(c) /\ request[c] \in {"inserted", "hung", "error", "panicked", "lost"}
        \/ jobState[ScheduleJob(c)] \in {"queued", "reserved", "dead"}
        \/ jobState[ScheduleJob(c)] = "acked" /\ c \in noFlights
=============================================================================
