------------------------ MODULE CheckinPipelineProofs ------------------------
(***************************************************************************)
(* Proofs about the check-in pipeline, for every set of requests, legs and *)
(* threads and every bound.                                                *)
(***************************************************************************)
EXTENDS CheckinPipelineInv, TLAPS

\* The name of a job says what it is about: schedule jobs and start jobs are
\* disjoint, and a job's fields give back the row, leg and delivery it was named by.
LEMMA JobNames ==
    /\ \A c \in Checkins : /\ ScheduleJob(c) \in Jobs
                           /\ ScheduleJob(c) \in ScheduleJobs
                           /\ ScheduleJob(c) \notin StartJobs
                           /\ ScheduleJob(c).row = c
                           /\ ScheduleJob(c).kind = "schedule_checkin"
    /\ \A c \in Checkins, leg \in Legs, n \in 1 .. MaxDeliveries :
          /\ StartJob(c, leg, n) \in Jobs
          /\ StartJob(c, leg, n) \in StartJobs
          /\ StartJob(c, leg, n) \notin ScheduleJobs
          /\ StartJob(c, leg, n).row = c
          /\ StartJob(c, leg, n).leg = leg
          /\ StartJob(c, leg, n).run = n
          /\ StartJob(c, leg, n).kind = "start_checkin"
    /\ \A j \in Jobs : j \in ScheduleJobs \/ j \in StartJobs
    /\ \A j \in ScheduleJobs : /\ j \in Jobs
                               /\ j.row \in Checkins
                               /\ j = ScheduleJob(j.row)
                               /\ j.kind = "schedule_checkin"
    /\ \A j \in StartJobs : /\ j \in Jobs
                            /\ j.row \in Checkins
                            /\ j.leg \in Legs
                            /\ j.run \in 1 .. MaxDeliveries
                            /\ j = StartJob(j.row, j.leg, j.run)
                            /\ j.kind = "start_checkin"
    /\ ScheduleJobs \cap StartJobs = {}
<1>1. \A c \in Checkins : ScheduleJob(c) \in ScheduleJobs /\ ScheduleJob(c).row = c
                          /\ ScheduleJob(c).kind = "schedule_checkin"
  BY DEF ScheduleJobs, ScheduleJob
<1>2. \A c \in Checkins, leg \in Legs, n \in 1 .. MaxDeliveries :
         /\ StartJob(c, leg, n) \in StartJobs
         /\ StartJob(c, leg, n).row = c
         /\ StartJob(c, leg, n).leg = leg
         /\ StartJob(c, leg, n).run = n
         /\ StartJob(c, leg, n).kind = "start_checkin"
  BY DEF StartJobs, StartJob
<1>3. \A j \in ScheduleJobs : j.row \in Checkins /\ j = ScheduleJob(j.row)
                             /\ j.kind = "schedule_checkin"
  BY <1>1 DEF ScheduleJobs
<1>4. ASSUME NEW j \in StartJobs
      PROVE  /\ j.row \in Checkins
             /\ j.leg \in Legs
             /\ j.run \in 1 .. MaxDeliveries
             /\ j = StartJob(j.row, j.leg, j.run)
             /\ j.kind = "start_checkin"
  <2>1. PICK c \in Checkins, leg \in Legs, n \in 1 .. MaxDeliveries : j = StartJob(c, leg, n)
    BY DEF StartJobs
  <2>2. QED
    BY <1>2, <2>1
<1>5. ScheduleJobs \cap StartJobs = {}
  BY <1>3, <1>4
<1>6. Jobs = ScheduleJobs \cup StartJobs
  BY DEF Jobs
<1>7. QED
  BY <1>1, <1>2, <1>3, <1>4, <1>5, <1>6

\* An idle thread is a thread state.
LEMMA IdleType == Idle \in ThreadStates
  BY DeliveriesAssumption DEF Idle, ThreadStates, ThreadSteps, Statuses, CheckinStatusEnum

\* A thread state stays one when the thread moves on, changes what it has to
\* say, or takes up another set of legs.
LEMMA ThreadStateMoves ==
    ASSUME NEW x \in ThreadStates, NEW step \in ThreadSteps,
           NEW status \in Statuses, NEW legs \in SUBSET Legs
    PROVE  /\ [x EXCEPT !.at = step] \in ThreadStates
           /\ [x EXCEPT !.at = step, !.say = status] \in ThreadStates
           /\ [x EXCEPT !.at = step, !.todo = legs] \in ThreadStates
           /\ [x EXCEPT !.at = step, !.say = status, !.todo = legs] \in ThreadStates
  BY DEF ThreadStates

-----------------------------------------------------------------------------
\* The state predicate every proof starts from holds initially.
LEMMA InitIInv == Init => IInv
<1> SUFFICES ASSUME Init PROVE IInv
  OBVIOUS
<1>1. TypeOK
  <2>1. FaktoryTypeOK
    BY DeliveriesAssumption DEF Init, FaktoryInit, FaktoryTypeOK, JobStates
  <2>2. WebTypeOK
    <3>1. poisoned \in BOOLEAN /\ webUp \in BOOLEAN
      BY DEF Init, WebInit
    <3>2. incarnation \in 0 .. MaxRestarts /\ insertedBy \in [Checkins -> 0 .. MaxRestarts]
      BY RestartsAssumption DEF Init, WebInit
    <3>3. QED
      BY <3>1, <3>2 DEF Init, WebInit, WebTypeOK, RequestStates
  <2>3. WorkerTypeOK
    BY DeathsAssumption, IdleType DEF Init, WorkerInit, WorkerTypeOK
  <2>4. QED
    BY <2>1, <2>2, <2>3 DEF TypeOK
<1> USE DEF Init, FaktoryInit, WebInit, WorkerInit
<1>2. HolderInv /\ DownInv /\ RowInv /\ AnswersAreTrue
  BY JobNames, NobodyAssumption DEF HolderInv, DownInv, RowInv, AnswersAreTrue
<1>3. OrphanInv /\ OneOrphanPerIncarnation /\ JobsHaveRows
  BY JobNames DEF OrphanInv, OneOrphanPerIncarnation, JobsHaveRows, Orphan, Unqueued
<1>4. DeliveryInv /\ BusyInv /\ DistinctRuns /\ StepInv /\ AckInv /\ SayInv
  BY JobNames DEF DeliveryInv, BusyInv, DistinctRuns, StepInv, AckInv, SayInv, Idle
<1>5. RunInv /\ CheckedInInv
  BY JobNames DEF RunInv, CheckedInInv, Idle
<1>6. ScheduledIsBacked /\ AckedMeansReported
  BY JobNames, NoRowAssumption
  DEF ScheduledIsBacked, AckedMeansReported, CheckinStatusEnum
<1>7. QED
  BY <1>1, <1>2, <1>3, <1>4, <1>5, <1>6 DEF IInv

\* Every action keeps every variable within its type.
LEMMA StepTypeOK == IInv /\ [Next]_vars => TypeOK'
<1> SUFFICES ASSUME IInv, [Next]_vars PROVE TypeOK'
  OBVIOUS
<1> USE DEF TypeOK, FaktoryTypeOK, WebTypeOK, WorkerTypeOK, JobStates, RequestStates, InProgress,
        faktoryVars, webVars, workerVars
<1> TypeOK /\ DownInv /\ DeliveryInv /\ BusyInv /\ StepInv
  BY DEF IInv
<1>1. ASSUME UNCHANGED vars PROVE TypeOK'
  BY <1>1 DEF vars
<1>2. ASSUME UNCHANGED workerVars, WebNext PROVE TypeOK'
  <2>1. WorkerTypeOK'
    BY <1>2
  <2>2. ASSUME NEW c \in Checkins, Arrive(c) \/ CreateStep(c) PROVE FaktoryTypeOK' /\ WebTypeOK'
    <3>1. ASSUME Commit(c) \/ UNCHANGED <<row, insertedBy>>
          PROVE  /\ row' \in [Checkins -> CheckinStatusEnum \cup {NoRow}]
                 /\ insertedBy' \in [Checkins -> 0 .. MaxRestarts]
      BY <3>1 DEF Commit, CheckinStatusEnum
    <3>2. CASE InsertRow(c) \/ InsertFails(c) \/ InsertHangs(c)
      BY <3>1, <3>2 DEF InsertRow, InsertFails, InsertHangs
    <3>3. QED
      BY <2>2, <3>2 DEF CreateStep, Arrive, LockProducer, LockPoisoned,
         Enqueue, EnqueuePanics, EnqueueHangs, Push
  <2>3. ASSUME KillWeb PROVE FaktoryTypeOK' /\ WebTypeOK'
    BY <2>3 DEF KillWeb
  <2>4. ASSUME StartWeb PROVE FaktoryTypeOK' /\ WebTypeOK'
    <3>1. incarnation' \in 0 .. MaxRestarts
      BY <2>4, RestartsAssumption DEF StartWeb, DownInv
    <3>2. QED
      BY <2>4, <3>1 DEF StartWeb
  <2>5. QED
    BY <1>2, <2>1, <2>2, <2>3, <2>4 DEF WebNext
<1>3. ASSUME Expiry PROVE TypeOK'
  BY <1>3 DEF Expiry, Expire, Fail, Unacknowledged
<1>4. ASSUME NEW t \in Threads, NEW j \in Jobs, Fetch(t, j) PROVE TypeOK'
  <2>1. deliveries[j] + 1 \in 0 .. MaxDeliveries
    BY <1>4, DeliveriesAssumption DEF Fetch, Reserve, DeliveryInv
  <2>2. FaktoryTypeOK' /\ WebTypeOK'
    BY <1>4, <2>1 DEF Fetch, Reserve
  <2>3. WorkerTypeOK'
    <3>1. [Idle EXCEPT !.at = "lookup", !.job = j, !.run = deliveries'[j]] \in ThreadStates
      BY IdleType, <2>2 DEF ThreadStates, ThreadSteps
    <3>2. QED
      BY <1>4, <3>1 DEF Fetch
  <2>4. QED
    BY <2>2, <2>3
<1>5. ASSUME NEW t \in Threads, ThreadStep(t) PROVE TypeOK'
  <2> DEFINE x == thread[t]
  <2>1. x \in ThreadStates /\ x.todo \in SUBSET Legs
    BY DEF ThreadStates
  <2> USE <2>1 DEF ThreadSteps, Statuses, CheckinStatusEnum
  <2>22. ASSUME Breaks(t) PROVE thread' \in [Threads -> ThreadStates]
    <3>1. PICK step \in {"fail", "hung"} :
            thread' = [thread EXCEPT ![t].at = step, ![t].todo = {}, ![t].say = Idle.say]
      BY <2>22 DEF Breaks
    <3>2. Idle.say \in Statuses
      BY DEF Idle
    <3>3. [x EXCEPT !.at = step, !.todo = {}, !.say = Idle.say] \in ThreadStates
      BY <3>2 DEF ThreadStates
    <3>4. QED
      BY <3>1, <3>3
  <2>2. ASSUME LookupRaises(t) PROVE thread' \in [Threads -> ThreadStates]
    BY <2>2, <2>22 DEF LookupRaises
  <2>3. ASSUME LookupFailedCheckin(t) PROVE thread' \in [Threads -> ThreadStates]
    BY <2>3, ThreadStateMoves DEF LookupFailedCheckin
  <2>4. ASSUME NEW flights \in SUBSET Legs, LookupFound(t, flights) PROVE thread' \in [Threads -> ThreadStates]
    BY <2>4, ThreadStateMoves DEF LookupFound
  <2>5. ASSUME LookupFoundNothing(t) PROVE thread' \in [Threads -> ThreadStates]
    BY <2>5, ThreadStateMoves DEF LookupFoundNothing, Goto, RowOf
  <2>6. ASSUME LookupDone(t) PROVE thread' \in [Threads -> ThreadStates]
    BY <2>6, ThreadStateMoves DEF LookupDone, Goto
  <2>7. ASSUME NEW leg \in Legs, QueueStart(t, leg) PROVE thread' \in [Threads -> ThreadStates]
    BY <2>7, ThreadStateMoves DEF QueueStart
  <2>8. ASSUME NEW leg \in Legs, QueueRefused(t, leg) PROVE thread' \in [Threads -> ThreadStates]
    BY <2>8, ThreadStateMoves DEF QueueRefused
  <2>9. ASSUME NEW leg \in Legs, QueueRaises(t, leg) PROVE thread' \in [Threads -> ThreadStates]
    BY <2>9, <2>22 DEF QueueRaises
  <2>10. ASSUME CheckinConfirmed(t) PROVE thread' \in [Threads -> ThreadStates]
    BY <2>10, ThreadStateMoves DEF CheckinConfirmed
  <2>11. ASSUME CheckinRaises(t) PROVE thread' \in [Threads -> ThreadStates]
    BY <2>11, <2>22 DEF CheckinRaises
  <2>12. ASSUME ReportApplied(t) PROVE thread' \in [Threads -> ThreadStates]
    BY <2>12, ThreadStateMoves DEF ReportApplied, Goto, AfterReport
  <2>13. ASSUME ReportAnswerLost(t) PROVE thread' \in [Threads -> ThreadStates]
    BY <2>13, <2>22 DEF ReportAnswerLost
  <2>14. ASSUME ReportRaises(t) PROVE thread' \in [Threads -> ThreadStates]
    BY <2>14, <2>22 DEF ReportRaises
  <2>15. FaktoryTypeOK'
    BY <1>5 DEF ThreadStep, ScheduleStep, StartStep, LookupRaises, LookupFailedCheckin, LookupFound,
       LookupFoundNothing, LookupDone, QueueStart, QueueRefused, QueueRaises, CheckinConfirmed,
       CheckinRaises, ReportApplied, ReportAnswerLost, ReportRaises, AckJob, FailJob,
       Push, Acknowledge, Fail, Unacknowledged
  <2>16. WebTypeOK'
    BY <1>5 DEF ThreadStep, ScheduleStep, StartStep, LookupRaises, LookupFailedCheckin, LookupFound,
       LookupFoundNothing, LookupDone, QueueStart, QueueRefused, QueueRaises, CheckinConfirmed,
       CheckinRaises, ReportApplied, ReportAnswerLost, ReportRaises, AckJob, FailJob,
       UpdateCheckinStatus, UpdateAccepted
  <2>17. RowOf(t) \in Checkins \/ x.at = "idle"
    BY JobNames DEF BusyInv, RowOf
  <2>18. x.at = "checkin" => x.job.leg \in Legs
    BY JobNames DEF StepInv
  <2>19. (workerUp \in BOOLEAN /\ workerDeaths \in 0 .. MaxWorkerDeaths
           /\ checkedIn \subseteq Checkins \X Legs /\ noFlights \subseteq Checkins)'
    BY <1>5, <2>17, <2>18 DEF ThreadStep, ScheduleStep, StartStep, LookupRaises, LookupFailedCheckin,
       LookupFound, LookupFoundNothing, LookupDone, QueueStart, QueueRefused, QueueRaises,
       CheckinConfirmed, CheckinRaises, ReportApplied, ReportAnswerLost, ReportRaises, AckJob, FailJob
  <2>20. thread' \in [Threads -> ThreadStates]
    BY <1>5, <2>2, <2>3, <2>4, <2>5, <2>6, <2>7, <2>8, <2>9, <2>10, <2>11, <2>12, <2>13, <2>14,
       IdleType DEF ThreadStep, ScheduleStep, StartStep, AckJob, FailJob
  <2>21. QED
    BY <2>15, <2>16, <2>19, <2>20
<1>6. ASSUME WorkerDies PROVE TypeOK'
  <2>1. workerDeaths' \in 0 .. MaxWorkerDeaths
    BY <1>6, DeathsAssumption DEF WorkerDies
  <2>2. QED
    BY <1>6, <2>1, IdleType DEF WorkerDies
<1>7. ASSUME WorkerStarts PROVE TypeOK'
  BY <1>7 DEF WorkerStarts
<1>8. QED
  BY <1>1, <1>2, <1>3, <1>4, <1>5, <1>6, <1>7 DEF Next, WorkerNext

-----------------------------------------------------------------------------
\* Neither the worker nor an expiring reservation touches the web process; they
\* neither add nor remove a row, and they push no schedule job.
LEMMA WorkerFrame ==
    ASSUME IInv, WorkerNext \/ Expiry
    PROVE  /\ UNCHANGED <<request, holder, poisoned, webUp, incarnation, insertedBy>>
           /\ \A c \in Checkins : row'[c] = NoRow <=> row[c] = NoRow
           /\ \A j \in Jobs : jobState[j] # "absent" => jobState'[j] # "absent"
           /\ \A j \in ScheduleJobs : jobState[j] = "absent" => jobState'[j] = "absent"
<1> USE DEF webVars, faktoryVars, workerVars
<1> TypeOK /\ BusyInv /\ StepInv
  BY DEF IInv
<1>1. ASSUME Expiry PROVE jobState' \in [Jobs -> JobStates]
                          /\ \A j \in Jobs : jobState[j] = "absent" <=> jobState'[j] = "absent"
  BY <1>1 DEF Expiry, Expire, Fail, Unacknowledged, TypeOK, FaktoryTypeOK, JobStates
<1>2. ASSUME NEW t \in Threads, NEW j \in Jobs, Fetch(t, j)
      PROVE  \A i \in Jobs : jobState[i] = "absent" <=> jobState'[i] = "absent"
  BY <1>2 DEF Fetch, Reserve, TypeOK, FaktoryTypeOK
<1>3. ASSUME NEW t \in Threads, ThreadStep(t)
      PROVE  /\ UNCHANGED <<request, holder, poisoned, webUp, incarnation, insertedBy>>
             /\ \A c \in Checkins : row'[c] = NoRow <=> row[c] = NoRow
             /\ \A j \in Jobs : jobState[j] # "absent" => jobState'[j] # "absent"
             /\ \A j \in ScheduleJobs : jobState[j] = "absent" => jobState'[j] = "absent"
  <2>1. ASSUME AckJob(t) \/ FailJob(t)
        PROVE  \A j \in Jobs : jobState[j] = "absent" <=> jobState'[j] = "absent"
    BY <2>1 DEF AckJob, FailJob, Acknowledge, Fail, Unacknowledged, TypeOK, FaktoryTypeOK
  <2>2. ASSUME NEW leg \in Legs, QueueStart(t, leg) \/ QueueRaises(t, leg)
        PROVE  \A j \in Jobs : \/ jobState[j] = jobState'[j]
                               \/ j = StartJob(RowOf(t), leg, thread[t].run) /\ jobState'[j] = "queued"
    BY <2>2 DEF QueueStart, QueueRaises, Push, TypeOK, FaktoryTypeOK
  <2>3. ASSUME thread[t].at = "queue", NEW leg \in Legs
        PROVE  StartJob(RowOf(t), leg, thread[t].run) \in StartJobs
    <3>1. RowOf(t) \in Checkins
      BY <2>3, JobNames DEF BusyInv, RowOf
    <3>2. thread[t].run \in 1 .. MaxDeliveries
      BY <2>3, DeliveriesAssumption DEF BusyInv, TypeOK, FaktoryTypeOK
    <3>3. QED
      BY <3>1, <3>2, JobNames
  <2>4. UNCHANGED <<request, holder, poisoned, webUp, incarnation, insertedBy>>
    BY <1>3 DEF ThreadStep, ScheduleStep, StartStep, LookupRaises, LookupFailedCheckin, LookupFound,
       LookupFoundNothing, LookupDone, QueueStart, QueueRefused, QueueRaises, CheckinConfirmed,
       CheckinRaises, ReportApplied, ReportAnswerLost, ReportRaises, AckJob, FailJob, UpdateCheckinStatus
  <2>5. ASSUME NEW c \in Checkins PROVE row'[c] = NoRow <=> row[c] = NoRow
    BY <1>3, NoRowAssumption DEF ThreadStep, ScheduleStep, StartStep, LookupRaises, LookupFailedCheckin, LookupFound,
       LookupFoundNothing, LookupDone, QueueStart, QueueRefused, QueueRaises, CheckinConfirmed,
       CheckinRaises, ReportApplied, ReportAnswerLost, ReportRaises, AckJob, FailJob, UpdateCheckinStatus, UpdateAccepted, TypeOK, WebTypeOK
  <2>6. \/ UNCHANGED jobState
        \/ AckJob(t) \/ FailJob(t)
        \/ thread[t].at = "queue" /\ \E leg \in Legs : QueueStart(t, leg) \/ QueueRaises(t, leg)
    BY <1>3 DEF ThreadStep, ScheduleStep, StartStep, LookupRaises, LookupFailedCheckin, LookupFound,
       LookupFoundNothing, LookupDone, QueueStart, QueueRefused, QueueRaises, CheckinConfirmed,
       CheckinRaises, ReportApplied, ReportAnswerLost, ReportRaises, AckJob, FailJob
  <2>7. (\A j \in Jobs : jobState[j] # "absent" => jobState'[j] # "absent")
        /\ (\A j \in ScheduleJobs : jobState[j] = "absent" => jobState'[j] = "absent")
    BY <2>1, <2>2, <2>3, <2>6, JobNames
  <2>8. QED
    BY <2>4, <2>5, <2>7
<1>4. ASSUME WorkerDies \/ WorkerStarts PROVE UNCHANGED <<webVars, faktoryVars>>
  BY <1>4 DEF WorkerDies, WorkerStarts
<1>5. ASSUME (\E t \in Threads, j \in Jobs : Fetch(t, j)) \/ Expiry
      PROVE  /\ UNCHANGED webVars
             /\ \A j \in Jobs : jobState[j] = "absent" <=> jobState'[j] = "absent"
  BY <1>1, <1>2, <1>5 DEF Fetch, Expiry
<1>6. ScheduleJobs \subseteq Jobs
  BY JobNames
<1>7. QED
  BY <1>3, <1>4, <1>5, <1>6 DEF WorkerNext

-----------------------------------------------------------------------------
\* Of the web process's steps, only the enqueue of a request touches a job, and
\* it is the request's own; only the request's INSERT touches a row.
LEMMA WebFrame ==
    ASSUME IInv, WebNext, UNCHANGED workerVars
    PROVE  /\ \A c \in Checkins : row[c] # NoRow => row'[c] # NoRow
           /\ \A c \in Checkins : row'[c] # row[c] => request[c] = "locked" /\ row'[c] = "WAITING"
           /\ \A j \in Jobs : jobState[j] # "absent" => jobState'[j] # "absent"
           /\ \A j \in Jobs : j \notin ScheduleJobs => jobState'[j] = jobState[j]
           /\ \A c \in Checkins : jobState'[ScheduleJob(c)] # jobState[ScheduleJob(c)] =>
                request[c] = "inserted" /\ jobState'[ScheduleJob(c)] = "queued"
           /\ UNCHANGED deliveries
<1> USE DEF webVars, faktoryVars
<1> TypeOK
  BY DEF IInv
<1>1. ASSUME NEW c \in Checkins, InsertRow(c) \/ InsertFails(c) \/ InsertHangs(c)
      PROVE  /\ request[c] = "locked"
             /\ row'[c] \in {"WAITING", row[c]}
             /\ \A d \in Checkins : d # c => row'[d] = row[d]
             /\ UNCHANGED faktoryVars
  BY <1>1 DEF InsertRow, InsertFails, InsertHangs, Commit, TypeOK, WebTypeOK
<1>2. ASSUME NEW c \in Checkins, Enqueue(c) \/ EnqueuePanics(c) \/ EnqueueHangs(c)
      PROVE  /\ UNCHANGED <<row, deliveries>>
             /\ request[c] = "inserted"
             /\ \/ UNCHANGED jobState
                \/ /\ jobState'[ScheduleJob(c)] = "queued"
                   /\ \A j \in Jobs : j # ScheduleJob(c) => jobState'[j] = jobState[j]
  BY <1>2, JobNames DEF Enqueue, EnqueuePanics, EnqueueHangs, Push, TypeOK, FaktoryTypeOK
<1>3. \/ UNCHANGED <<row, faktoryVars>>
      \/ \E c \in Checkins : InsertRow(c) \/ InsertFails(c) \/ InsertHangs(c)
      \/ \E c \in Checkins : Enqueue(c) \/ EnqueuePanics(c) \/ EnqueueHangs(c)
  BY DEF WebNext, CreateStep, Arrive, LockProducer, LockPoisoned, KillWeb, StartWeb
<1>4. "WAITING" # NoRow
  BY NoRowAssumption DEF CheckinStatusEnum
<1>5. QED
  BY <1>1, <1>2, <1>3, <1>4, JobNames

-----------------------------------------------------------------------------
\* The mutex discipline survives every step.
LEMMA StepHolder == IInv /\ [Next]_vars => HolderInv' /\ DownInv'
<1> SUFFICES ASSUME IInv, [Next]_vars PROVE HolderInv' /\ DownInv'
  OBVIOUS
<1> USE DEF HolderInv, DownInv, InProgress
<1> TypeOK /\ HolderInv /\ DownInv
  BY DEF IInv
<1>1. CASE UNCHANGED vars
  BY <1>1 DEF vars, webVars
<1>2. CASE WorkerNext \/ Expiry
  BY <1>2, WorkerFrame
<1>3. ASSUME NEW c \in Checkins, Arrive(c) \/ CreateStep(c) PROVE HolderInv'
  BY <1>3, NobodyAssumption DEF Arrive, CreateStep, LockProducer, LockPoisoned, InsertRow,
     InsertFails, InsertHangs, Enqueue, EnqueuePanics, EnqueueHangs, TypeOK, WebTypeOK
<1>4. ASSUME NEW c \in Checkins, Arrive(c) \/ CreateStep(c) PROVE DownInv'
  BY <1>4 DEF Arrive, CreateStep, LockProducer, LockPoisoned, InsertRow,
     InsertFails, InsertHangs, Enqueue, EnqueuePanics, EnqueueHangs, TypeOK, WebTypeOK
<1>5. CASE KillWeb
  BY <1>5, NobodyAssumption DEF KillWeb, TypeOK, WebTypeOK
<1>6. CASE StartWeb
  BY <1>6 DEF StartWeb, TypeOK, WebTypeOK
<1>7. QED
  BY <1>1, <1>2, <1>3, <1>4, <1>5, <1>6 DEF Next, WebNext

\* A request's row and job appear in the order of create_checkin's calls.
LEMMA StepRow == IInv /\ [Next]_vars => RowInv'
<1> SUFFICES ASSUME IInv, [Next]_vars PROVE RowInv'
  OBVIOUS
<1> USE DEF RowInv
<1> TypeOK /\ HolderInv /\ DownInv /\ RowInv
  BY DEF IInv
<1>1. CASE UNCHANGED vars
  BY <1>1 DEF vars, webVars, faktoryVars
<1>2. CASE WorkerNext \/ Expiry
  BY <1>2, WorkerFrame, JobNames
<1>3. ASSUME NEW c \in Checkins, Arrive(c) \/ CreateStep(c), UNCHANGED workerVars PROVE RowInv'
  <2>1. WebNext
    BY <1>3 DEF WebNext
  <2>2. ASSUME NEW d \in Checkins, d # c
        PROVE  request'[d] = request[d] /\ (row[d] = NoRow => row'[d] = NoRow)
               /\ jobState'[ScheduleJob(d)] = jobState[ScheduleJob(d)]
    <3>1. CASE InsertRow(c) \/ InsertFails(c) \/ InsertHangs(c)
      BY <2>2, <3>1 DEF InsertRow, InsertFails, InsertHangs, Commit, TypeOK, WebTypeOK, faktoryVars
    <3>2. QED
      BY <1>3, <2>2, <3>1, JobNames DEF Arrive, CreateStep, LockProducer, LockPoisoned,
         Enqueue, EnqueuePanics, EnqueueHangs, Push, TypeOK, WebTypeOK, FaktoryTypeOK, faktoryVars
  <2>3. CASE InsertRow(c)
    <3>1. row'[c] # NoRow
      BY <2>3, NoRowAssumption DEF InsertRow, Commit, CheckinStatusEnum, TypeOK, WebTypeOK
    <3>2. request'[c] = "inserted" /\ jobState'[ScheduleJob(c)] = "absent"
      BY <2>3 DEF InsertRow, TypeOK, WebTypeOK, faktoryVars
    <3>3. QED
      BY <2>1, <2>2, <3>1, <3>2, WebFrame, <1>3
  <2>4. CASE Arrive(c) \/ LockProducer(c)
    <3>1. /\ request'[c] \in {"arrived", "locked"}
          /\ request[c] \in {"unsent", "arrived"}
          /\ UNCHANGED <<row, jobState>>
      BY <2>4 DEF Arrive, LockProducer, TypeOK, WebTypeOK, faktoryVars
    <3>2. QED
      BY <2>1, <2>2, <3>1, WebFrame, <1>3
  <2>5. CASE \/ LockPoisoned(c) \/ InsertFails(c) \/ InsertHangs(c)
             \/ Enqueue(c) \/ EnqueuePanics(c) \/ EnqueueHangs(c)
    <3>1. request'[c] \in {"ok", "error", "panicked", "hung"}
      BY <2>5 DEF LockPoisoned, InsertFails, InsertHangs, Enqueue, EnqueuePanics, EnqueueHangs,
         TypeOK, WebTypeOK
    <3>2. QED
      BY <2>1, <2>2, <3>1, WebFrame, <1>3
  <2>6. QED
    BY <1>3, <2>3, <2>4, <2>5 DEF CreateStep
<1>4. CASE KillWeb
  BY <1>4 DEF KillWeb, InProgress, TypeOK, WebTypeOK, faktoryVars
<1>5. CASE StartWeb
  BY <1>5 DEF StartWeb, faktoryVars
<1>6. QED
  BY <1>1, <1>2, <1>3, <1>4, <1>5 DEF Next, WebNext

\* An answer says ok after the enqueue, and error instead of it; once it is given,
\* no job is taken away and nothing is enqueued any more.
LEMMA StepAnswers == IInv /\ [Next]_vars => AnswersAreTrue'
<1> SUFFICES ASSUME IInv, [Next]_vars PROVE AnswersAreTrue'
  OBVIOUS
<1> USE DEF AnswersAreTrue
<1> TypeOK /\ RowInv /\ AnswersAreTrue
  BY DEF IInv
<1>1. CASE UNCHANGED vars
  BY <1>1 DEF vars, webVars, faktoryVars
<1>2. CASE WorkerNext \/ Expiry
  BY <1>2, WorkerFrame, JobNames
<1>3. CASE WebNext /\ UNCHANGED workerVars
  <2> SUFFICES ASSUME NEW c \in Checkins
               PROVE  /\ request'[c] = "ok" => row'[c] # NoRow /\ jobState'[ScheduleJob(c)] # "absent"
                      /\ request'[c] = "error" => jobState'[ScheduleJob(c)] = "absent"
    OBVIOUS
  <2>1. CASE request'[c] = "ok" /\ request[c] # "ok"
    <3>1. Enqueue(c)
      BY <1>3, <2>1 DEF WebNext, CreateStep, Arrive, LockProducer, LockPoisoned, InsertRow,
         InsertFails, InsertHangs, Enqueue, EnqueuePanics, EnqueueHangs, KillWeb, StartWeb,
         TypeOK, WebTypeOK
    <3>2. row'[c] # NoRow
      BY <3>1 DEF Enqueue, RowInv
    <3>3. jobState'[ScheduleJob(c)] = "queued"
      BY <3>1, JobNames DEF Enqueue, Push, TypeOK, FaktoryTypeOK
    <3>4. QED
      BY <2>1, <3>2, <3>3
  <2>2. CASE request'[c] = "error" /\ request[c] # "error"
    <3>1. InsertFails(c)
      BY <1>3, <2>2 DEF WebNext, CreateStep, Arrive, LockProducer, LockPoisoned, InsertRow,
         InsertFails, InsertHangs, Enqueue, EnqueuePanics, EnqueueHangs, KillWeb, StartWeb,
         TypeOK, WebTypeOK
    <3>2. QED
      BY <2>2, <3>1 DEF InsertFails, RowInv, faktoryVars
  <2>3. CASE request'[c] = request[c]
    <3>1. request[c] # "locked" => row'[c] = row[c]
      BY <1>3, WebFrame
    <3>2. request[c] # "inserted" => jobState'[ScheduleJob(c)] = jobState[ScheduleJob(c)]
      BY <1>3, WebFrame
    <3>3. QED
      BY <2>3, <3>1, <3>2
  <2>4. QED
    BY <2>1, <2>2, <2>3
<1>4. QED
  BY <1>1, <1>2, <1>3 DEF Next

\* The lock around INSERT and enqueue, and the poison a failed enqueue leaves,
\* keep the rows without a job apart by incarnation.
LEMMA StepOrphan == IInv /\ [Next]_vars => OrphanInv' /\ OneOrphanPerIncarnation'
<1> SUFFICES ASSUME IInv, [Next]_vars PROVE OrphanInv' /\ OneOrphanPerIncarnation'
  OBVIOUS
<1> USE DEF OrphanInv, OneOrphanPerIncarnation, Orphan, Unqueued
<1> TypeOK /\ HolderInv /\ DownInv /\ RowInv /\ OrphanInv /\ OneOrphanPerIncarnation
  BY DEF IInv
<1>1. CASE UNCHANGED vars
  BY <1>1 DEF vars, webVars, faktoryVars
<1>2. CASE WorkerNext \/ Expiry
  BY <1>2, WorkerFrame, JobNames
<1>3. ASSUME NEW c \in Checkins, InsertRow(c) \/ InsertFails(c) \/ InsertHangs(c)
      PROVE  OrphanInv' /\ OneOrphanPerIncarnation'
  <2>1. /\ holder = c /\ ~poisoned /\ webUp
        /\ request' = [request EXCEPT ![c] = request'[c]]
        /\ request'[c] \in {"inserted", "error", "hung"}
        /\ Commit(c) \/ UNCHANGED <<row, insertedBy>>
        /\ UNCHANGED <<poisoned, webUp, incarnation, faktoryVars>>
    BY <1>3, NobodyAssumption DEF InsertRow, InsertFails, InsertHangs, HolderInv, DownInv, InProgress,
       TypeOK, WebTypeOK
  <2>2. ASSUME NEW d \in Checkins, d # c
        PROVE  /\ Orphan(d)' <=> Orphan(d)
               /\ insertedBy'[d] = insertedBy[d]
               /\ request'[d] = request[d]
    BY <2>1, <2>2 DEF Commit, TypeOK, WebTypeOK, faktoryVars
  <2>3. ASSUME NEW d \in Checkins, d # c, Orphan(d) PROVE insertedBy[d] < incarnation
    <3>1. request[d] \notin {"inserted", "hung"}
      BY <2>1, <2>3 DEF HolderInv
    <3>2. QED
      BY <2>1, <2>3, <3>1 DEF TypeOK, WebTypeOK
  <2>4. Orphan(c)' => insertedBy'[c] = incarnation /\ request'[c] \in {"inserted", "hung"}
    <3>1. row[c] = NoRow
      BY <1>3 DEF InsertRow, InsertFails, InsertHangs, RowInv
    <3>2. CASE Commit(c)
      BY <2>1, <3>2 DEF Commit, TypeOK, WebTypeOK
    <3>3. CASE UNCHANGED <<row, insertedBy>>
      BY <3>1, <3>3
    <3>4. QED
      BY <2>1, <3>2, <3>3
  <2>5. OrphanInv'
    <3> SUFFICES ASSUME NEW d \in Checkins, Orphan(d)'
                 PROVE  /\ insertedBy'[d] <= incarnation'
                        /\ insertedBy'[d] = incarnation' =>
                             request'[d] \in {"inserted", "hung"} \/ poisoned' \/ ~webUp'
      OBVIOUS
    <3>1. CASE d = c
      BY <2>1, <2>4, <3>1 DEF TypeOK, WebTypeOK
    <3>2. CASE d # c
      BY <2>1, <2>2, <2>3, <3>2 DEF TypeOK, WebTypeOK
    <3>3. QED
      BY <3>1, <3>2
  <2>6. OneOrphanPerIncarnation'
    <3> SUFFICES ASSUME NEW d \in Checkins, NEW e \in Checkins, Orphan(d)', Orphan(e)',
                        insertedBy'[d] = insertedBy'[e]
                 PROVE  d = e
      OBVIOUS
    <3>1. ASSUME NEW f \in Checkins, f # c, Orphan(f)'
          PROVE  Orphan(f) /\ insertedBy'[f] = insertedBy[f] /\ insertedBy[f] < incarnation
      BY <2>2, <2>3, <3>1
    <3>2. incarnation \in Nat
      BY DEF TypeOK, WebTypeOK
    <3>3. QED
      BY <2>4, <3>1, <3>2
  <2>7. QED
    BY <2>5, <2>6
<1>4. ASSUME NEW c \in Checkins, Enqueue(c) \/ EnqueuePanics(c) \/ EnqueueHangs(c),
             UNCHANGED workerVars
      PROVE  OrphanInv' /\ OneOrphanPerIncarnation'
  <2>1. UNCHANGED <<row, incarnation, insertedBy, webUp>> /\ (poisoned => poisoned')
    BY <1>4 DEF Enqueue, EnqueuePanics, EnqueueHangs
  <2>2. WebNext
    BY <1>4 DEF WebNext, CreateStep
  <2>3. ASSUME NEW d \in Checkins, Orphan(d)' PROVE Orphan(d)
    <3>1. request[d] # "error"
      BY <1>4, <2>3 DEF Enqueue, EnqueuePanics, EnqueueHangs, TypeOK, WebTypeOK
    <3>2. QED
      BY <2>1, <2>2, <2>3, <3>1, <1>4, WebFrame, JobNames
  <2>4. ASSUME NEW d \in Checkins, Orphan(d)', request[d] \in {"inserted", "hung"}
        PROVE  request'[d] \in {"inserted", "hung"} \/ poisoned'
    <3>1. CASE d = c
      BY <1>4, <2>4, <3>1, JobNames DEF Enqueue, EnqueuePanics, EnqueueHangs, Push, TypeOK,
         FaktoryTypeOK, WebTypeOK
    <3>2. CASE d # c
      BY <1>4, <2>4, <3>2 DEF Enqueue, EnqueuePanics, EnqueueHangs, TypeOK, WebTypeOK
    <3>3. QED
      BY <3>1, <3>2
  <2>5. QED
    BY <2>1, <2>3, <2>4
<1>5. ASSUME NEW c \in Checkins, Arrive(c) \/ LockProducer(c) \/ LockPoisoned(c)
      PROVE  OrphanInv' /\ OneOrphanPerIncarnation'
  <2>1. UNCHANGED <<row, faktoryVars, incarnation, insertedBy, webUp, poisoned>>
    BY <1>5 DEF Arrive, LockProducer, LockPoisoned
  <2>2. \A d \in Checkins : /\ request[d] \in {"inserted", "hung"} => request'[d] = request[d]
                            /\ request[d] = "error" => request'[d] = "error"
    BY <1>5 DEF Arrive, LockProducer, LockPoisoned, TypeOK, WebTypeOK
  <2>3. QED
    BY <2>1, <2>2 DEF faktoryVars
<1>6. CASE KillWeb
  BY <1>6 DEF KillWeb, InProgress, TypeOK, WebTypeOK, faktoryVars
<1>7. CASE StartWeb
  BY <1>7 DEF StartWeb, TypeOK, WebTypeOK, faktoryVars
<1>8. QED
  BY <1>1, <1>2, <1>3, <1>4, <1>5, <1>6, <1>7 DEF Next, WebNext, CreateStep

-----------------------------------------------------------------------------
\* A job keeps within its deliveries, and stays a job about a committed row.
LEMMA StepDelivery == IInv /\ [Next]_vars => DeliveryInv'
<1> SUFFICES ASSUME IInv, [Next]_vars PROVE DeliveryInv'
  OBVIOUS
<1> USE DEF DeliveryInv
<1> TypeOK /\ DeliveryInv /\ RowInv /\ RunInv /\ BusyInv /\ StepInv
  BY DEF IInv
<1>1. CASE UNCHANGED vars
  BY <1>1 DEF vars, faktoryVars
<1>2. ASSUME WebNext, UNCHANGED workerVars PROVE DeliveryInv'
  <2>1. ASSUME NEW j \in ScheduleJobs, jobState'[j] # jobState[j]
        PROVE  jobState[j] = "absent" /\ jobState'[j] = "queued"
    BY <1>2, <2>1, WebFrame, JobNames DEF RowInv
  <2>2. ASSUME NEW j \in Jobs, jobState'[j] # jobState[j] PROVE jobState[j] = "absent" /\ jobState'[j] = "queued"
    BY <1>2, <2>1, <2>2, WebFrame
  <2>3. QED
    BY <1>2, <2>2, WebFrame, DeliveriesAssumption
<1>3. ASSUME NEW j \in Jobs, Expire(j) PROVE DeliveryInv'
  BY <1>3 DEF Expire, Fail, Unacknowledged, TypeOK, FaktoryTypeOK
<1>4. ASSUME NEW t \in Threads, NEW j \in Jobs, Fetch(t, j) PROVE DeliveryInv'
  BY <1>4 DEF Fetch, Reserve, TypeOK, FaktoryTypeOK
<1>5. ASSUME NEW t \in Threads, AckJob(t) \/ FailJob(t) PROVE DeliveryInv'
  BY <1>5 DEF AckJob, FailJob, Acknowledge, Fail, Unacknowledged, TypeOK, FaktoryTypeOK
<1>6. ASSUME NEW t \in Threads, NEW leg \in Legs, QueueStart(t, leg) \/ QueueRaises(t, leg)
      PROVE  DeliveryInv'
  <2> DEFINE j == StartJob(RowOf(t), leg, thread[t].run)
  <2>1. jobState[j] = "absent" /\ thread[t].job \in ScheduleJobs
    BY <1>6 DEF QueueStart, QueueRaises, IsNextLeg, RunInv, StepInv
  <2>2. j \in Jobs => deliveries[j] = 0
    BY <2>1
  <2>3. UNCHANGED faktoryVars \/ Push(j)
    BY <1>6 DEF QueueStart, QueueRaises
  <2>4. QED
    BY <2>2, <2>3, DeliveriesAssumption DEF Push, faktoryVars, TypeOK, FaktoryTypeOK
<1>7. ASSUME NEW t \in Threads, ThreadStep(t)
      PROVE  \/ UNCHANGED faktoryVars
             \/ AckJob(t) \/ FailJob(t)
             \/ \E leg \in Legs : QueueStart(t, leg) \/ QueueRaises(t, leg)
  BY <1>7 DEF ThreadStep, ScheduleStep, StartStep, LookupRaises, LookupFailedCheckin, LookupFound,
       LookupFoundNothing, LookupDone, QueueStart, QueueRefused, QueueRaises, CheckinConfirmed,
       CheckinRaises, ReportApplied, ReportAnswerLost, ReportRaises, AckJob, FailJob
<1>8. CASE UNCHANGED faktoryVars
  BY <1>8 DEF faktoryVars
<1>9. QED
  BY <1>1, <1>2, <1>3, <1>4, <1>5, <1>6, <1>7, <1>8
  DEF Next, WorkerNext, Expiry, WorkerDies, WorkerStarts

LEMMA StepJobsHaveRows == IInv /\ [Next]_vars => JobsHaveRows'
<1> SUFFICES ASSUME IInv, [Next]_vars PROVE JobsHaveRows'
  OBVIOUS
<1> USE DEF JobsHaveRows
<1> TypeOK /\ JobsHaveRows /\ RowInv /\ BusyInv
  BY DEF IInv
<1>1. CASE UNCHANGED vars
  BY <1>1 DEF vars, faktoryVars, webVars
<1>2. ASSUME WebNext, UNCHANGED workerVars PROVE JobsHaveRows'
  <2>1. ASSUME NEW j \in Jobs, jobState'[j] # "absent", jobState[j] = "absent" PROVE row[j.row] # NoRow
    <3>1. j \in ScheduleJobs
      BY <1>2, <2>1, WebFrame
    <3>2. QED
      BY <1>2, <2>1, <3>1, WebFrame, JobNames DEF RowInv
  <2>2. \A j \in Jobs : j.row \in Checkins
    BY JobNames
  <2>3. QED
    BY <1>2, <2>1, <2>2, WebFrame
<1>3. ASSUME WorkerNext \/ Expiry, NEW j \in Jobs, jobState'[j] # "absent", jobState[j] = "absent"
      PROVE  row[j.row] # NoRow
  <2>1. PICK t \in Threads, leg \in Legs : QueueStart(t, leg) \/ QueueRaises(t, leg)
    BY <1>3 DEF WorkerNext, Expiry, Expire, Fetch, Reserve, Acknowledge, Fail, Unacknowledged,
       WorkerDies, WorkerStarts, faktoryVars, TypeOK, FaktoryTypeOK, ThreadStep, ScheduleStep, StartStep, LookupRaises, LookupFailedCheckin, LookupFound,
       LookupFoundNothing, LookupDone, QueueStart, QueueRefused, QueueRaises, CheckinConfirmed,
       CheckinRaises, ReportApplied, ReportAnswerLost, ReportRaises, AckJob, FailJob
  <2>2. thread[t].at = "queue" /\ j = StartJob(RowOf(t), leg, thread[t].run)
    BY <1>3, <2>1 DEF QueueStart, QueueRaises, Push, faktoryVars, TypeOK, FaktoryTypeOK
  <2>3. thread[t].job \in Jobs /\ row[thread[t].job.row] # NoRow
    BY <2>2 DEF BusyInv
  <2>4. j.row = thread[t].job.row
    BY <2>2 DEF StartJob, RowOf
  <2>5. QED
    BY <2>3, <2>4
<1>4. ASSUME WorkerNext \/ Expiry PROVE JobsHaveRows'
  BY <1>3, <1>4, WorkerFrame, JobNames
<1>5. QED
  BY <1>1, <1>2, <1>4 DEF Next

-----------------------------------------------------------------------------
\* How a step of one thread changes that thread, by where it was.
LEMMA ThreadFrame ==
    ASSUME IInv, NEW t \in Threads, ThreadStep(t)
    PROVE  /\ \A u \in Threads : u # t => thread'[u] = thread[u]
           /\ thread[t].at # "idle"
           /\ \/ thread'[t] = Idle
              \/ /\ thread'[t].job = thread[t].job
                 /\ thread'[t].run = thread[t].run
                 /\ thread'[t].at # "idle"
                 /\ thread'[t].at # "lookup"
                 /\ thread'[t].at = "queue" => thread[t].job \in ScheduleJobs
                 /\ thread'[t].at = "checkin" => thread[t].job \in StartJobs
                 /\ thread'[t].at = "report" =>
                      \/ thread[t].job \in ScheduleJobs /\ thread'[t].say \in {"SCHEDULED", "FAILED"}
                      \/ thread[t].job \in StartJobs /\ thread'[t].say = "SUCCESS"
           /\ UNCHANGED deliveries
<1> TypeOK /\ BusyInv /\ StepInv /\ thread[t] \in ThreadStates
  BY DEF IInv, TypeOK, WorkerTypeOK
<1> USE DEF TypeOK, WorkerTypeOK, ThreadStates
<1>1. thread[t].at # "idle" => /\ thread[t].job \in Jobs
                               /\ thread[t].job.kind = "schedule_checkin" => thread[t].job \in ScheduleJobs
                               /\ thread[t].job.kind = "start_checkin" => thread[t].job \in StartJobs
  BY JobNames DEF BusyInv
<1>2. thread[t].at = "report" /\ UpdateAccepted(RowOf(t), thread[t].say) => thread[t].job \in ScheduleJobs
  BY DEF StepInv, UpdateAccepted, CheckinStatusEnum
<1>3. CASE LookupRaises(t) \/ LookupFailedCheckin(t) \/ LookupFoundNothing(t) \/ LookupDone(t)
  BY <1>1, <1>3 DEF LookupRaises, LookupFailedCheckin, LookupFoundNothing, LookupDone, Goto, Breaks, Idle, faktoryVars
<1>4. CASE \E flights \in SUBSET Legs : LookupFound(t, flights)
  BY <1>1, <1>4 DEF LookupFound, faktoryVars
<1>5. CASE \E leg \in Legs : QueueStart(t, leg) \/ QueueRefused(t, leg) \/ QueueRaises(t, leg)
  BY <1>5 DEF QueueStart, QueueRefused, QueueRaises, Goto, Breaks, Idle, Push, faktoryVars, StepInv
<1>6. CASE CheckinConfirmed(t) \/ CheckinRaises(t)
  BY <1>6 DEF CheckinConfirmed, CheckinRaises, Goto, Breaks, Idle, faktoryVars, StepInv
<1>7. CASE ReportApplied(t) \/ ReportAnswerLost(t) \/ ReportRaises(t)
  BY <1>2, <1>7 DEF ReportApplied, ReportAnswerLost, ReportRaises, UpdateCheckinStatus, Goto, Breaks, Idle,
     AfterReport, faktoryVars
<1>8. CASE AckJob(t) \/ FailJob(t)
  BY <1>8 DEF AckJob, FailJob, Acknowledge, Fail
<1>9. QED
  BY <1>3, <1>4, <1>5, <1>6, <1>7, <1>8 DEF ThreadStep, ScheduleStep, StartStep

\* Busy threads keep running distinct deliveries of stored jobs, each inside the
\* function its job names.
LEMMA StepThreads == IInv /\ [Next]_vars => BusyInv' /\ DistinctRuns' /\ StepInv'
<1> SUFFICES ASSUME IInv, [Next]_vars PROVE BusyInv' /\ DistinctRuns' /\ StepInv'
  OBVIOUS
<1> TypeOK /\ BusyInv /\ DistinctRuns /\ StepInv
  BY DEF IInv
<1> USE DEF BusyInv, DistinctRuns, StepInv
<1>1. CASE UNCHANGED vars
  BY <1>1 DEF vars, workerVars, faktoryVars
<1>2. ASSUME WebNext, UNCHANGED workerVars PROVE BusyInv' /\ DistinctRuns' /\ StepInv'
  BY <1>2, WebFrame DEF workerVars
<1>3. CASE Expiry
  <2>1. UNCHANGED <<thread, deliveries>>
    BY <1>3 DEF Expiry, Expire, Fail, workerVars
  <2>2. QED
    BY <1>3, <2>1, WorkerFrame
<1>4. ASSUME NEW t \in Threads, NEW j \in Jobs, Fetch(t, j)
      PROVE  BusyInv' /\ DistinctRuns' /\ StepInv'
  <2>1. /\ thread'[t].at = "lookup"
        /\ thread'[t].job = j
        /\ thread'[t].run = deliveries[j] + 1
        /\ \A u \in Threads : u # t => thread'[u] = thread[u]
    BY <1>4 DEF Fetch, Reserve, Idle, TypeOK, WorkerTypeOK, FaktoryTypeOK
  <2>2. /\ deliveries'[j] = deliveries[j] + 1
        /\ deliveries[j] \in Nat
        /\ jobState'[j] = "reserved"
        /\ \A i \in Jobs : i # j => deliveries'[i] = deliveries[i] /\ jobState'[i] = jobState[i]
    BY <1>4 DEF Fetch, Reserve, TypeOK, FaktoryTypeOK
  <2>3. BusyInv'
    BY <2>1, <2>2 DEF TypeOK, FaktoryTypeOK
  <2>4. DistinctRuns'
    BY <2>1, <2>2 DEF TypeOK, FaktoryTypeOK
  <2>5. StepInv'
    BY <2>1
  <2>6. QED
    BY <2>3, <2>4, <2>5
<1>5. ASSUME NEW t \in Threads, ThreadStep(t) PROVE BusyInv' /\ DistinctRuns' /\ StepInv'
  <2>1. \A j \in Jobs : jobState[j] # "absent" => jobState'[j] # "absent"
    BY <1>5, WorkerFrame DEF WorkerNext
  <2>2. Idle.at = "idle"
    BY DEF Idle
  <2>3. BusyInv'
    BY <1>5, <2>1, <2>2, ThreadFrame
  <2>4. DistinctRuns'
    BY <1>5, <2>2, ThreadFrame
  <2>5. StepInv'
    BY <1>5, <2>2, ThreadFrame
  <2>6. QED
    BY <2>3, <2>4, <2>5
<1>6. CASE WorkerDies
  BY <1>6 DEF WorkerDies, Idle
<1>7. CASE WorkerStarts
  BY <1>7 DEF WorkerStarts, faktoryVars
<1>8. QED
  BY <1>1, <1>2, <1>3, <1>4, <1>5, <1>6, <1>7 DEF Next, WorkerNext

-----------------------------------------------------------------------------
\* A thread reaches "ack" only from a report that was applied or from a lookup
\* that found nothing, and what is accounted for stays accounted for.
LEMMA StepAck == IInv /\ [Next]_vars => AckInv' /\ AckedMeansReported'
<1> SUFFICES ASSUME IInv, [Next]_vars PROVE AckInv' /\ AckedMeansReported'
  OBVIOUS
<1> USE DEF AckInv, AckedMeansReported, Accounted
<1> TypeOK /\ RowInv /\ BusyInv /\ StepInv /\ AckInv /\ AckedMeansReported
  BY DEF IInv
<1>1. CASE UNCHANGED vars
  BY <1>1 DEF vars, workerVars, faktoryVars, webVars, RowOf
<1>2. ASSUME WebNext, UNCHANGED workerVars PROVE AckInv' /\ AckedMeansReported'
  <2>1. ASSUME NEW c \in Checkins, Accounted(c) PROVE Accounted(c)'
    <3>1. CASE row'[c] = row[c]
      BY <1>2, <2>1, <3>1 DEF workerVars
    <3>2. CASE request[c] = "locked"
      <4>1. row[c] = NoRow
        BY <3>2 DEF RowInv
      <4>2. c \in noFlights
        BY <2>1, <4>1, NoRowAssumption DEF CheckinStatusEnum
      <4>3. QED
        BY <1>2, <4>2 DEF workerVars
    <3>3. QED
      BY <1>2, <3>1, <3>2, WebFrame
  <2>2. ASSUME NEW c \in Checkins, jobState'[ScheduleJob(c)] = "acked"
        PROVE  jobState[ScheduleJob(c)] = "acked"
    BY <1>2, <2>2, WebFrame
  <2>3. \A j \in ScheduleJobs : j.row \in Checkins
    BY JobNames
  <2>4. QED
    BY <1>2, <2>1, <2>2, <2>3 DEF workerVars, RowOf
<1>3. CASE Expiry
  BY <1>3, JobNames DEF Expiry, Expire, Fail, Unacknowledged, webVars, workerVars, RowOf, TypeOK, FaktoryTypeOK
<1>4. ASSUME NEW t \in Threads, NEW j \in Jobs, Fetch(t, j) PROVE AckInv' /\ AckedMeansReported'
  <2>1. AckInv'
    BY <1>4 DEF Fetch, webVars, RowOf, Idle, TypeOK, WorkerTypeOK
  <2>2. AckedMeansReported'
    BY <1>4, JobNames DEF Fetch, Reserve, webVars, TypeOK, FaktoryTypeOK
  <2>3. QED
    BY <2>1, <2>2
<1>5. ASSUME NEW t \in Threads, ThreadStep(t) PROVE AckInv' /\ AckedMeansReported'
  <2>1. \/ UNCHANGED webVars
        \/ /\ thread[t].at = "report"
           /\ UpdateCheckinStatus(RowOf(t), thread[t].say)
    BY <1>5 DEF ThreadStep, ScheduleStep, StartStep, LookupRaises, LookupFailedCheckin, LookupFound,
       LookupFoundNothing, LookupDone, QueueStart, QueueRefused, QueueRaises, CheckinConfirmed,
       CheckinRaises, ReportApplied, ReportAnswerLost, ReportRaises, AckJob, FailJob
  <2>2. noFlights \subseteq noFlights'
    BY <1>5 DEF ThreadStep, ScheduleStep, StartStep, LookupRaises, LookupFailedCheckin, LookupFound,
       LookupFoundNothing, LookupDone, QueueStart, QueueRefused, QueueRaises, CheckinConfirmed,
       CheckinRaises, ReportApplied, ReportAnswerLost, ReportRaises, AckJob, FailJob
  <2>3. ASSUME thread[t].at = "report", UpdateCheckinStatus(RowOf(t), thread[t].say)
        PROVE  /\ thread[t].job \in ScheduleJobs
               /\ row'[RowOf(t)] \in {"SCHEDULED", "FAILED"}
               /\ \A c \in Checkins : c # RowOf(t) => row'[c] = row[c]
    BY <2>3, JobNames DEF StepInv, UpdateCheckinStatus, UpdateAccepted, CheckinStatusEnum, RowOf,
       TypeOK, WebTypeOK
  <2>4. ASSUME NEW c \in Checkins, Accounted(c) PROVE Accounted(c)'
    BY <2>1, <2>2, <2>3, <2>4 DEF webVars
  <2>5. ASSUME thread'[t].at = "ack"
        PROVE  /\ thread[t].at # "ack"
               /\ thread'[t].job = thread[t].job
               /\ thread[t].job \in ScheduleJobs
               /\ Accounted(RowOf(t))'
    <3>1. /\ thread'[t].job = thread[t].job
          /\ \/ LookupFoundNothing(t)
             \/ ReportApplied(t)
      BY <1>5, <2>5 DEF ThreadStep, ScheduleStep, StartStep, LookupRaises, LookupFailedCheckin, LookupFound,
       LookupFoundNothing, LookupDone, QueueStart, QueueRefused, QueueRaises, CheckinConfirmed,
       CheckinRaises, ReportApplied, ReportAnswerLost, ReportRaises, AckJob, FailJob, Goto, Breaks, AfterReport, Idle, TypeOK, WorkerTypeOK, ThreadStates
    <3>2. CASE LookupFoundNothing(t)
      <4>1. thread[t].job \in ScheduleJobs
        BY <3>2, JobNames DEF LookupFoundNothing, BusyInv
      <4>2. RowOf(t) \in noFlights' /\ RowOf(t)' = RowOf(t)
        BY <3>1, <3>2 DEF LookupFoundNothing, RowOf
      <4>3. QED
        BY <3>1, <3>2, <4>1, <4>2 DEF LookupFoundNothing
    <3>3. CASE ReportApplied(t)
      <4>1. RowOf(t)' = RowOf(t)
        BY <3>1 DEF RowOf
      <4>2. QED
        BY <2>3, <3>1, <3>3, <4>1 DEF ReportApplied
    <3>4. QED
      BY <3>1, <3>2, <3>3
  <2>6. AckInv'
    <3>1. ASSUME NEW u \in Threads, u # t, thread'[u].at = "ack"
          PROVE  thread'[u].job \in ScheduleJobs /\ Accounted(RowOf(u))'
      <4>1. thread'[u] = thread[u]
        BY <1>5, <3>1, ThreadFrame
      <4>2. RowOf(u) \in Checkins /\ thread[u].job \in ScheduleJobs /\ Accounted(RowOf(u))
        BY <3>1, <4>1, JobNames DEF RowOf
      <4>3. RowOf(u)' = RowOf(u)
        BY <4>1 DEF RowOf
      <4>4. QED
        BY <2>4, <4>1, <4>2, <4>3
    <3>2. QED
      BY <2>5, <3>1
  <2>7. ASSUME NEW c \in Checkins, jobState'[ScheduleJob(c)] = "acked",
               jobState[ScheduleJob(c)] # "acked"
        PROVE  Accounted(c)
    <3>1. AckJob(t)
      BY <1>5, <2>7, JobNames DEF ThreadStep, ScheduleStep, StartStep, LookupRaises, LookupFailedCheckin, LookupFound,
       LookupFoundNothing, LookupDone, QueueStart, QueueRefused, QueueRaises, CheckinConfirmed,
       CheckinRaises, ReportApplied, ReportAnswerLost, ReportRaises, AckJob, FailJob, Push, Fail, Unacknowledged, faktoryVars, TypeOK, FaktoryTypeOK
    <3>2. thread[t].job = ScheduleJob(c)
      BY <2>7, <3>1, JobNames DEF AckJob, Acknowledge, TypeOK, FaktoryTypeOK
    <3>3. QED
      BY <3>1, <3>2, JobNames DEF AckJob, RowOf
  <2>8. QED
    BY <2>4, <2>6, <2>7
<1>6. CASE WorkerDies
  BY <1>6 DEF WorkerDies, Idle, faktoryVars, webVars
<1>7. CASE WorkerStarts
  BY <1>7 DEF WorkerStarts, faktoryVars, webVars, RowOf
<1>8. QED
  BY <1>1, <1>2, <1>3, <1>4, <1>5, <1>6, <1>7 DEF Next, WorkerNext

-----------------------------------------------------------------------------
\* A job once stored is never forgotten, so a planned leg stays planned.
LEMMA JobsStay == IInv /\ [Next]_vars =>
    /\ \A j \in Jobs : jobState[j] # "absent" => jobState'[j] # "absent"
    /\ \A c \in Checkins, leg \in Legs : Planned(c, leg) => Planned(c, leg)'
<1> SUFFICES ASSUME IInv, [Next]_vars
             PROVE  \A j \in Jobs : jobState[j] # "absent" => jobState'[j] # "absent"
  BY JobNames DEF Planned
<1>1. CASE UNCHANGED vars
  BY <1>1 DEF vars, faktoryVars
<1>2. QED
  BY <1>1, WebFrame, WorkerFrame DEF Next

\* A thread comes to say SCHEDULED only by queueing a start job, and only such a
\* thread writes SCHEDULED.
LEMMA StepSay == IInv /\ [Next]_vars => SayInv' /\ ScheduledIsBacked'
<1> SUFFICES ASSUME IInv, [Next]_vars PROVE SayInv' /\ ScheduledIsBacked'
  OBVIOUS
<1> USE DEF SayInv, ScheduledIsBacked
<1> TypeOK /\ BusyInv /\ StepInv /\ SayInv /\ ScheduledIsBacked
  BY DEF IInv
<1>1. \A c \in Checkins, leg \in Legs : Planned(c, leg) => Planned(c, leg)'
  BY JobsStay
<1>2. \A t \in Threads : thread[t].at # "idle" => RowOf(t) \in Checkins
  BY JobNames DEF BusyInv, RowOf
<1>3. CASE UNCHANGED <<thread, row>>
  BY <1>1, <1>2, <1>3 DEF RowOf
<1>4. ASSUME WebNext, UNCHANGED workerVars PROVE SayInv' /\ ScheduledIsBacked'
  <2>1. ASSUME NEW c \in Checkins, row'[c] = "SCHEDULED" PROVE row[c] = "SCHEDULED"
    BY <1>4, <2>1, WebFrame DEF InsertRow, TypeOK, WebTypeOK
  <2>2. QED
    BY <1>1, <1>2, <1>4, <2>1 DEF workerVars, RowOf
<1>5. ASSUME NEW t \in Threads, NEW j \in Jobs, Fetch(t, j) PROVE SayInv' /\ ScheduledIsBacked'
  <2>1. thread'[t].at = "lookup" /\ (\A u \in Threads : u # t => thread'[u] = thread[u])
        /\ UNCHANGED row
    BY <1>5 DEF Fetch, Idle, webVars, TypeOK, WorkerTypeOK
  <2>2. QED
    BY <1>1, <1>2, <2>1 DEF RowOf
<1>6. ASSUME NEW t \in Threads, ThreadStep(t) PROVE SayInv' /\ ScheduledIsBacked'
  <2>1. ASSUME thread'[t].at = "report", thread'[t].say = "SCHEDULED"
        PROVE  \E leg \in Legs : Planned(RowOf(t), leg)'
    <3>1. PICK leg \in Legs : QueueStart(t, leg)
      BY <1>6, <2>1 DEF ThreadStep, ScheduleStep, StartStep, LookupRaises, LookupFailedCheckin, LookupFound,
       LookupFoundNothing, LookupDone, QueueStart, QueueRefused, QueueRaises, CheckinConfirmed,
       CheckinRaises, ReportApplied, ReportAnswerLost, ReportRaises, AckJob, FailJob, Goto, Breaks, AfterReport, Idle, TypeOK, WorkerTypeOK, ThreadStates
    <3>2. thread[t].at = "queue" /\ RowOf(t) \in Checkins /\ thread[t].run \in 1 .. MaxDeliveries
      BY <3>1, <1>2, DeliveriesAssumption DEF QueueStart, BusyInv, TypeOK, FaktoryTypeOK
    <3>3. jobState'[StartJob(RowOf(t), leg, thread[t].run)] = "queued"
      BY <3>1, <3>2, JobNames DEF QueueStart, Push, TypeOK, FaktoryTypeOK
    <3>4. RowOf(t)' = RowOf(t)
      BY <1>6, <2>1, ThreadFrame DEF RowOf, Idle
    <3>5. QED
      BY <3>2, <3>3, <3>4 DEF Planned
  <2>2. SayInv'
    <3>1. ASSUME NEW u \in Threads, u # t PROVE thread'[u] = thread[u] /\ RowOf(u)' = RowOf(u)
      BY <1>6, <3>1, ThreadFrame DEF RowOf
    <3>2. QED
      BY <1>1, <1>2, <2>1, <3>1
  <2>3. \/ UNCHANGED webVars
        \/ /\ thread[t].at = "report"
           /\ UpdateCheckinStatus(RowOf(t), thread[t].say)
    BY <1>6 DEF ThreadStep, ScheduleStep, StartStep, LookupRaises, LookupFailedCheckin, LookupFound,
       LookupFoundNothing, LookupDone, QueueStart, QueueRefused, QueueRaises, CheckinConfirmed,
       CheckinRaises, ReportApplied, ReportAnswerLost, ReportRaises, AckJob, FailJob
  <2>4. ASSUME thread[t].at = "report", UpdateCheckinStatus(RowOf(t), thread[t].say),
               NEW c \in Checkins, row'[c] = "SCHEDULED", row[c] # "SCHEDULED"
        PROVE  c = RowOf(t) /\ thread[t].say = "SCHEDULED"
    BY <2>4 DEF UpdateCheckinStatus, TypeOK, WebTypeOK
  <2>5. ScheduledIsBacked'
    BY <1>1, <2>3, <2>4 DEF webVars
  <2>6. QED
    BY <2>2, <2>5
<1>7. CASE WorkerDies
  BY <1>1, <1>7 DEF WorkerDies, Idle, webVars
<1>8. CASE WorkerStarts
  BY <1>3, <1>8 DEF WorkerStarts, webVars
<1>9. QED
  BY <1>3, <1>4, <1>5, <1>6, <1>7, <1>8 DEF Next, WorkerNext, Expiry, vars, webVars, workerVars

\* Legs are checked in by their own start jobs only.
LEMMA StepCheckedIn == IInv /\ [Next]_vars => CheckedInInv'
<1> SUFFICES ASSUME IInv, [Next]_vars PROVE CheckedInInv'
  OBVIOUS
<1> USE DEF CheckedInInv
<1> BusyInv /\ StepInv /\ CheckedInInv
  BY DEF IInv
<1>1. \A c \in Checkins, leg \in Legs : Planned(c, leg) => Planned(c, leg)'
  BY JobsStay
<1>2. CASE UNCHANGED checkedIn
  BY <1>1, <1>2
<1>3. ASSUME NEW t \in Threads, CheckinConfirmed(t) \/ CheckinRaises(t) PROVE CheckedInInv'
  <2>1. /\ thread[t].at = "checkin"
        /\ checkedIn' \subseteq checkedIn \cup {<<RowOf(t), thread[t].job.leg>>}
    BY <1>3 DEF CheckinConfirmed, CheckinRaises
  <2>2. thread[t].job \in StartJobs /\ jobState[thread[t].job] # "absent"
    BY <2>1 DEF StepInv, BusyInv
  <2>3. Planned(RowOf(t), thread[t].job.leg)
    BY <2>2, JobNames DEF Planned, RowOf
  <2>4. RowOf(t) \in Checkins /\ thread[t].job.leg \in Legs
    BY <2>2, JobNames DEF RowOf
  <2>5. QED
    BY <1>1, <2>1, <2>3, <2>4
<1>4. ASSUME NEW t \in Threads, ThreadStep(t)
      PROVE  UNCHANGED checkedIn \/ CheckinConfirmed(t) \/ CheckinRaises(t)
  BY <1>4 DEF ThreadStep, ScheduleStep, StartStep, LookupRaises, LookupFailedCheckin, LookupFound,
       LookupFoundNothing, LookupDone, QueueStart, QueueRefused, QueueRaises, CheckinConfirmed,
       CheckinRaises, ReportApplied, ReportAnswerLost, ReportRaises, AckJob, FailJob
<1>5. QED
  BY <1>2, <1>3, <1>4 DEF Next, WorkerNext, Fetch, WorkerDies, WorkerStarts, Expiry, vars, workerVars

-----------------------------------------------------------------------------
\* Each delivery queues a leg at most once, because start jobs carry the number
\* of the delivery and a queued leg leaves the loop.
LEMMA StepRun == IInv /\ [Next]_vars => RunInv'
<1> SUFFICES ASSUME IInv, [Next]_vars PROVE RunInv'
  OBVIOUS
<1> TypeOK /\ BusyInv /\ DistinctRuns /\ StepInv /\ RunInv /\ DeliveryInv /\ RowInv
  BY DEF IInv
<1> DEFINE
      Past == \A c \in Checkins, leg \in Legs, n \in 1 .. MaxDeliveries :
                jobState[StartJob(c, leg, n)] # "absent" => n <= deliveries[ScheduleJob(c)]
      Fresh(t) == \A leg \in Legs :
                    (thread[t].at = "lookup" \/ leg \in thread[t].todo) =>
                      jobState[StartJob(RowOf(t), leg, thread[t].run)] = "absent"
      Looping(t) == thread[t].at \in {"lookup", "queue", "report"} /\ thread[t].job \in ScheduleJobs
<1>1. RunInv <=> Past /\ \A t \in Threads : Looping(t) => Fresh(t)
  BY DEF RunInv
<1>2. ASSUME Past', \A t \in Threads : Looping(t)' => Fresh(t)' PROVE RunInv'
  BY <1>2 DEF RunInv
<1> HIDE DEF Past, Fresh, Looping
<1> Past /\ \A t \in Threads : Looping(t) => Fresh(t)
  BY <1>1
<1>3. CASE UNCHANGED <<thread, deliveries>> /\ \A j \in StartJobs : jobState'[j] = "absent" <=> jobState[j] = "absent"
  <2>1. \A t \in Threads : Looping(t) => RowOf(t) \in Checkins /\ thread[t].run \in 1 .. MaxDeliveries
    BY JobNames, DeliveriesAssumption DEF Looping, BusyInv, RowOf, TypeOK, FaktoryTypeOK
  <2>2. Past'
    BY <1>3, JobNames DEF Past
  <2>3. \A t \in Threads : RowOf(t)' = RowOf(t) /\ (Looping(t)' <=> Looping(t))
    BY <1>3 DEF RowOf, Looping
  <2>4. \A t \in Threads : Looping(t)' => Fresh(t)'
    BY <1>3, <2>1, <2>3, JobNames DEF Fresh
  <2>5. QED
    BY <1>2, <2>2, <2>4
<1>4. ASSUME WebNext, UNCHANGED workerVars PROVE RunInv'
  <2>1. \A j \in StartJobs : j \in Jobs /\ j \notin ScheduleJobs
    BY JobNames
  <2>2. QED
    BY <1>3, <1>4, <2>1, WebFrame DEF workerVars
<1>5. CASE Expiry
  BY <1>3, <1>5 DEF Expiry, Expire, Fail, Unacknowledged, workerVars, TypeOK, FaktoryTypeOK
<1>6. ASSUME NEW t \in Threads, NEW j \in Jobs, Fetch(t, j) PROVE RunInv'
  <2>1. /\ thread'[t].at = "lookup"
        /\ thread'[t].job = j
        /\ thread'[t].run = deliveries[j] + 1
        /\ \A u \in Threads : u # t => thread'[u] = thread[u]
        /\ deliveries[j] \in Nat
        /\ jobState[j] = "queued" /\ jobState'[j] = "reserved"
        /\ \A i \in Jobs : i # j => deliveries'[i] = deliveries[i] /\ jobState'[i] = jobState[i]
        /\ deliveries'[j] = deliveries[j] + 1
    BY <1>6 DEF Fetch, Reserve, Idle, TypeOK, WorkerTypeOK, FaktoryTypeOK
  <2>2. \A i \in Jobs : jobState'[i] = "absent" <=> jobState[i] = "absent"
    BY <2>1
  <2>3. Past'
    <3>1. \A c \in Checkins : deliveries[ScheduleJob(c)] <= deliveries'[ScheduleJob(c)]
                             /\ deliveries[ScheduleJob(c)] \in Nat /\ deliveries'[ScheduleJob(c)] \in Nat
      BY <2>1, JobNames DEF TypeOK, FaktoryTypeOK
    <3>2. QED
      BY <2>2, <3>1, JobNames DEF Past
  <2>4. ASSUME NEW u \in Threads, u # t, Looping(u)' PROVE Fresh(u)'
    <3>1. thread'[u] = thread[u] /\ RowOf(u)' = RowOf(u)
      BY <2>1, <2>4 DEF RowOf
    <3>2. Looping(u)
      BY <2>4, <3>1 DEF Looping
    <3>3. RowOf(u) \in Checkins /\ thread[u].run \in 1 .. MaxDeliveries
      BY <3>2, JobNames, DeliveriesAssumption DEF Looping, BusyInv, RowOf, TypeOK, FaktoryTypeOK
    <3>4. QED
      BY <2>2, <3>1, <3>2, <3>3, JobNames DEF Fresh
  <2>5. ASSUME Looping(t)' PROVE Fresh(t)'
    <3>1. j \in ScheduleJobs /\ j.row \in Checkins /\ j = ScheduleJob(j.row)
      BY <2>1, <2>5, JobNames DEF Looping
    <3>2. deliveries[j] + 1 \in 1 .. MaxDeliveries
      BY <2>1, DeliveriesAssumption DEF DeliveryInv
    <3>3. \A leg \in Legs : jobState[StartJob(j.row, leg, deliveries[j] + 1)] = "absent"
      BY <2>1, <3>1, <3>2 DEF Past
    <3>4. RowOf(t)' = j.row
      BY <2>1 DEF RowOf
    <3>5. QED
      BY <2>1, <2>2, <3>1, <3>2, <3>3, <3>4, JobNames DEF Fresh
  <2>6. QED
    BY <1>2, <2>3, <2>4, <2>5
<1>7. ASSUME NEW t \in Threads, ThreadStep(t) PROVE RunInv'
  <2> DEFINE Pushed(leg) == StartJob(RowOf(t), leg, thread[t].run)
  <2>1. \/ \A j \in StartJobs : jobState'[j] = "absent" <=> jobState[j] = "absent"
        \/ \E leg \in Legs : /\ QueueStart(t, leg) \/ QueueRaises(t, leg)
                            /\ leg \in thread[t].todo
                            /\ \A j \in Jobs : j # Pushed(leg) => jobState'[j] = jobState[j]
    <3>1. CASE AckJob(t) \/ FailJob(t)
      BY <3>1, JobNames DEF AckJob, FailJob, Acknowledge, Fail, Unacknowledged, TypeOK, FaktoryTypeOK
    <3>2. CASE \E leg \in Legs : QueueStart(t, leg) \/ QueueRaises(t, leg)
      BY <3>2 DEF QueueStart, QueueRaises, IsNextLeg, Push, faktoryVars, TypeOK, FaktoryTypeOK
    <3>3. UNCHANGED jobState \/ AckJob(t) \/ FailJob(t)
          \/ \E leg \in Legs : QueueStart(t, leg) \/ QueueRaises(t, leg)
      BY <1>7 DEF ThreadStep, ScheduleStep, StartStep, LookupRaises, LookupFailedCheckin, LookupFound,
       LookupFoundNothing, LookupDone, QueueStart, QueueRefused, QueueRaises, CheckinConfirmed,
       CheckinRaises, ReportApplied, ReportAnswerLost, ReportRaises, AckJob, FailJob, faktoryVars
    <3>4. QED
      BY <3>1, <3>2, <3>3
  <2>2. \A u \in Threads : u # t => thread'[u] = thread[u] /\ RowOf(u)' = RowOf(u)
    BY <1>7, ThreadFrame DEF RowOf
  <2>3. UNCHANGED deliveries
    BY <1>7, ThreadFrame
  <2>4. \A u \in Threads : thread[u].at # "idle" =>
          RowOf(u) \in Checkins /\ thread[u].run \in 1 .. MaxDeliveries
    BY JobNames, DeliveriesAssumption DEF BusyInv, RowOf, TypeOK, FaktoryTypeOK
  <2>5. CASE \A j \in StartJobs : jobState'[j] = "absent" <=> jobState[j] = "absent"
    <3>1. Past'
      BY <2>3, <2>5, JobNames DEF Past
    <3>2. ASSUME NEW u \in Threads, u # t, Looping(u)' PROVE Fresh(u)'
      BY <2>2, <2>4, <2>5, <3>2, JobNames DEF Fresh, Looping
    <3>3. ASSUME Looping(t)' PROVE Fresh(t)'
      <4>1. /\ thread'[t].job = thread[t].job
            /\ thread'[t].run = thread[t].run
            /\ thread'[t].at # "lookup"
            /\ RowOf(t)' = RowOf(t)
        BY <1>7, <3>3, ThreadFrame DEF Looping, Idle, RowOf
      <4>2. Looping(t)
        BY <1>7, <3>3, <4>1, JobNames DEF Looping, StepInv, Idle, ThreadStep, ScheduleStep, StartStep, LookupRaises, LookupFailedCheckin, LookupFound,
         LookupFoundNothing, LookupDone, QueueStart, QueueRefused, QueueRaises, CheckinConfirmed,
         CheckinRaises, ReportApplied, ReportAnswerLost, ReportRaises, AckJob, FailJob, Goto, Breaks, AfterReport,
           TypeOK, WorkerTypeOK, ThreadStates
      <4>3. thread'[t].todo \subseteq thread[t].todo \/ thread[t].at = "lookup"
        BY <1>7, <3>3 DEF Looping, Idle, ThreadStep, ScheduleStep, StartStep, LookupRaises, LookupFailedCheckin, LookupFound,
         LookupFoundNothing, LookupDone, QueueStart, QueueRefused, QueueRaises, CheckinConfirmed,
         CheckinRaises, ReportApplied, ReportAnswerLost, ReportRaises, AckJob, FailJob, Goto, Breaks, AfterReport, TypeOK, WorkerTypeOK, ThreadStates
      <4>4. Fresh(t) /\ RowOf(t) \in Checkins /\ thread[t].run \in 1 .. MaxDeliveries
        BY <2>4, <4>2 DEF Looping
      <4>5. QED
        BY <2>5, <4>1, <4>3, <4>4, JobNames DEF Fresh
    <3>4. QED
      BY <1>2, <3>1, <3>2, <3>3
  <2>6. ASSUME NEW leg \in Legs, QueueStart(t, leg) \/ QueueRaises(t, leg), leg \in thread[t].todo,
               \A j \in Jobs : j # Pushed(leg) => jobState'[j] = jobState[j]
        PROVE  RunInv'
    <3>1. thread[t].at = "queue" /\ thread[t].job \in ScheduleJobs
      BY <2>6 DEF QueueStart, QueueRaises, StepInv
    <3>2. /\ RowOf(t) \in Checkins
          /\ thread[t].job = ScheduleJob(RowOf(t))
          /\ thread[t].run \in 1 .. MaxDeliveries
          /\ thread[t].run <= deliveries[ScheduleJob(RowOf(t))]
      BY <2>4, <3>1, JobNames DEF RowOf, BusyInv, TypeOK, FaktoryTypeOK
    <3>3. ASSUME NEW c \in Checkins, NEW l \in Legs, NEW n \in 1 .. MaxDeliveries,
                 StartJob(c, l, n) = Pushed(leg)
          PROVE  c = RowOf(t) /\ l = leg /\ n = thread[t].run
      BY <3>2, <3>3, JobNames
    <3>4. Past'
      BY <2>3, <2>6, <3>2, <3>3, JobNames DEF Past
    <3>5. ASSUME NEW u \in Threads, u # t, Looping(u)' PROVE Fresh(u)'
      <4>1. thread'[u] = thread[u] /\ RowOf(u)' = RowOf(u) /\ Looping(u) /\ Fresh(u)
        BY <2>2, <3>5 DEF Looping
      <4>2. RowOf(u) \in Checkins /\ thread[u].run \in 1 .. MaxDeliveries
            /\ thread[u].job = ScheduleJob(RowOf(u))
        BY <2>4, <4>1, JobNames DEF Looping, RowOf
      <4>3. ASSUME NEW l \in Legs PROVE StartJob(RowOf(u), l, thread[u].run) # Pushed(leg)
        BY <3>1, <3>2, <3>3, <3>5, <4>1, <4>2 DEF DistinctRuns, Looping
      <4>4. \A l \in Legs : StartJob(RowOf(u), l, thread[u].run) \in Jobs
        BY <4>2, JobNames
      <4>5. QED
        BY <2>6, <4>1, <4>3, <4>4 DEF Fresh
    <3>6. ASSUME Looping(t)' PROVE Fresh(t)'
      <4>1. QueueStart(t, leg)
        BY <2>6, <3>6 DEF QueueRaises, Goto, Breaks, Looping, TypeOK, WorkerTypeOK, ThreadStates
      <4>2. /\ thread'[t].todo = thread[t].todo \ {leg}
            /\ thread'[t].run = thread[t].run
            /\ thread'[t].at = "report"
            /\ RowOf(t)' = RowOf(t)
        BY <4>1 DEF QueueStart, RowOf, TypeOK, WorkerTypeOK, ThreadStates
      <4>3. Fresh(t)
        BY <3>1 DEF Looping
      <4>4. ASSUME NEW l \in Legs, l # leg
            PROVE  StartJob(RowOf(t), l, thread[t].run) \in Jobs
                   /\ StartJob(RowOf(t), l, thread[t].run) # Pushed(leg)
        BY <3>2, <3>3, <4>4, JobNames
      <4>5. QED
        BY <2>6, <4>2, <4>3, <4>4 DEF Fresh
    <3>7. QED
      BY <1>2, <3>4, <3>5, <3>6
  <2>7. QED
    BY <2>1, <2>5, <2>6
<1>8. CASE WorkerDies
  <2>1. Past' /\ \A t \in Threads : ~Looping(t)'
    BY <1>8 DEF WorkerDies, Idle, Past, Looping, faktoryVars
  <2>2. QED
    BY <1>2, <2>1
<1>9. CASE WorkerStarts \/ UNCHANGED vars
  BY <1>3, <1>9 DEF WorkerStarts, vars, faktoryVars, workerVars
<1>10. QED
  BY <1>4, <1>5, <1>6, <1>7, <1>8, <1>9 DEF Next, WorkerNext

-----------------------------------------------------------------------------
\* The inductive invariant holds in every reachable state.
THEOREM PipelineInvariant == Spec => []IInv
<1>1. Init => IInv
  BY InitIInv
<1>2. IInv /\ [Next]_vars => IInv'
  BY StepTypeOK, StepHolder, StepRow, StepAnswers, StepOrphan, StepDelivery, StepJobsHaveRows, StepThreads,
     StepAck, StepSay, StepCheckedIn, StepRun DEF IInv
<1>3. QED
  BY <1>1, <1>2, PTL DEF Spec

\* Every variable of the web backend, the job server and the worker stays in its
\* type, and every counter within its bound.
THEOREM TypeCorrect == Spec => []TypeOK
<1>1. IInv => TypeOK
  BY DEF IInv
<1>2. QED
  BY <1>1, PipelineInvariant, PTL

\* create_checkin leaves at most one row without a job and without an error behind
\* in each run of the web process, however many requests race for the producer.
THEOREM OrphansAreBounded == Spec => []OneOrphanPerIncarnation
<1>1. IInv => OneOrphanPerIncarnation
  BY DEF IInv
<1>2. QED
  BY <1>1, PipelineInvariant, PTL

\* No job is ever about a row the database does not hold.
THEOREM JobsAreAboutRows == Spec => []JobsHaveRows
<1>1. IInv => JobsHaveRows
  BY DEF IInv
<1>2. QED
  BY <1>1, PipelineInvariant, PTL

\* SCHEDULED in the table means that a start_checkin job was stored.
THEOREM ScheduledMeansQueued == Spec => []ScheduledIsBacked
<1>1. IInv => ScheduledIsBacked
  BY DEF IInv
<1>2. QED
  BY <1>1, PipelineInvariant, PTL

\* An acknowledged schedule job has been reported on, or had nothing to report.
THEOREM AckedJobsAreReported == Spec => []AckedMeansReported
<1>1. IInv => AckedMeansReported
  BY DEF IInv
<1>2. QED
  BY <1>1, PipelineInvariant, PTL

\* A createCheckin that was answered has told the truth about its row and its job,
\* whatever races, panics, restarts and redeliveries came before and after.
THEOREM AnsweredTruthfully == Spec => []AnswersAreTrue
<1>1. IInv => AnswersAreTrue
  BY DEF IInv
<1>2. QED
  BY <1>1, PipelineInvariant, PTL

\* Every waiting row waits for a known reason: there is no state in which its job
\* is lost and its client believes it stored.
THEOREM WaitingRowsExplained == Spec => []WaitingIsExplained
<1>1. IInv => WaitingIsExplained
  <2> SUFFICES ASSUME IInv, NEW c \in Checkins, row[c] = "WAITING"
               PROVE  \/ Unqueued(c) /\ request[c] \in {"inserted", "hung", "error", "panicked", "lost"}
                      \/ jobState[ScheduleJob(c)] \in {"queued", "reserved", "dead"}
                      \/ jobState[ScheduleJob(c)] = "acked" /\ c \in noFlights
    BY DEF WaitingIsExplained
  <2> TypeOK /\ RowInv /\ AnswersAreTrue /\ AckedMeansReported
    BY DEF IInv
  <2>1. row[c] # NoRow
    BY NoRowAssumption DEF CheckinStatusEnum
  <2>2. jobState[ScheduleJob(c)] \in JobStates
    BY JobNames DEF TypeOK, FaktoryTypeOK
  <2>3. CASE jobState[ScheduleJob(c)] = "absent"
    <3>1. request[c] \in {"inserted", "hung", "error", "panicked", "lost"}
      BY <2>1, <2>3 DEF RowInv, AnswersAreTrue, TypeOK, WebTypeOK, RequestStates
    <3>2. QED
      BY <2>1, <2>3, <3>1 DEF Unqueued
  <2>4. CASE jobState[ScheduleJob(c)] = "acked"
    BY <2>4 DEF AckedMeansReported
  <2>5. QED
    BY <2>2, <2>3, <2>4 DEF JobStates
<1>2. QED
  BY <1>1, PipelineInvariant, PTL

\* One delivery of a schedule job never queues a leg twice.
THEOREM PushesAreFresh == Spec => []NoPushTwicePerDelivery
<1>1. IInv => NoPushTwicePerDelivery
  BY DEF IInv, RunInv, StepInv, NoPushTwicePerDelivery, TypeOK, WorkerTypeOK, ThreadStates
<1>2. QED
  BY <1>1, PipelineInvariant, PTL

\* When a row's schedule job is over, what it reported about the row is final but
\* for COMPLETED.  (The code reaches not even that: its start jobs report SUCCESS,
\* which no row can take, so the proof shows the row unchanged.)
THEOREM FinishedRowsSettle == Spec => StatusSettles
<1>1. ASSUME IInv, [Next]_vars, NEW c \in Checkins, ScheduleIsOver(c)
      PROVE  row'[c] = row[c]
  <2> TypeOK /\ RowInv /\ StepInv /\ BusyInv
    BY <1>1 DEF IInv
  <2>1. CASE WebNext /\ UNCHANGED workerVars
    <3>1. request[c] # "locked"
      BY <1>1 DEF ScheduleIsOver, RowInv
    <3>2. QED
      BY <1>1, <2>1, <3>1, WebFrame
  <2>2. ASSUME NEW t \in Threads, ThreadStep(t) PROVE row'[c] = row[c]
    <3>1. \/ UNCHANGED webVars
          \/ /\ thread[t].at = "report"
             /\ UpdateCheckinStatus(RowOf(t), thread[t].say)
      BY <2>2 DEF ThreadStep, ScheduleStep, StartStep, LookupRaises, LookupFailedCheckin, LookupFound,
       LookupFoundNothing, LookupDone, QueueStart, QueueRefused, QueueRaises, CheckinConfirmed,
       CheckinRaises, ReportApplied, ReportAnswerLost, ReportRaises, AckJob, FailJob
    <3>2. ASSUME thread[t].at = "report", UpdateCheckinStatus(RowOf(t), thread[t].say)
          PROVE  RowOf(t) # c
      <4>1. thread[t].job \in ScheduleJobs
        BY <3>2 DEF StepInv, UpdateCheckinStatus, UpdateAccepted, CheckinStatusEnum
      <4>2. QED
        BY <1>1, <3>2, <4>1, JobNames DEF ScheduleIsOver, RowOf
    <3>3. QED
      BY <3>1, <3>2 DEF webVars, UpdateCheckinStatus, TypeOK, WebTypeOK
  <2>3. QED
    BY <1>1, <2>1, <2>2
    DEF Next, WorkerNext, Fetch, WorkerDies, WorkerStarts, Expiry, vars, webVars
<1>2. ASSUME IInv, [Next]_vars
      PROVE  [\A c \in Checkins : ScheduleIsOver(c) => row'[c] \in {row[c], "COMPLETED"}]_vars
  BY <1>1, <1>2
<1>3. QED
  BY <1>2, PipelineInvariant, PTL DEF Spec, StatusSettles

-----------------------------------------------------------------------------
\* The pipeline implements the promise its users are made: every step of the web
\* backend, the worker or the job server is a step of the check-in's life, or one
\* its users cannot see.
THEOREM PipelineImplementsLifecycle == Spec => ImplementsLifecycle
<1> USE DEF Lifecycle!LifecycleNext, Lifecycle!lifecycleVars
<1>1. Init => Lifecycle!LifecycleInit
  <2> SUFFICES ASSUME Init PROVE Lifecycle!LifecycleInit
    OBVIOUS
  <2>1. PlannedLegs = {}
    BY JobNames DEF PlannedLegs, Planned, Init, FaktoryInit
  <2>2. QED
    BY <2>1 DEF Lifecycle!LifecycleInit, Init, WebInit, WorkerInit
<1>2. ASSUME IInv, [Next]_vars PROVE [Lifecycle!LifecycleNext]_Lifecycle!lifecycleVars
  <2> TypeOK /\ RowInv /\ StepInv /\ BusyInv /\ SayInv /\ JobsHaveRows
    BY <1>2 DEF IInv
  <2>1. ASSUME \A j \in StartJobs : jobState'[j] = "absent" <=> jobState[j] = "absent"
        PROVE  PlannedLegs' = PlannedLegs
    BY <2>1, JobNames DEF PlannedLegs, Planned
  <2>2. CASE UNCHANGED vars
    BY <2>1, <2>2 DEF vars, faktoryVars, webVars, workerVars
  <2>3. CASE WebNext /\ UNCHANGED workerVars
    <3>1. PlannedLegs' = PlannedLegs /\ checkedIn' = checkedIn
      BY <1>2, <2>1, <2>3, WebFrame, JobNames DEF workerVars
    <3>2. ASSUME NEW c \in Checkins, InsertRow(c) \/ InsertFails(c) \/ InsertHangs(c)
          PROVE  Lifecycle!Create(c) \/ row' = row
      BY <3>1, <3>2 DEF InsertRow, InsertFails, InsertHangs, Commit, RowInv, Lifecycle!Create
    <3>3. CASE \A c \in Checkins : ~(InsertRow(c) \/ InsertFails(c) \/ InsertHangs(c))
      <4>1. \/ \E c \in Checkins : \/ Arrive(c) \/ LockProducer(c) \/ LockPoisoned(c)
                                   \/ Enqueue(c) \/ EnqueuePanics(c) \/ EnqueueHangs(c)
            \/ KillWeb \/ StartWeb
        BY <2>3, <3>3 DEF WebNext, CreateStep
      <4>2. row' = row
        BY <4>1 DEF Arrive, LockProducer, LockPoisoned, Enqueue, EnqueuePanics, EnqueueHangs,
           KillWeb, StartWeb
      <4>3. QED
        BY <3>1, <4>2
    <3>4. QED
      BY <3>1, <3>2, <3>3
  <2>4. CASE Expiry
    <3>1. \A j \in StartJobs : jobState'[j] = "absent" <=> jobState[j] = "absent"
      BY <2>4, JobNames DEF Expiry, Expire, Fail, Unacknowledged, TypeOK, FaktoryTypeOK
    <3>2. QED
      BY <2>1, <2>4, <3>1 DEF Expiry, webVars, workerVars
  <2>5. ASSUME NEW t \in Threads, NEW j \in Jobs, Fetch(t, j) PROVE UNCHANGED Lifecycle!lifecycleVars
    <3>1. \A i \in StartJobs : jobState'[i] = "absent" <=> jobState[i] = "absent"
      BY <2>5, JobNames DEF Fetch, Reserve, TypeOK, FaktoryTypeOK
    <3>2. QED
      BY <2>1, <2>5, <3>1 DEF Fetch, webVars
  <2>6. CASE WorkerDies \/ WorkerStarts
    BY <2>1, <2>6 DEF WorkerDies, WorkerStarts, faktoryVars, webVars
  <2>7. ASSUME NEW t \in Threads, ThreadStep(t)
        PROVE  [Lifecycle!LifecycleNext]_Lifecycle!lifecycleVars
    <3>1. CASE AckJob(t) \/ FailJob(t)
      <4>1. \A j \in StartJobs : jobState'[j] = "absent" <=> jobState[j] = "absent"
        BY <3>1, JobNames DEF AckJob, FailJob, Acknowledge, Fail, Unacknowledged, TypeOK, FaktoryTypeOK
      <4>2. QED
        BY <2>1, <3>1, <4>1 DEF AckJob, FailJob, webVars
    <3>2. ASSUME NEW leg \in Legs, QueueStart(t, leg) \/ QueueRaises(t, leg)
          PROVE  Lifecycle!Plan(RowOf(t), leg) \/ UNCHANGED Lifecycle!lifecycleVars
      <4> DEFINE j == StartJob(RowOf(t), leg, thread[t].run)
      <4>1. thread[t].at = "queue" /\ RowOf(t) \in Checkins /\ thread[t].run \in 1 .. MaxDeliveries
            /\ row[RowOf(t)] # NoRow
        BY <3>2, JobNames, DeliveriesAssumption
        DEF QueueStart, QueueRaises, BusyInv, RowOf, TypeOK, FaktoryTypeOK, JobsHaveRows
      <4>2. UNCHANGED <<row, checkedIn>> /\ (UNCHANGED faktoryVars \/ Push(j))
        BY <3>2 DEF QueueStart, QueueRaises, webVars
      <4>3. ASSUME Push(j) PROVE PlannedLegs' = PlannedLegs \cup {<<RowOf(t), leg>>}
        <5>1. j \in Jobs /\ jobState'[j] = "queued" /\ \A i \in Jobs : i # j => jobState'[i] = jobState[i]
          BY <4>1, <4>3, JobNames DEF Push, TypeOK, FaktoryTypeOK
        <5>2. ASSUME NEW c \in Checkins, NEW l \in Legs, NEW n \in 1 .. MaxDeliveries,
                     StartJob(c, l, n) = j
              PROVE  c = RowOf(t) /\ l = leg
          BY <4>1, <5>2, JobNames
        <5>3. ASSUME NEW c \in Checkins, NEW l \in Legs
              PROVE  Planned(c, l)' <=> Planned(c, l) \/ (c = RowOf(t) /\ l = leg)
          <6>1. ASSUME Planned(c, l)' PROVE Planned(c, l) \/ (c = RowOf(t) /\ l = leg)
            BY <5>1, <5>2, <6>1, JobNames DEF Planned
          <6>2. ASSUME Planned(c, l) PROVE Planned(c, l)'
            BY <1>2, <6>2, JobsStay
          <6>3. ASSUME c = RowOf(t), l = leg PROVE Planned(c, l)'
            BY <4>1, <5>1, <6>3 DEF Planned
          <6>4. QED
            BY <6>1, <6>2, <6>3
        <5>4. QED
          BY <4>1, <5>3 DEF PlannedLegs
      <4>4. CASE UNCHANGED faktoryVars
        BY <2>1, <4>2, <4>4 DEF faktoryVars
      <4>5. QED
        BY <4>1, <4>2, <4>3, <4>4 DEF Lifecycle!Plan
    <3>3. ASSUME thread[t].at = "report", UpdateCheckinStatus(RowOf(t), thread[t].say),
                 UNCHANGED <<faktoryVars, checkedIn>>
          PROVE  Lifecycle!ReportScheduled(RowOf(t)) \/ Lifecycle!ReportFailed(RowOf(t))
      <4>1. PlannedLegs' = PlannedLegs
        BY <2>1, <3>3 DEF faktoryVars
      <4>2. thread[t].say \in {"SCHEDULED", "FAILED"} /\ row[RowOf(t)] # NoRow
            /\ row' = [row EXCEPT ![RowOf(t)] = thread[t].say]
        BY <3>3 DEF StepInv, UpdateCheckinStatus, UpdateAccepted, CheckinStatusEnum
      <4>3. CASE thread[t].say = "SCHEDULED"
        <5>1. RowOf(t) \in Checkins
          BY <3>3, JobNames DEF BusyInv, RowOf
        <5>2. PICK leg \in Legs : Planned(RowOf(t), leg)
          BY <3>3, <4>3 DEF SayInv
        <5>3. <<RowOf(t), leg>> \in PlannedLegs
          BY <5>1, <5>2 DEF PlannedLegs
        <5>4. QED
          BY <3>3, <4>1, <4>2, <4>3, <5>3 DEF Lifecycle!ReportScheduled
      <4>4. CASE thread[t].say = "FAILED"
        BY <3>3, <4>1, <4>2, <4>4 DEF Lifecycle!ReportFailed
      <4>5. QED
        BY <4>2, <4>3, <4>4
    <3>4. ASSUME CheckinConfirmed(t) \/ CheckinRaises(t)
          PROVE  Lifecycle!CheckIn(RowOf(t), thread[t].job.leg) \/ UNCHANGED Lifecycle!lifecycleVars
      <4>1. thread[t].at = "checkin" /\ UNCHANGED <<faktoryVars, webVars>>
            /\ (UNCHANGED checkedIn \/ checkedIn' = checkedIn \cup {<<RowOf(t), thread[t].job.leg>>})
        BY <3>4 DEF CheckinConfirmed, CheckinRaises
      <4>2. PlannedLegs' = PlannedLegs /\ row' = row
        BY <2>1, <4>1 DEF faktoryVars, webVars
      <4>3. thread[t].job \in StartJobs /\ jobState[thread[t].job] # "absent"
        BY <4>1 DEF StepInv, BusyInv
      <4>4. <<RowOf(t), thread[t].job.leg>> \in PlannedLegs
        BY <4>3, JobNames DEF PlannedLegs, Planned, RowOf
      <4>5. QED
        BY <4>1, <4>2, <4>4 DEF Lifecycle!CheckIn
    <3>5. \/ UNCHANGED <<row, jobState, checkedIn>>
          \/ AckJob(t) \/ FailJob(t)
          \/ \E leg \in Legs : QueueStart(t, leg) \/ QueueRaises(t, leg)
          \/ /\ thread[t].at = "report"
             /\ UpdateCheckinStatus(RowOf(t), thread[t].say)
             /\ UNCHANGED <<faktoryVars, checkedIn>>
          \/ CheckinConfirmed(t) \/ CheckinRaises(t)
      BY <2>7 DEF ThreadStep, ScheduleStep, StartStep, LookupRaises, LookupFailedCheckin, LookupFound,
       LookupFoundNothing, LookupDone, QueueStart, QueueRefused, QueueRaises, CheckinConfirmed,
       CheckinRaises, ReportApplied, ReportAnswerLost, ReportRaises, AckJob, FailJob, webVars, faktoryVars
    <3>6. ASSUME thread[t].at # "idle" PROVE RowOf(t) \in Checkins
      BY <3>6, JobNames DEF BusyInv, RowOf
    <3>7. thread[t].at # "idle" /\ (thread[t].at = "checkin" => thread[t].job.leg \in Legs)
      BY <1>2, <2>7, ThreadFrame, JobNames DEF StepInv
    <3>8. CASE UNCHANGED <<row, jobState, checkedIn>>
      BY <2>1, <3>8
    <3>9. CASE CheckinConfirmed(t) \/ CheckinRaises(t)
      BY <3>4, <3>6, <3>7, <3>9 DEF CheckinConfirmed, CheckinRaises
    <3>10. QED
      BY <3>1, <3>2, <3>3, <3>5, <3>6, <3>7, <3>8, <3>9
  <2>8. QED
    BY <1>2, <2>2, <2>3, <2>4, <2>5, <2>6, <2>7 DEF Next, WorkerNext
<1>3. QED
  BY <1>1, <1>2, PipelineInvariant, PTL DEF Spec, ImplementsLifecycle, Lifecycle!LifecycleSpec
=============================================================================
