------------------------------- MODULE Faktory -------------------------------
(***************************************************************************)
(* The Faktory job server, a service outside this repository, as the web   *)
(* backend (PUSH) and the worker (FETCH, ACK, FAIL) rely on it: delivery   *)
(* is at least once.  A pushed job waits until it is fetched; a fetched    *)
(* job is reserved; a reservation ends by an ACK, by a FAIL, or by itself  *)
(* when the worker has been silent for too long, and the last two make the *)
(* job deliverable again until its retries are used up.  Job times (the    *)
(* "at" of a job, retry back-off) are abstracted to a job being fetched at *)
(* any later moment.                                                       *)
(***************************************************************************)
EXTENDS CheckinJobs

VARIABLES
    jobState,    \* where Faktory keeps each job
    deliveries   \* how often each job has been handed to the worker

faktoryVars == <<jobState, deliveries>>

JobStates == {"absent", "queued", "reserved", "acked", "dead"}

FaktoryTypeOK ==
    /\ jobState \in [Jobs -> JobStates]
    /\ deliveries \in [Jobs -> 0 .. MaxDeliveries]

FaktoryInit ==
    /\ jobState = [j \in Jobs |-> "absent"]
    /\ deliveries = [j \in Jobs |-> 0]

\* PUSH: the server stores a new job.
Push(j) ==
    /\ jobState' = [jobState EXCEPT ![j] = "queued"]
    /\ UNCHANGED deliveries

\* FETCH: the server reserves a waiting job for one worker thread.
Reserve(j) ==
    /\ jobState[j] = "queued"
    /\ jobState' = [jobState EXCEPT ![j] = "reserved"]
    /\ deliveries' = [deliveries EXCEPT ![j] = @ + 1]

\* ACK: the reservation ends and the job is gone.  The ACK of a thread whose
\* reservation has already expired finds no reservation and changes nothing,
\* unless the job has been reserved again since: a job has one id.
Acknowledge(j) ==
    /\ jobState' = [jobState EXCEPT ![j] = IF @ = "reserved" THEN "acked" ELSE @]
    /\ UNCHANGED deliveries

\* Mutant: the retry limit is forgotten.
UnacknowledgedForEver(j) == "queued"

\* Where a reserved job goes that was not acknowledged.
Unacknowledged(j) == IF deliveries[j] < MaxDeliveries THEN "queued" ELSE "dead"

\* Mutant: a failed delivery is never handed out again.
FailForgotten(j) == UNCHANGED faktoryVars

\* FAIL: the job is retried later, or dropped when its retries are used up.
Fail(j) ==
    /\ jobState' = [jobState EXCEPT ![j] = IF @ = "reserved" THEN Unacknowledged(j) ELSE @]
    /\ UNCHANGED deliveries

\* The reservation runs out while the worker is busy, hung or gone.
Expire(j) ==
    /\ jobState[j] = "reserved"
    /\ Fail(j)
=============================================================================
