--------------------------- MODULE CheckinLifecycle ---------------------------
(***************************************************************************)
(* What the check-in service promises its users, without web processes,    *)
(* mutexes, jobs or threads: a check-in is created waiting, may be given   *)
(* the tasks that will check its legs in, is reported SCHEDULED only when  *)
(* it has such a task, and a leg is checked in only by a task it was given.*)
(***************************************************************************)
CONSTANTS Checkins, Legs, NoRow

VARIABLES
    status,   \* the status users read
    planned,  \* <<check-in, leg>> pairs with a check-in task
    done      \* <<check-in, leg>> pairs checked in with the airline

lifecycleVars == <<status, planned, done>>

LifecycleInit ==
    /\ status = [c \in Checkins |-> NoRow]
    /\ planned = {}
    /\ done = {}

Create(c) ==
    /\ status[c] = NoRow
    /\ status' = [status EXCEPT ![c] = "WAITING"]
    /\ UNCHANGED <<planned, done>>

Plan(c, leg) ==
    /\ status[c] # NoRow
    /\ planned' = planned \cup {<<c, leg>>}
    /\ UNCHANGED <<status, done>>

ReportScheduled(c) ==
    /\ \E leg \in Legs : <<c, leg>> \in planned
    /\ status' = [status EXCEPT ![c] = "SCHEDULED"]
    /\ UNCHANGED <<planned, done>>

ReportFailed(c) ==
    /\ status[c] # NoRow
    /\ status' = [status EXCEPT ![c] = "FAILED"]
    /\ UNCHANGED <<planned, done>>

CheckIn(c, leg) ==
    /\ <<c, leg>> \in planned
    /\ done' = done \cup {<<c, leg>>}
    /\ UNCHANGED <<status, planned>>

LifecycleNext ==
    \E c \in Checkins :
        \/ Create(c)
        \/ ReportScheduled(c)
        \/ ReportFailed(c)
        \/ \E leg \in Legs : Plan(c, leg) \/ CheckIn(c, leg)

LifecycleSpec == LifecycleInit /\ [][LifecycleNext]_lifecycleVars
=============================================================================
