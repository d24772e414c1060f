----------------------------- MODULE CheckinJobs -----------------------------
(***************************************************************************)
(* The vocabulary the web backend, the Faktory job server and the worker   *)
(* share: the check-in rows, their status, and the jobs about them.        *)
(*                                                                         *)
(* A row is named by the createCheckin request that inserts it: the table's *)
(* SERIAL primary key gives every inserted row an id of its own.  A job is *)
(* named by what it is about: a schedule_checkin job by its row, a         *)
(* start_checkin job by its row, its flight leg and the delivery of the    *)
(* schedule job that queued it (Faktory draws a fresh random job id).      *)
(***************************************************************************)
EXTENDS Naturals

CONSTANTS
    Checkins,       \* the createCheckin requests, and the rows they insert
    Legs,           \* the flight legs of a reservation, numbered in its order
    MaxDeliveries,  \* bound: deliveries of one job before Faktory drops it
    NoRow,          \* the row of a request that has inserted nothing
    NoLeg           \* the leg of a schedule_checkin job

ASSUME LegsAssumption == Legs \subseteq Nat
ASSUME DeliveriesAssumption == MaxDeliveries \in Nat \ {0}
ASSUME NoLegAssumption == NoLeg \notin Legs

\* The values the GraphQL enum and the database enum accept.
CheckinStatusEnum == {"WAITING", "SCHEDULED", "COMPLETED", "FAILED"}

ASSUME NoRowAssumption == NoRow \notin CheckinStatusEnum

\* The job create_checkin enqueues for row c.
ScheduleJob(c) == [kind |-> "schedule_checkin", row |-> c, leg |-> NoLeg, run |-> 0]

\* The job that delivery n of row c's schedule job queues for one leg.
StartJob(c, leg, n) == [kind |-> "start_checkin", row |-> c, leg |-> leg, run |-> n]

ScheduleJobs == {ScheduleJob(c) : c \in Checkins}
StartJobs == {StartJob(c, leg, n) : c \in Checkins, leg \in Legs, n \in 1 .. MaxDeliveries}
Jobs == ScheduleJobs \cup StartJobs
=============================================================================
