------------------------------ MODULE Connections ------------------------------
(* The broker's two kinds of connection: a worker's bridge (WorkerBoundary)    *)
(* and an observing parent (Observers).  The components keep no variable in    *)
(* common, so their states need not be multiplied: one of them, the subject,   *)
(* moves and the other stays as it begins.  Of each there are instances with   *)
(* different bounds, which share its variables.                                *)
EXTENDS Naturals

VARIABLES subject,
          \* WorkerBoundary
          asg, closed, role, workflow, generation, client, closing, todo,
          baseline, link, inbox, outbox, wk, got, run, due, ask, settling, late,
          greeted, process, cli, runs, sends, faults, turns, heard,
          \* Observers
          runState, round, paused, filed, up, recent, members, plan, server,
          tube, parentLink, parent, owed, used

boundaryVars == <<asg, closed, role, workflow, generation, client, closing, todo,
                  baseline, link, inbox, outbox, wk, got, run, due, ask, settling,
                  late, greeted, process, cli, runs, sends, faults, turns, heard>>
observerVars == <<runState, round, paused, filed, up, recent, members, plan,
                  server, tube, parentLink, parent, owed, used>>
vars == <<subject, boundaryVars, observerVars>>

\* Two assignments, connections lost and answers late, no restart.
Outages == INSTANCE WorkerBoundary WITH
    MaxAssignments <- 2, MaxRuns <- 3, MaxSends <- 1, MaxRestarts <- 0,
    MaxFaults <- 2, Suspends <- FALSE

\* Restarts of the worker; no coroutine is suspended between its steps.
Handover == INSTANCE WorkerBoundary WITH
    MaxAssignments <- 1, MaxRuns <- 1, MaxSends <- 1, MaxRestarts <- 2,
    MaxFaults <- 1, Suspends <- FALSE

\* Every write and every broadcast may suspend its coroutine: while the worker
\* goes through its recovery turn, and while it is restarted.
Suspended == INSTANCE WorkerBoundary WITH
    MaxAssignments <- 1, MaxRuns <- 2, MaxSends <- 1, MaxRestarts <- 0,
    MaxFaults <- 1, Suspends <- TRUE
Relieved == INSTANCE WorkerBoundary WITH
    MaxAssignments <- 1, MaxRuns <- 1, MaxSends <- 1, MaxRestarts <- 1,
    MaxFaults <- 1, Suspends <- TRUE

\* Everything may happen once.
Told == INSTANCE Observers WITH
    Parents <- {"p"}, Workers <- {"w1", "w2"}, Reviewer <- "w2", Limit <- 1,
    Buffer <- 0, MaxRetries <- 0, MaxReports <- 1, MaxChanges <- 1,
    MaxCrashes <- 1, MaxBreaks <- 1,
    workflow <- runState, link <- parentLink

\* More reports than the broker replays.
Replayed == INSTANCE Observers WITH
    Parents <- {"p"}, Workers <- {"w1", "w2"}, Reviewer <- "w2", Limit <- 1,
    Buffer <- 0, MaxRetries <- 1, MaxReports <- 2, MaxChanges <- 0,
    MaxCrashes <- 0, MaxBreaks <- 1,
    workflow <- runState, link <- parentLink

ASSUME BoundsAreAllowed ==
    /\ Outages!ConstantAssumption /\ Handover!ConstantAssumption
    /\ Suspended!ConstantAssumption /\ Relieved!ConstantAssumption
    /\ Told!ObserverAssumption /\ Replayed!ObserverAssumption

Boundary == {"outages", "handover", "suspended", "relieved"}

Init ==
    /\ subject \in Boundary \cup {"told", "replayed"}
    /\ IF subject = "outages" THEN Outages!Init ELSE Handover!Init
    /\ Told!Init

Next ==
    /\ UNCHANGED subject
    /\ \/ /\ \/ subject = "outages" /\ Outages!Next
             \/ subject = "handover" /\ Handover!Next
             \/ subject = "suspended" /\ Suspended!Next
             \/ subject = "relieved" /\ Relieved!Next
          /\ UNCHANGED observerVars
       \/ /\ \/ subject = "told" /\ Told!Next
             \/ subject = "replayed" /\ Replayed!Next
          /\ UNCHANGED boundaryVars

Spec == Init /\ [][Next]_vars

-----------------------------------------------------------------------------
(* Properties *)

\* An assignment has one recovery turn and is charged runs that ended, a
\* settlement that is sent again not twice; an assignment called accepted was
\* received by the current generation; and a bridge that lost an answer or a
\* message learns it by the time nothing is under way.
BoundaryIsSound ==
    /\ subject = "outages" => /\ Outages!TypeOK /\ Outages!SettlementsAreRuns
                              /\ Outages!LostReportIsLearned
                              /\ Outages!EpochIsLearned /\ Outages!ReminderOnce
    /\ subject = "handover" => Handover!AcceptedIsReceived
    /\ subject \in {"suspended", "relieved"} => Suspended!ReminderOnce
    /\ subject = "relieved" => Relieved!TypeOK

\* A role leaves a handover with its assignment only by a delivery that the new
\* generation accepted, stays restarting until then, and its bridge never goes
\* back to an epoch it left.
HandoverIsProven ==
    [][subject = "handover" => /\ Handover!ProvenStep /\ Handover!KeptStep
                               /\ Handover!ForwardStep]_vars

\* A parent with nothing left to read has every report that was accepted and
\* knows of the run's end, and one that is told of the approval after its
\* snapshot has every report the approval rests on.
ParentsAreTold ==
    /\ [](subject \in {"told", "replayed"} =>
            /\ Told!NoReportIsLost /\ Told!EndIsTold
            /\ subject = "replayed" => Replayed!TypeOK)
    /\ Replayed!ReadyIsComplete
================================================================================
