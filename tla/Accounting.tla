------------------------------- MODULE Accounting -------------------------------
(* What a run spends: the turns that workers are admitted to (CallAdmission)   *)
(* and the usage they report (WorkerUsage).  The two keep no variable in       *)
(* common, so their states need not be multiplied: one of them, the subject,   *)
(* moves and the other stays as it begins.  Each has several sets of bounds,   *)
(* which share its variables.                                                  *)
EXTENDS CallAdmission, TLC

VARIABLES subject,
          \* WorkerUsage
          asg, created, calls, activity, reports, facts, generation, handover,
          client, served, baseline, workerLink, opened, gone, shut, owner,
          frames, replies, total, wk, found, running, ask, process, timeouts,
          deaths, work, lost, reading, answer

usageVars == <<asg, created, calls, activity, reports, facts, generation,
               handover, client, served, baseline, workerLink, opened, gone,
               shut, owner, frames, replies, total, wk, found, running, ask,
               process, timeouts, deaths, work, lost, reading, answer>>
suiteVars == <<subject, vars, usageVars>>

\* Every scope has a ceiling; two workers share the run's.
ThreeScopes == [s \in Scopes |-> IF s = "assignment" THEN 1 ELSE 2]

AnyWorkers == Permutations(Workers)

\* Connections break, and an id is asked for again, on one assignment.
Repeated == INSTANCE CallAdmission WITH
    Repeats <- TRUE, MaxAsks <- 3, MaxAssignments <- 1, MaxCuts <- 1

\* Workers that settle are reminded, and claim the reminder for a turn.
Reminded == INSTANCE CallAdmission WITH
    Settles <- TRUE, MaxAsks <- 2, MaxAssignments <- 1, MaxCuts <- 0

\* One worker is reminded, loses its connection and has a second assignment.
Alone == INSTANCE CallAdmission WITH
    Workers <- {"w"}, Settles <- TRUE, MaxAsks <- 2, MaxAssignments <- 2, MaxCuts <- 1

\* One call warns, the second is hard.
OneThenTwo == [l \in {"warning", "hard"} |-> IF l = "warning" THEN 1 ELSE 2]

\* The session's usage across reconnections, lost answers and a restart.
Usage == INSTANCE WorkerUsage WITH
    MaxAssignments <- 2, MaxCalls <- 2, MaxConnections <- 3, MaxTimeouts <- 1,
    MaxRestarts <- 1, MaxDeaths <- 0, Threshold <- OneThenTwo, MaxFrames <- 2,
    Limit <- 1, Requests <- {},
    link <- workerLink, inbox <- frames, outbox <- replies

\* What other processes read of it in several transactions.
Reads == INSTANCE WorkerUsage WITH
    MaxAssignments <- 2, MaxCalls <- 2, MaxConnections <- 1, MaxTimeouts <- 0,
    MaxRestarts <- 0, MaxDeaths <- 1, Threshold <- OneThenTwo, MaxFrames <- 2,
    Limit <- 1, Requests <- {"snapshot", "usage", "status"},
    link <- workerLink, inbox <- frames, outbox <- replies

ASSUME BoundsAreAllowed ==
    /\ Repeated!ConstantAssumption /\ Reminded!ConstantAssumption
    /\ Alone!ConstantAssumption
    /\ Usage!ConstantAssumption /\ Reads!ConstantAssumption

EachInit ==
    /\ subject \in {"turns", "repeated", "reminded", "alone", "usage", "reads"}
    /\ CASE subject = "repeated" -> Repeated!Init
         [] subject = "reminded" -> Reminded!Init
         [] subject = "alone" -> Alone!Init
         [] OTHER -> Init
    /\ Usage!Init

EachNext ==
    /\ UNCHANGED subject
    /\ \/ /\ \/ subject = "turns" /\ Next
             \/ subject = "repeated" /\ Repeated!Next
             \/ subject = "reminded" /\ Reminded!Next
             \/ subject = "alone" /\ Alone!Next
          /\ UNCHANGED usageVars
       \/ /\ \/ subject = "usage" /\ Usage!Next
             \/ subject = "reads" /\ Reads!Next
          /\ UNCHANGED vars

\* Only the reminded workers.
RemindedSpec == (EachInit /\ subject = "reminded") /\ [][EachNext]_suiteVars

EachSpec == EachInit /\ [][EachNext]_suiteVars

-----------------------------------------------------------------------------
(* Properties *)

\* A dispatched turn has a reservation of its own, charged to the assignment
\* and epoch it is dispatched for; a refusal ends the epoch and is shown; and
\* an extension raises every ceiling or none.
TurnsAreHonest ==
    /\ [](/\ subject = "turns" => TypeOK /\ TurnsAreReserved
          /\ subject = "repeated" => Repeated!TypeOK /\ Repeated!TurnsAreReserved
          /\ subject = "reminded" => Reminded!TypeOK /\ Reminded!TurnsAreReserved
          /\ subject = "alone" => Alone!TypeOK /\ Alone!TurnsAreReserved
          /\ subject \notin {"usage", "reads"} =>
               RefusalEndsEpoch /\ RefusalIsShown /\ CeilingsMoveTogether)
    /\ [][/\ subject = "turns" => ChargedRight
          /\ subject = "reminded" => Reminded!ChargedRight
          /\ subject = "alone" => Alone!ChargedRight]_vars

\* No turn is dispatched in an epoch that its reservation is not charged to.
StaleGrantAborts == [][subject = "reminded" => Reminded!ChargedToEpoch]_vars

\* Each provider call is counted for the assignment it was made in and once,
\* through reconnections, replays and restarts; guardrail facts tell the truth;
\* and what is read in several transactions does not contradict itself.
UsageIsExact ==
    /\ [](/\ subject = "usage" =>
               /\ Usage!TypeOK /\ Usage!ActivityIsLive /\ Usage!DeltasAddUp
               /\ Usage!DeltaIsExact /\ Usage!FactsAreHonest
          /\ subject = "reads" => Reads!NothingMissing /\ Reads!StatusGoesForward)
    /\ Usage!CumulativeNeverShrinks
================================================================================
